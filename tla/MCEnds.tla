------------------------------- MODULE MCEnds -------------------------------
(***************************************************************************)
(* Small instances of what must come about in the end, under the fairness  *)
(* of each component: what is held is served, what is red is reviewed,     *)
(* what has begun ends, and the operator is told. Each behaviour is about  *)
(* one component.                                                          *)
(***************************************************************************)
EXTENDS Integers, TLC

CONSTANTS c1, NoOne

OnRoute == ("h1" :> "reviewer") @@ ("h2" :> "fixer") @@ ("h3" :> "fixer")
Own(n, k) == [name |-> n, kind |-> k, data |-> "own"]

VARIABLE part   \* the component that this behaviour is about

VARIABLES life, pc, spent, allowed, budget, claim, age, mark, markAge, head,
          verdicts, requests, gate, shown
claimsVars == <<life, pc, spent, allowed, budget, claim, age, mark, markAge, head,
                verdicts, requests, gate, shown>>
Claims == INSTANCE SeatClaims WITH Run <- {"turn"},
                                   SeatOf <- [r \in {"turn"} |-> "fixer"],
                                   HeadOf <- [r \in {"turn"} |-> 1], NoRun <- NoOne,
                                   MaxHead <- 2, Budget <- {0, 1}, TtlMin <- 1,
                                   Tail <- 1, MarkTtl <- 1, MayFail <- TRUE

VARIABLES queueHead, wanted, up, policy, turns, entry, ids, queueGate, drain
queueVars == <<queueHead, wanted, up, policy, turns, entry, ids, queueGate, drain>>
Queue == INSTANCE SeatQueue WITH MaxHead <- 1, Gate <- {"g1", "g2"},
                                 Drainer <- {"drain"}, MaxId <- 2,
                                 Faults <- {"ledger"}, head <- queueHead,
                                 gate <- queueGate

VARIABLES breachHead, approved, marker, tokens, send, row, breachPc, rulings
breachVars == <<breachHead, approved, marker, tokens, send, row, breachPc, rulings>>
Breaches == INSTANCE Breach WITH MaxHead <- 1, Sender <- {"s1", "s2"},
                                 MaxToken <- 3, MayFail <- TRUE, head <- breachHead,
                                 pc <- breachPc

VARIABLES depth, origin, labels, pr, held, queued, chainPc, count, offered, deepest,
          days
chainVars == <<depth, origin, labels, pr, held, queued, chainPc, count, offered,
               deepest, days>>
Chain == INSTANCE IssueChain WITH Root <- "root", Issue <- {"i1", "i2"},
                                  Proc <- {"p1"}, MaxDepth <- 2, Daily <- 2,
                                  Days <- 0, MayWithdraw <- FALSE, pc <- chainPc

VARIABLES loopHead, open, changes, loopApproved, dismissed, loopMarker, escalated,
          human, granted, review, fix, told, loopGate
loopVars == <<loopHead, open, changes, loopApproved, dismissed, loopMarker,
              escalated, human, granted, review, fix, told, loopGate>>
Loop == INSTANCE ReviewLoop WITH MaxHead <- 2, Cap <- 1, ReviewOnly <- FALSE,
                                 PushOn <- TRUE, Gate <- {"g1"},
                                 Persons <- {"push", "dismiss"}, head <- loopHead,
                                 approved <- loopApproved, marker <- loopMarker,
                                 gate <- loopGate

VARIABLES retargetPr, era, reviews, seen, hold, cue, breach, retargetTurns, run, acts,
          proc, clock, left
retargetVars == <<retargetPr, era, reviews, seen, hold, cue, breach, retargetTurns, run,
                  acts, proc, clock, left>>
Retargeted == INSTANCE Retarget WITH Actor <- {"sweep", "hook"}, Sweep <- "sweep",
                                     Heads <- 1, Eras <- 2, Reviews <- 0,
                                     Failures <- 0, Deaths <- 1, pr <- retargetPr,
                                     turns <- retargetTurns

VARIABLES redHead, ci, redFix, redReview, worker, sweeper, waited, stale, faults
redVars == <<redHead, ci, redFix, redReview, worker, sweeper, waited, stale, faults>>
Red == INSTANCE RedHead WITH Check <- {c1}, Required <- {c1}, MaxRun <- 1,
                             Heads <- 2, Cap <- 1, AfterCI <- TRUE, Failures <- 1,
                             head <- redHead, fix <- redFix, review <- redReview
Stale == INSTANCE RedHead WITH Check <- {c1}, Required <- {c1}, MaxRun <- 2,
                               Heads <- 1, Cap <- 1, AfterCI <- FALSE,
                               Failures <- 1, head <- redHead, fix <- redFix,
                               review <- redReview

VARIABLES main, mainCi, memory, notices, judging
mainVars == <<main, mainCi, memory, notices, judging>>
Main == INSTANCE MainRed WITH Check <- {"c1", "c2"}, Required <- {"c1"},
                              MaxRun <- 2, Merges <- 2, ci <- mainCi

VARIABLES stagePr, tree, stageRun, root, temp, asked, since, stageLeft
stageVars == <<stagePr, tree, stageRun, root, temp, asked, since, stageLeft>>
Stage == INSTANCE Staging WITH Proc <- {"e1"}, Role <- {"seat"},
                               Tree <- {{Own("x", "exec"), Own("y", "link")}, {Own("x", "file"), Own("y", "file")}},
                               Loose <- {[Own("x", "file") EXCEPT !.data = "forged"]},
                               Target <- {"codeload", "elsewhere"}, Moves <- 1,
                               Faults <- 1, MaxFiles <- 2, pr <- stagePr,
                               run <- stageRun, left <- stageLeft

VARIABLES callOpen, used, callPc, tok, posts, reply, credential, lock, quiet, near,
          accepted, lastHeaders, limited
callVars == <<callOpen, used, callPc, tok, posts, reply, credential, lock, quiet,
              near, accepted, lastHeaders, limited>>
Calls == INSTANCE ModelCalls WITH Calls <- {"c1", "c2"}, Quota <- 1,
                                  MaxConnections <- 2, Resets <- {1}, MaxToken <- 2,
                                  NoOne <- NoOne, open <- callOpen, pc <- callPc

VARIABLES now, window, windows, paceHold, paceTurns, flock, mem, pacePc, retryAt,
          retries, paceLimited, ended, loopOf, counted, paceTold, plain, deaths
paceVars == <<now, window, windows, paceHold, paceTurns, flock, mem, pacePc,
              retryAt, retries, paceLimited, ended, loopOf, counted, paceTold,
              plain, deaths>>
Pace == INSTANCE Pacing WITH Runs <- {"a1", "a2"}, Loops <- {"loop", "renamed"},
                             LoopOf <- [r \in {"a1", "a2"} |-> "loop"], Cap <- 9,
                             MaxRetries <- 1, DayLength <- 2, Horizon <- 2,
                             Windows <- 1, Deaths <- 0, NoOne <- NoOne,
                             hold <- paceHold, turns <- paceTurns, pc <- pacePc,
                             limited <- paceLimited, told <- paceTold

VARIABLES routes, intent, url, loopfiles, dir, paused, at, todo, moving, back,
          unproven, answered, renameFaults
renameVars == <<routes, intent, url, loopfiles, dir, paused, at, todo, moving, back,
                unproven, answered, renameFaults>>
Renamed == INSTANCE LoopRename WITH Hook <- {"h1", "h2", "h3"},
                                    Route <- {"reviewer", "fixer"}, On <- OnRoute,
                                    Faults <- 2, faults <- renameFaults

VARIABLES reg, ver, regIntent, on, minted, op, sweep, native, ops, writes, dropped
regVars == <<reg, ver, regIntent, on, minted, op, sweep, native, ops, writes,
             dropped>>
Registry == INSTANCE RouteRegistry WITH Other <- {"other"}, Route <- {"route"},
                                        Native <- {"dashboard"}, Ops <- 2,
                                        Writes <- 2, Overlap <- FALSE,
                                        intent <- regIntent

VARIABLES feedEntry, order, feedSend, got, bound, conf, cmd, old, feedChanges
feedVars == <<feedEntry, order, feedSend, got, bound, conf, cmd, old, feedChanges>>
Feed == INSTANCE ObserverFeed WITH Fact <- {"f1", "f2"}, Urgent <- {},
                                   Digest <- TRUE, Dest <- {"d1"}, Attempts <- 2,
                                   Changes <- 1, Overlap <- TRUE,
                                   entry <- feedEntry, send <- feedSend,
                                   changes <- feedChanges

VARIABLES failedLeft, file, torn, copy, gt, sw, read, owed, drives, said
failedVars == <<failedLeft, file, torn, copy, gt, sw, read, owed, drives, said>>
Failed == INSTANCE GateFailures WITH MaxRedrives <- 1, Deliveries <- 1,
                                     Gate <- {"gate"}, Sweeper <- {"watch"},
                                     Faults <- {"kill", "clean"}, left <- failedLeft

VARIABLES calm, stalled, watch, sweepLock, sweepSw, sweepQuiet, health, kicked
sweepVars == <<calm, stalled, watch, sweepLock, sweepSw, sweepQuiet, health, kicked>>
Sweeps == INSTANCE Sweep WITH PR <- {"p1"}, Sweeper <- {"watch"}, Cooldown <- 2,
                              Failures <- 1, MayClear <- TRUE,
                              Faults <- {"github", "slow", "raise"},
                              lock <- sweepLock, sw <- sweepSw, quiet <- sweepQuiet

Part ==
  {"claims", "queue", "breach", "chain", "loop", "retarget", "red_head",
           "stale_approval", "main", "staging", "calls", "pacing", "rename",
           "registry", "feed", "failed_gates", "sweep"}

ASSUME EndsAssumption ==
  /\ Queue!SeatQueueAssumption
  /\ Chain!IssueChainAssumption /\ Retargeted!RetargetAssumption
  /\ Red!RedHeadAssumption /\ Red!ChecksAssumption /\ Stale!RedHeadAssumption
  /\ Stale!ChecksAssumption /\ Main!MainRedAssumption /\ Main!ChecksAssumption
  /\ Stage!StagingAssumption /\ Pace!PacingAssumption /\ Renamed!LoopRenameAssumption
  /\ Registry!RouteRegistryAssumption /\ Feed!ObserverFeedAssumption
  /\ Failed!GateFailuresAssumption /\ Sweeps!SweepAssumption

\* The component of the part starts in its own initial states; the others rest in one.
PartInit ==
  /\ part \in Part
  /\ Claims!Init
  /\ Queue!Init
  /\ Breaches!Init
  /\ Chain!Init
  /\ Loop!Init
  /\ Retargeted!Init /\ (part = "retarget" \/ (~retargetPr.draft))
  /\ IF part = "stale_approval" THEN Stale!Init
     ELSE Red!Init
  /\ Main!Init
  /\ Stage!Init /\ (part = "staging" \/ (Own("y", "link") \in tree))
  /\ Calls!Init
  /\ Pace!Init
  /\ Renamed!Init
  /\ Registry!Init /\ (part = "registry" \/ (on["route"]))
  /\ Feed!Init
  /\ Failed!Init
  /\ Sweeps!Init

\* Only the component with the variables named moves.
OnlyClaims == UNCHANGED <<part, queueVars, breachVars, chainVars, loopVars,
                          retargetVars, redVars, mainVars, stageVars, callVars,
                          paceVars, renameVars, regVars, feedVars, failedVars,
                          sweepVars>>
OnlyQueue == UNCHANGED <<part, claimsVars, breachVars, chainVars, loopVars,
                         retargetVars, redVars, mainVars, stageVars, callVars,
                         paceVars, renameVars, regVars, feedVars, failedVars,
                         sweepVars>>
OnlyBreach == UNCHANGED <<part, claimsVars, queueVars, chainVars, loopVars,
                          retargetVars, redVars, mainVars, stageVars, callVars,
                          paceVars, renameVars, regVars, feedVars, failedVars,
                          sweepVars>>
OnlyChain == UNCHANGED <<part, claimsVars, queueVars, breachVars, loopVars,
                         retargetVars, redVars, mainVars, stageVars, callVars,
                         paceVars, renameVars, regVars, feedVars, failedVars,
                         sweepVars>>
OnlyLoop == UNCHANGED <<part, claimsVars, queueVars, breachVars, chainVars,
                        retargetVars, redVars, mainVars, stageVars, callVars,
                        paceVars, renameVars, regVars, feedVars, failedVars,
                        sweepVars>>
OnlyRetarget == UNCHANGED <<part, claimsVars, queueVars, breachVars, chainVars,
                            loopVars, redVars, mainVars, stageVars, callVars,
                            paceVars, renameVars, regVars, feedVars, failedVars,
                            sweepVars>>
OnlyRed == UNCHANGED <<part, claimsVars, queueVars, breachVars, chainVars, loopVars,
                       retargetVars, mainVars, stageVars, callVars, paceVars,
                       renameVars, regVars, feedVars, failedVars, sweepVars>>
OnlyMain == UNCHANGED <<part, claimsVars, queueVars, breachVars, chainVars,
                        loopVars, retargetVars, redVars, stageVars, callVars,
                        paceVars, renameVars, regVars, feedVars, failedVars,
                        sweepVars>>
OnlyStage == UNCHANGED <<part, claimsVars, queueVars, breachVars, chainVars,
                         loopVars, retargetVars, redVars, mainVars, callVars,
                         paceVars, renameVars, regVars, feedVars, failedVars,
                         sweepVars>>
OnlyCall == UNCHANGED <<part, claimsVars, queueVars, breachVars, chainVars,
                        loopVars, retargetVars, redVars, mainVars, stageVars,
                        paceVars, renameVars, regVars, feedVars, failedVars,
                        sweepVars>>
OnlyPace == UNCHANGED <<part, claimsVars, queueVars, breachVars, chainVars,
                        loopVars, retargetVars, redVars, mainVars, stageVars,
                        callVars, renameVars, regVars, feedVars, failedVars,
                        sweepVars>>
OnlyRename == UNCHANGED <<part, claimsVars, queueVars, breachVars, chainVars,
                          loopVars, retargetVars, redVars, mainVars, stageVars,
                          callVars, paceVars, regVars, feedVars, failedVars,
                          sweepVars>>
OnlyReg == UNCHANGED <<part, claimsVars, queueVars, breachVars, chainVars, loopVars,
                       retargetVars, redVars, mainVars, stageVars, callVars,
                       paceVars, renameVars, feedVars, failedVars, sweepVars>>
OnlyFeed == UNCHANGED <<part, claimsVars, queueVars, breachVars, chainVars,
                        loopVars, retargetVars, redVars, mainVars, stageVars,
                        callVars, paceVars, renameVars, regVars, failedVars,
                        sweepVars>>
OnlyFailed == UNCHANGED <<part, claimsVars, queueVars, breachVars, chainVars,
                          loopVars, retargetVars, redVars, mainVars, stageVars,
                          callVars, paceVars, renameVars, regVars, feedVars,
                          sweepVars>>
OnlySweep == UNCHANGED <<part, claimsVars, queueVars, breachVars, chainVars,
                         loopVars, retargetVars, redVars, mainVars, stageVars,
                         callVars, paceVars, renameVars, regVars, feedVars,
                         failedVars>>

PartNext ==
  \/ /\ part = "claims" /\ Claims!Next
     /\ OnlyClaims
  \/ /\ part = "queue" /\ Queue!Next
     /\ OnlyQueue
  \/ /\ part = "breach" /\ Breaches!Next
     /\ OnlyBreach
  \/ /\ part = "chain" /\ Chain!Next
     /\ OnlyChain
  \/ /\ part = "loop" /\ Loop!Next
     /\ OnlyLoop
  \/ /\ part = "retarget" /\ Retargeted!Next
     /\ OnlyRetarget
  \/ /\ \/ part = "red_head" /\ Red!Next
        \/ part = "stale_approval" /\ Stale!Next
     /\ OnlyRed
  \/ /\ part = "main" /\ Main!Next
     /\ OnlyMain
  \/ /\ part = "staging" /\ Stage!Next
     /\ OnlyStage
  \/ /\ part = "calls" /\ Calls!Next
     /\ OnlyCall
  \/ /\ part = "pacing" /\ Pace!Next
     /\ OnlyPace
  \/ /\ part = "rename" /\ Renamed!Next
     /\ OnlyRename
  \/ /\ part = "registry" /\ Registry!Next
     /\ OnlyReg
  \/ /\ part = "feed" /\ Feed!Next
     /\ OnlyFeed
  \/ /\ part = "failed_gates" /\ Failed!Next
     /\ OnlyFailed
  \/ /\ part = "sweep" /\ Sweeps!Next
     /\ OnlySweep

partVars == <<part, claimsVars, queueVars, breachVars, chainVars, loopVars,
              retargetVars, redVars, mainVars, stageVars, callVars, paceVars,
              renameVars, regVars, feedVars, failedVars, sweepVars>>

QueueGate(g) == \/ Queue!Observe(g) \/ Queue!Enqueue(g) \/ Queue!Acknowledge(g) \/ Queue!Record(g)
                \/ Queue!HoldRead(g) \/ Queue!HoldWrite(g)
LoopGate ==
  \/ Loop!ReadPR("g1") \/ Loop!ReadForReview("g1") \/ Loop!ReadForFix("g1")
  \/ Loop!ReadForApproval("g1") \/ Loop!JudgeReview("g1") \/ Loop!JudgeFix("g1") \/ Loop!Commit("g1")

Starts(kind) ==
  \E h \in 1..2 : Loop!Due(h) /\ (kind = "review" => ~Loop!Reviewed(h)) /\ Loop!Start("g1", kind, h)

\* The fairness of each component. A behaviour is about one of them, so the disjunction of one
\* action of each is as fair as each of these is.
Weak1 ==
  \/ part = "claims" /\ Claims!Tick /\ OnlyClaims
  \/ part = "queue" /\ QueueGate("g1") /\ OnlyQueue
  \/ part = "breach" /\ Breaches!LeaseEnds /\ OnlyBreach
  \/ part = "chain" /\ (Chain!DayCap("p1") \/ Chain!Queue("p1") \/ Chain!Count("p1")) /\ OnlyChain
  \/ part = "loop" /\ LoopGate /\ OnlyLoop
  \/ part = "retarget" /\ Retargeted!SweepLooks /\ OnlyRetarget
  \/ part = "red_head" /\ Red!WorkerEnqueues /\ OnlyRed
  \/ part = "stale_approval" /\ Stale!WorkerEnqueues /\ OnlyRed
  \/ part = "main" /\ Main!Look /\ OnlyMain
  \/ part = "staging" /\ Stage!Step("e1") /\ OnlyStage
  \/ part = "calls" /\ Calls!Handle("c1") /\ OnlyCall
  \/ part = "pacing" /\ Pace!Tick /\ OnlyPace
  \/ part = "rename" /\ Renamed!Again /\ OnlyRename
  \/ part = "registry" /\ Registry!Command /\ OnlyReg
  \/ part = "feed" /\ Feed!Send(<<"f1", "notice">>) /\ OnlyFeed
  \/ part = "failed_gates" /\ Failed!Run("gate") /\ OnlyFailed
  \/ part = "sweep" /\ Sweeps!Calm /\ OnlySweep
Weak2 ==
  \/ part = "claims" /\ Claims!Prune("reviewer") /\ OnlyClaims
  \/ part = "queue" /\ QueueGate("g2") /\ OnlyQueue
  \/ part = "breach" /\ Breaches!RetryPending("s1", 1) /\ OnlyBreach
  \/ part = "loop" /\ Loop!EndFix(1) /\ OnlyLoop
  \/ part = "retarget" /\ Retargeted!RetryFresh /\ OnlyRetarget
  \/ part = "red_head" /\ Red!Launch /\ OnlyRed
  \/ part = "stale_approval" /\ Stale!Launch /\ OnlyRed
  \/ part = "main" /\ Main!Announce /\ OnlyMain
  \/ part = "calls" /\ Calls!Handle("c2") /\ OnlyCall
  \/ part = "registry" /\ Registry!Heal /\ OnlyReg
  \/ part = "feed" /\ Feed!Send(<<"f2", "notice">>) /\ OnlyFeed
  \/ part = "failed_gates" /\ Failed!Run("watch") /\ OnlyFailed
Weak3 ==
  \/ part = "claims" /\ Claims!Prune("fixer") /\ OnlyClaims
  \/ part = "queue" /\ Queue!DrainDrop("drain") /\ OnlyQueue
  \/ part = "breach" /\ Breaches!RetryPending("s2", 1) /\ OnlyBreach
  \/ part = "loop" /\ Loop!EndFix(2) /\ OnlyLoop
  \/ part = "retarget" /\ Retargeted!Steps("sweep") /\ OnlyRetarget
  \/ part = "red_head" /\ Red!Verdict /\ OnlyRed
  \/ part = "stale_approval" /\ Stale!Verdict /\ OnlyRed
  \/ part = "calls" /\ Calls!Shutdown /\ OnlyCall
  \/ part = "registry" /\ Registry!NativeWrite("dashboard") /\ OnlyReg
  \/ part = "feed" /\ Feed!Send(<<"f1", "digest">>) /\ OnlyFeed
  \/ part = "failed_gates" /\ Failed!Driven("watch") /\ OnlyFailed
Weak4 ==
  \/ part = "claims" /\ Claims!Work("turn") /\ OnlyClaims
  \/ part = "queue" /\ Queue!DrainSettle("drain") /\ OnlyQueue
  \/ part = "breach" /\ Breaches!Settle("s1") /\ OnlyBreach
  \/ part = "loop" /\ Loop!CheckReview(<<1, FALSE>>) /\ OnlyLoop
  \/ part = "retarget" /\ Retargeted!Steps("hook") /\ OnlyRetarget
  \/ part = "red_head" /\ Red!Ask /\ OnlyRed
  \/ part = "stale_approval" /\ Stale!Ask /\ OnlyRed
  \/ part = "feed" /\ Feed!Send(<<"f2", "digest">>) /\ OnlyFeed
  \/ part = "failed_gates" /\ Failed!Release("watch") /\ OnlyFailed
Weak5 ==
  \/ part = "breach" /\ Breaches!Settle("s2") /\ OnlyBreach
  \/ part = "loop" /\ Loop!CheckReview(<<1, TRUE>>) /\ OnlyLoop
  \/ part = "red_head" /\ Red!Plan /\ OnlyRed
  \/ part = "stale_approval" /\ Stale!Plan /\ OnlyRed
  \/ part = "failed_gates" /\ Failed!Health /\ OnlyFailed
Weak6 ==
  \/ part = "breach" /\ Breaches!ClaimTurn(1) /\ OnlyBreach
  \/ part = "loop" /\ Loop!CheckReview(<<2, FALSE>>) /\ OnlyLoop
  \/ part = "red_head" /\ Red!SweepEnqueues /\ OnlyRed
  \/ part = "stale_approval" /\ Stale!SweepEnqueues /\ OnlyRed
  \/ part = "failed_gates" /\ Failed!Expire("loop", "event") /\ OnlyFailed
Weak7 ==
  \/ part = "breach" /\ Breaches!CheckTurn(1) /\ OnlyBreach
  \/ part = "loop" /\ Loop!CheckReview(<<2, TRUE>>) /\ OnlyLoop
  \/ part = "red_head" /\ Red!StaleSweep /\ OnlyRed
  \/ part = "stale_approval" /\ Stale!StaleSweep /\ OnlyRed
  \/ part = "failed_gates" /\ Failed!Cool("loop", "event") /\ OnlyFailed
Weak8 ==
  \/ part = "breach" /\ Breaches!BreachStart(1) /\ OnlyBreach
  \/ part = "loop" /\ Loop!EndReview(<<1, FALSE>>) /\ OnlyLoop
  \/ part = "red_head" /\ (Red!FixPushes \/ Red!FixEnds) /\ OnlyRed
  \/ part = "stale_approval" /\ (Stale!FixPushes \/ Stale!FixEnds) /\ OnlyRed
Weak9 ==
  \/ part = "loop" /\ Loop!EndReview(<<1, TRUE>>) /\ OnlyLoop
Weak10 ==
  \/ part = "loop" /\ Loop!EndReview(<<2, FALSE>>) /\ OnlyLoop
Weak11 ==
  \/ part = "loop" /\ Loop!EndReview(<<2, TRUE>>) /\ OnlyLoop
Strong1 ==
  \/ part = "queue" /\ Queue!DrainObserve("drain") /\ OnlyQueue
  \/ part = "breach" /\ (Breaches!Wake("s1") \/ Breaches!Wake("s2")) /\ OnlyBreach
  \/ part = "chain" /\ Chain!Release("p1", "i1") /\ OnlyChain
  \/ part = "loop" /\ Starts("review") /\ OnlyLoop
  \/ part = "calls" /\ Calls!Close /\ OnlyCall
  \/ part = "pacing" /\ Pace!Work("a1") /\ OnlyPace
  \/ part = "feed" /\ Feed!RetryDead /\ OnlyFeed
  \/ part = "failed_gates" /\ Failed!Claim("watch", "loop", "event") /\ OnlyFailed
  \/ part = "sweep" /\ Sweeps!Tick /\ OnlySweep
Strong2 ==
  \/ part = "queue" /\ Queue!DrainJudge("drain") /\ OnlyQueue
  \/ part = "chain" /\ Chain!Release("p1", "i2") /\ OnlyChain
  \/ part = "loop" /\ Starts("fix") /\ OnlyLoop
  \/ part = "pacing" /\ Pace!Work("a2") /\ OnlyPace
  \/ part = "failed_gates" /\ Failed!SayOf("loop", "event") /\ OnlyFailed
  \/ part = "sweep" /\ Sweeps!Run("watch") /\ OnlySweep
Strong3 ==
  \/ part = "queue" /\ Queue!DrainFire("drain") /\ OnlyQueue

PartFairness ==
  /\ WF_partVars(Weak1) /\ WF_partVars(Weak2) /\ WF_partVars(Weak3)
  /\ WF_partVars(Weak4) /\ WF_partVars(Weak5) /\ WF_partVars(Weak6)
  /\ WF_partVars(Weak7) /\ WF_partVars(Weak8) /\ WF_partVars(Weak9)
  /\ WF_partVars(Weak10) /\ WF_partVars(Weak11) /\ SF_partVars(Strong1)
  /\ SF_partVars(Strong2) /\ SF_partVars(Strong3)

PartSpec == PartInit /\ [][PartNext]_partVars /\ PartFairness

\* What waits at a seat is served: a claim whose worker is gone leaves the disk, a held request
\* that stays due gets a turn, a breach that stays live gets the turn of its ruling, and a held
\* finding is let go when its pull request has ended.
Waiting(n) ==
  \/ part = "claims" /\ (Claims!DeadClaim("reviewer") \/ Claims!DeadClaim("fixer"))
  \/ part = "queue" /\ Queue!Waits(1)
  \/ part = "breach" /\ Breaches!Waits(1)
  \/ part = "chain" /\ Chain!Waits(<<"i1", "i2">>[n])
WaitingIsServed == \A n \in 1..2 : []<>~Waiting(n)

\* No open head just sits there: it is settled or visibly a person's turn; a retargeted head that
\* stays gets its fresh review, and one that stays red gets its verdict.
Unsettled ==
  \/ part = "loop" /\ \E h \in 1..2 : Loop!Sits(h)
  \/ part = "retarget" /\ Retargeted!Unreviewed
  \/ part = "red_head" /\ \E h \in 1..2 : Red!Unreviewed(h)
HeadsSettle == []<>~Unsettled

\* What has begun ends, whatever fails on the way: an export, the calls of a model capability, the
\* runs that a closed window held, a rename that is run again.
BegunEnds ==
  <>[](/\ part = "staging" => Stage!Ended("e1")
       /\ part = "calls" => Calls!Over
       /\ part = "pacing" => Pace!AllEnded
       /\ part = "rename" => Renamed!Renamed)

\* The operator is told: of a gate that failed and of a read that did, of a head of main that stays
\* red, of a stall that persists and of the end of an outage; a claimed notice of the observer does
\* not stay pending, the loop's routes come back, and an approval is recorded as stale exactly while
\* its checks are bad.
Untold(n) ==
  \/ part = "failed_gates" /\ <<Failed!Owes, Failed!Unread>>[n]
  \/ part = "main" /\ \E h \in 0..2 : Main!Untold(h)
  \/ part = "sweep" /\ (health = "blind" \/ (Sweeps!Persists("p1") /\ sweepQuiet["p1"] # 0))
  \/ part = "feed" /\ \E f \in {"f1", "f2"}, k \in {"notice", "digest"} : Feed!Unsettling(<<f, k>>)
  \/ part = "registry" /\ Registry!Lost("route")
  \/ part = "stale_approval" /\ (IF stale = redHead THEN Stale!StillGood ELSE Stale!GoneBad)
OperatorIsTold == \A n \in 1..2 : []<>~Untold(n)
=============================================================================
