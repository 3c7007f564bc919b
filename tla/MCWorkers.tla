----------------------------- MODULE MCWorkers -----------------------------
(***************************************************************************)
(* Small instances of what the workers of one host share: the token and   *)
(* the quota of a run (ModelCalls, whose own behaviours are the part       *)
(* "calls"), the file of holds and counts, and the feed in which they put  *)
(* what a person is to know. Each behaviour is about one of them.          *)
(***************************************************************************)
EXTENDS ModelCalls, TLC

CONSTANTS
  w1, w2, w3,                                           \* three of the calls
  Runs, Loops, FirstLoop, Cap, MaxRetries, DayLength, Horizon, Windows, Deaths,   \* of Pacing
  Fact, Urgent, Digest, Dest, Changes, Attempts,        \* of ObserverFeed, where notices and commands overlap
  FewFacts, FewUrgent, Dests, MoreChanges               \* of ObserverFeed, where they do not

LoopOfAll == [r \in Runs |-> FirstLoop]

VARIABLE part   \* the component that this behaviour is about

VARIABLES now, window, windows, hold, paceTurns, flock, mem, pacePc, retryAt,
          retries, paceLimited, ended, loopOf, counted, told, plain, paceDeaths
paceVars == <<now, window, windows, hold, paceTurns, flock, mem, pacePc, retryAt,
              retries, paceLimited, ended, loopOf, counted, told, plain, paceDeaths>>
Pace == INSTANCE Pacing WITH LoopOf <- LoopOfAll, turns <- paceTurns, pc <- pacePc,
                             limited <- paceLimited, deaths <- paceDeaths

VARIABLES entry, order, send, got, bound, conf, feedCmd, old, changes
feedVars == <<entry, order, send, got, bound, conf, feedCmd, old, changes>>
Feed == INSTANCE ObserverFeed WITH Overlap <- TRUE, cmd <- feedCmd
MovedFeed == INSTANCE ObserverFeed WITH Fact <- FewFacts, Urgent <- FewUrgent, Dest <- Dests,
                                        Changes <- MoreChanges, Overlap <- FALSE, cmd <- feedCmd

Part == {"calls", "pacing", "feed", "moved_feed"}

ASSUME WorkersAssumption ==
  /\ Feed!ObserverFeedAssumption /\ MovedFeed!ObserverFeedAssumption
  /\ Pace!PacingAssumption

\* The component of the part starts in its own initial states; the others rest in one.
PartInit ==
  /\ part \in Part
  /\ Init
  /\ Pace!Init
  /\ IF part = "moved_feed" THEN MovedFeed!Init
     ELSE Feed!Init

PartNext ==
  \/ /\ part = "calls" /\ Next
     /\ UNCHANGED <<part, paceVars, feedVars>>
  \/ /\ part = "pacing" /\ Pace!Next
     /\ UNCHANGED <<part, vars, feedVars>>
  \/ /\ \/ part = "feed" /\ Feed!Next
        \/ part = "moved_feed" /\ MovedFeed!Next
     /\ UNCHANGED <<part, vars, paceVars>>

partVars == <<part, vars, paceVars, feedVars>>

PartSpec == PartInit /\ [][PartNext]_partVars

\* The calls of a turn are exchanged; the others have names of their own.
Symmetry == Permutations({w1, w2, w3})

\* The account's hold is never before a time that a worker recorded, no counted turn is lost
\* to another writer or a rename, and a run that is not dropped at once fails only by as many turns
\* as it may have, none of them a failed process in a window whose end was still to come.  (A turn
\* that exits cleanly without a write, or is killed at its budget, does fail in such a window.)
PacingKept == Pace!HoldLatest /\ Pace!CountsKept /\ Pace!NotSpent

\* The observer gets no fact twice, and the ledger says "delivered" or "digesting" only of facts of
\* which that is so; where no change of the destination overlaps a claim (as it may: cli.py:2709),
\* each comes to the place it was claimed for.
FeedIsTrue ==
  /\ part = "feed" => Feed!Once /\ Feed!DeliveredIsTrue /\ Feed!Carried
  /\ part = "moved_feed" => MovedFeed!Addressed
=============================================================================
