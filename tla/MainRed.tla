-------------------------------- MODULE MainRed --------------------------------
(***************************************************************************)
(* After merges the watchdog reads the checks of main's head: a red one is *)
(* announced once, with the pull requests merged since the last green one. *)
(***************************************************************************)
EXTENDS Checks

CONSTANT Merges     \* how many pull requests are merged

MainRedAssumption == Merges \in Nat

VARIABLES
  main,       \* main's head: the number of pull requests merged into it
  ci,         \* the runs of main's head
  memory,     \* the head last found green and the one last announced
  notices,    \* what was announced: the head, and the merges named or "unknown"
  judging     \* what a sweep has read of a head, or None

vars == <<main, ci, memory, notices, judging>>
None == [none |-> TRUE]
Head == 0..Merges
TypeOK ==
  /\ main \in Head /\ ci \subseteq Run
  /\ memory \in [green : {-1} \cup Head, notified : {-1} \cup Head]
  /\ \A n \in notices : n.head \in Head

Init ==
  /\ main = 0 /\ ci = {} /\ memory = [green |-> -1, notified |-> -1] /\ notices = {}
  /\ judging = None

Merge == main < Merges /\ main' = main + 1 /\ ci' = {} /\ UNCHANGED <<memory, notices, judging>>
\* Only the runs of main's head are ever read.
Report ==
  /\ \E runs \in Starts(ci) \cup Ends(ci) \cup Reruns(ci) : ci' = runs
  /\ UNCHANGED <<main, memory, notices, judging>>

\* A sweep reads main's head, then its checks: green and pending ones end it.
Judged(h) == h \in {memory.green, memory.notified}
FoundGreenEarly(runs) == Failed(runs) = {} /\ Pending(runs) = {}
FoundGreen(runs) == Green(runs)
Look ==
  /\ judging = None /\ ~Judged(main)
  /\ LET runs == ci IN
     /\ memory' = [memory EXCEPT !.green = IF FoundGreen(runs) THEN main ELSE @]
     /\ judging' = IF Failed(runs) # {} THEN [head |-> main, green |-> memory.green] ELSE None
  /\ UNCHANGED <<main, ci, notices>>

\* The pull requests between the last green head and this one; unknown without a green head.
MergedSince(green, h) == IF green = -1 THEN {"unknown"} ELSE (green + 1)..h
Announce ==
  /\ judging # None /\ judging' = None
  /\ memory' = [memory EXCEPT !.notified = judging.head]
  /\ notices' = notices \cup {[head |-> judging.head, merged |-> MergedSince(judging.green, judging.head)]}
  /\ UNCHANGED <<main, ci>>

Next == Merge \/ Report \/ Look \/ Announce
Spec == Init /\ [][Next]_vars /\ WF_vars(Look) /\ WF_vars(Announce)

--------------------------------------------------------------------------------
\* Where main's head stays red, the operator is told of it.
Untold(h) == main = h /\ Failed(ci) # {} /\ \A n \in notices : n.head # h
Told == \A h \in Head : []<>~Untold(h)
================================================================================
