------------------------------ MODULE MCSeats ------------------------------
(***************************************************************************)
(* Small instances of the state that a loop keeps for its seats: claims    *)
(* (SeatClaims, whose own behaviours are the part "claims"), the held      *)
(* request, and the move to a renamed repository. Each behaviour is about  *)
(* one of them.                                                            *)
(***************************************************************************)
EXTENDS SeatClaims, TLC

CONSTANTS
  m1, m2,                           \* runs, gates, turns, actors and operators in turn
  Heads, Gate, Drainer, MaxId, Faults,   \* of SeatQueue
  Turn, Actor, Operator             \* of RepoMove

\* Two reviews of one head.
BothReview == [r \in Run |-> "reviewer"]
AtFirst == [r \in Run |-> 1]

VARIABLE part   \* the component that this behaviour is about

VARIABLES queueHead, wanted, up, policy, turns, entry, ids, queueGate, drain
queueVars == <<queueHead, wanted, up, policy, turns, entry, ids, queueGate, drain>>
Queue == INSTANCE SeatQueue WITH MaxHead <- Heads, head <- queueHead, gate <- queueGate

\* No gate is past its look at the marker when a migrate starts; a migrate dies, or may fail.
VARIABLES renamed, moveMarker, lock, at, dir, points, rows, marks, loop, acting,
          tries
moveVars == <<renamed, moveMarker, lock, at, dir, points, rows, marks, loop, acting,
              tries>>
Move == INSTANCE RepoMove WITH Overlap <- FALSE, MayRaise <- FALSE, marker <- moveMarker
FailingMove == INSTANCE RepoMove WITH Overlap <- FALSE, MayRaise <- TRUE, marker <- moveMarker

Part == {"claims", "queue", "move", "failing_move"}

ASSUME SeatsAssumption ==
  /\ Queue!SeatQueueAssumption
  /\ Move!RepoMoveAssumption /\ FailingMove!RepoMoveAssumption

\* The component of the part starts in its own initial states; the others rest in one.
PartInit ==
  /\ part \in Part
  /\ Init
  /\ Queue!Init
  /\ IF part = "failing_move" THEN FailingMove!Init
     ELSE Move!Init

PartNext ==
  \/ /\ part = "claims" /\ Next
     /\ UNCHANGED <<part, queueVars, moveVars>>
  \/ /\ part = "queue" /\ Queue!Next
     /\ UNCHANGED <<part, vars, moveVars>>
  \/ /\ \/ part = "move" /\ Move!Next
        \/ part = "failing_move" /\ FailingMove!Next
     /\ UNCHANGED <<part, vars, queueVars>>

partVars == <<part, vars, queueVars, moveVars>>

PartSpec == PartInit /\ [][PartNext]_partVars

\* The names are exchanged in all that has them.
Symmetry == Permutations({m1, m2})

\* The held request is dropped only when a turn was made of it or a newer event of the
\* seat overtook it: no crash, refusal or race of gate and drain loses it.
LostOnlyToOvertaken == Queue!LostOnlyToOvertaken

\* A move to the new name of a repository that no gate overlaps (migrate.py:116 does not wait for
\* one) leaves one state directory, no row or claim under the old name, and no two turns on one
\* head; a turn claims only under the name its row says, where the state is; and a failed move
\* finds its rows again.
StateMoves ==
  /\ [](part = "move" => Move!NothingStranded /\ Move!OneState /\ Move!OneTurn)
  /\ [](part = "failing_move" => FailingMove!RowsFound)
  /\ [][part = "move" => Move!ClaimAgrees]_moveVars
=============================================================================
