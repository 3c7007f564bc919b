--------------------------- MODULE RunLedgerHistory ---------------------------
(***************************************************************************)
(* RunLedger with two history variables, for statements about a run's past *)
(* that its row does not keep: whether it was ever uncertain, and how many *)
(* events re-armed it after a failure.                                     *)
(***************************************************************************)
EXTENDS MCRunLedger

VARIABLES everUncertain, rearms

hvars == <<vars, everUncertain, rearms>>

HInit == Init /\ everUncertain = {} /\ rearms = [r \in Run |-> 0]

HNext ==
  /\ \/ Next /\ UNCHANGED rearms /\ ~\E r \in Run : Redeliver(r)
     \/ \E r \in Run :
          /\ Redeliver(r)
          /\ rearms' = [rearms EXCEPT ![r] = IF state[r] = "failed" THEN @ + 1 ELSE @]
  /\ everUncertain' = everUncertain \cup {r \in Run : state'[r] = "uncertain"}

HSpec == HInit /\ [][HNext]_hvars

-----------------------------------------------------------------------------
\* run_supervisor.py:161: "A run with any of those, or one ever quarantined as
\* uncertain, is never re-armed."
QuarantinedNeverRearmed ==
  [][\A r \in everUncertain : state[r] # "pending" => state'[r] # "pending"]_hvars

\* run_supervisor.py:2217: a later event re-arms a failed run, "one attempt per event,
\* up to MAX_REARMS failures".
RearmsBounded == \A r \in Run : rearms[r] <= MaxRearms

\* broker_ipc.py:107: a run admitted at enqueue "is held only when the *current* host
\* policy genuinely refuses it"; it is never reported as one that was not admitted.
AdmittedHeldByPolicyOnly ==
  [][\A r \in Run : admitted[r] /\ state[r] # "cancelled" /\ state'[r] = "cancelled"
       => error'[r] # "not_admitted"]_hvars
=============================================================================
