----------------------------- MODULE LoadState -----------------------------
(***************************************************************************)
(* What a background model loader promises (spec.md, sections 3 and 4.1). *)
(* The service state starts idle, the loader moves it to loading exactly  *)
(* once, and the load ends in loaded or in failed, which are final: no     *)
(* retry, no return to idle or loading without a restart of the process.   *)
(* Under weak fairness the load does not stay idle or loading forever.     *)
(***************************************************************************)

VARIABLE state

States == {"idle", "loading", "loaded", "failed"}

Init == state = "idle"

\* The loader thread starts and takes the reentry guard.
Begin == state = "idle" /\ state' = "loading"

\* The model and its processor are in memory.
Succeed == state = "loading" /\ state' = "loaded"

\* Loading raised; the error is kept for the status endpoints.
Fail == state = "loading" /\ state' = "failed"

Next == Begin \/ Succeed \/ Fail

Spec == Init /\ [][Next]_state /\ WF_state(Next)

\* The state is one of the four the spec names.
TypeOK == state \in States

=============================================================================
