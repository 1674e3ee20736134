---------------------------- MODULE LoadAttempt ----------------------------
(***************************************************************************)
(* What a single background load attempt guarantees when the loader may    *)
(* itself fail while reporting a failure.  The attempt starts idle, moves  *)
(* to loading once, and ends loaded, failed with a kept error, or          *)
(* abandoned: over, with neither a model nor an error to show.  The three  *)
(* ends are final.  Nothing promises that an attempt ends at all.          *)
(***************************************************************************)

VARIABLE attempt

Attempts == {"idle", "loading", "loaded", "failed", "abandoned"}

Init == attempt = "idle"

\* The loader takes the reentry guard.
Begin == attempt = "idle" /\ attempt' = "loading"

\* The model and its processor are in memory.
Succeed == attempt = "loading" /\ attempt' = "loaded"

\* Loading raised and the message was kept.
Fail == attempt = "loading" /\ attempt' = "failed"

\* Loading raised and reporting the error raised too: the attempt is over
\* and nothing records why.
Abandon == attempt = "loading" /\ attempt' = "abandoned"

Next == Begin \/ Succeed \/ Fail \/ Abandon

Spec == Init /\ [][Next]_attempt

=============================================================================
