----------------------------- MODULE SpeechPath -----------------------------
(***************************************************************************)
(* What the TTS service promises about its two synthesis paths (spec.md   *)
(* 4.4, 4.2): the real-model path and the fallback path are mutually      *)
(* exclusive, and which one a process takes is settled once, at startup.  *)
(* From then until shutdown every synthesis request follows that path:    *)
(* /v1/tts uses the model or the tone, /v1/audio/speech proceeds or says  *)
(* "unavailable".  A startup that fails serves nothing.                   *)
(***************************************************************************)

VARIABLES
    path,       \* "starting", "real", "fallback", "stopped" or "aborted"
    answered    \* the modes synthesis requests have been answered in

Paths == {"starting", "real", "fallback", "stopped", "aborted"}

\* The answers a request may get on each path: /v1/tts runs the model or
\* the tone, /v1/audio/speech proceeds or answers 503.
ModesOf(p) == IF p = "real" THEN {"real", "ready"} ELSE {"fallback", "unready"}

Init ==
    /\ path = "starting"
    /\ answered = {}

\* Startup ends on one path, or the server never starts.
Choose ==
    /\ path = "starting"
    /\ path' \in {"real", "fallback", "aborted"}
    /\ UNCHANGED answered

\* A synthesis request answered on the path the process is on.
Answer ==
    /\ path \in {"real", "fallback"}
    /\ \E m \in ModesOf(path) : answered' = answered \cup {m}
    /\ UNCHANGED path

\* The server stops taking requests.
Stop ==
    /\ path \in {"real", "fallback"}
    /\ path' = "stopped"
    /\ UNCHANGED answered

Next == Choose \/ Answer \/ Stop

Spec == Init /\ [][Next]_<<path, answered>>

=============================================================================
