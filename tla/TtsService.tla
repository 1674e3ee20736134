----------------------------- MODULE TtsService -----------------------------
(***************************************************************************)
(* docker/tts/main.py: the TTS service.  lifespan loads the model before  *)
(* the server accepts a request and clears the two globals at shutdown;   *)
(* the handlers are async def bodies without an await, so each runs from  *)
(* start to reply on the event loop and none interleaves with another or  *)
(* with lifespan.  The steps are the parts of lifespan between which an   *)
(* exception changes the outcome; a print is such a part, since writing   *)
(* to stdout can raise (a full non-blocking pipe, a closed stream).       *)
(*                                                                         *)
(* Data: the model is one token; a sample array is its dtype; a reply     *)
(* keeps the fields the properties compare.                               *)
(***************************************************************************)
EXTENDS Naturals

\* The bound on temporary files the model lets /v1/audio/speech leave behind.
CONSTANT MaxTemp

ASSUME MaxTempAssumption == MaxTemp \in Nat

None == "None"
TtsModel == "Qwen3TTSModel"

\* The dtypes generate_voice_clone can hand back in audios[0].
Dtypes == {"float32", "int16"}

Phases == {"check", "load", "announce", "except", "serving", "stopped",
           "aborted"}

Replies ==
    [ep : {"none", "tts", "speech", "health", "root"},
     code : {0, 200, 500, 503}, real : BOOLEAN, dtype : Dtypes,
     loaded : BOOLEAN, fallback : BOOLEAN]

\* A reply of a synthesis endpoint; the flags only /health and / fill in.
Reply(ep, code, real, dtype) ==
    [ep |-> ep, code |-> code, real |-> real, dtype |-> dtype,
     loaded |-> FALSE, fallback |-> FALSE]

NoReply == Reply("none", 0, FALSE, "int16")

VARIABLES
    phase,          \* where lifespan is; "serving" while it is at its yield
    model,          \* the global model
    model_loaded,   \* the global model_loaded
    tmp,            \* temp files written with delete=False, never removed
    reply,          \* the last reply sent
    answered        \* history: the modes the two synthesis endpoints showed

vars == <<phase, model, model_loaded, tmp, reply, answered>>

-----------------------------------------------------------------------------
(***************************************************************************)
(* lifespan (44-83).                                                       *)
(***************************************************************************)

\* The opening prints and the model-file check (49-60, 73-76).  Both run
\* outside the try: os.listdir on a MODEL_PATH that is a file raises, and so
\* does a failing print, and the server then never starts.
CheckFiles ==
    /\ phase = "check"
    /\ \/ phase' = "load"
       \/ phase' = "serving" /\ model_loaded' = FALSE
       \/ phase' = "aborted"
    /\ phase' # "serving" => UNCHANGED model_loaded
    /\ UNCHANGED <<model, tmp, reply, answered>>

\* Qwen3TTSModel.from_pretrained (62-63) returns the model or raises.
FromPretrained ==
    /\ phase = "load"
    /\ \/ phase' = "announce" /\ model' = TtsModel
       \/ phase' = "except" /\ UNCHANGED model
    /\ UNCHANGED <<model_loaded, tmp, reply, answered>>

\* The two success prints and model_loaded = True (64-66); a print that
\* raises skips the assignment, with model already set.
Announce ==
    /\ phase = "announce"
    /\ \/ phase' = "serving" /\ model_loaded' = TRUE
       \/ phase' = "except" /\ UNCHANGED model_loaded
    /\ UNCHANGED <<model, tmp, reply, answered>>

\* The except clause (67-72): its prints run before model_loaded = False,
\* and one that raises escapes lifespan.
Except ==
    /\ phase = "except"
    /\ \/ phase' = "serving" /\ model_loaded' = FALSE
       \/ phase' = "aborted" /\ UNCHANGED model_loaded
    /\ UNCHANGED <<model, tmp, reply, answered>>

\* After the yield (80-83): the server has stopped taking requests.
Shutdown ==
    /\ phase = "serving"
    /\ phase' = "stopped"
    /\ model_loaded' = FALSE
    /\ model' = None
    /\ UNCHANGED <<tmp, reply, answered>>

-----------------------------------------------------------------------------
(***************************************************************************)
(* The handlers, each one atomic step while lifespan is at its yield.     *)
(***************************************************************************)

\* "Convert to int16" (166-170): isinstance(audios[0], np.floating) asks
\* whether the ARRAY is a numpy float scalar, which it never is, so the
\* array is kept as it came whatever its dtype.
IsFloatingScalar(a) == FALSE
AudioInt16(a) == IF IsFloatingScalar(a) THEN "int16" ELSE a

\* Mutant: the branch tests only that model is set, not model_loaded.
UsesRealModelNoFlag == model # None

\* The branch condition of text_to_speech (150).
UsesRealModel == model # None /\ model_loaded

\* POST /v1/tts (144-215): the real model, or the sine-wave fallback, whose
\* samples generate_fallback_audio casts to int16 (112).
text_to_speech ==
    /\ phase = "serving"
    /\ IF UsesRealModel
         THEN /\ \E ok \in BOOLEAN, a \in Dtypes :
                   reply' = IF ok THEN Reply("tts", 200, TRUE, AudioInt16(a))
                                  ELSE Reply("tts", 500, TRUE, "int16")
              /\ answered' = answered \cup {"real"}
         ELSE /\ reply' = Reply("tts", 200, FALSE, "int16")
              /\ answered' = answered \cup {"fallback"}
    /\ UNCHANGED <<phase, model, model_loaded, tmp>>

\* Mutant: the 503 gate tests only that model is set.
SpeechGateModelOnly == model = None

\* The 503 gate of openai_compatible_tts (231).
SpeechGate == model = None \/ ~model_loaded

\* POST /v1/audio/speech (228-266).  generate_voice_clone may raise; after
\* it the NamedTemporaryFile exists before wavfile.write runs, and it is
\* left on disk whether the write raises or the FileResponse is sent.
openai_compatible_tts ==
    /\ phase = "serving"
    /\ IF SpeechGate
         THEN /\ reply' = Reply("speech", 503, FALSE, "int16")
              /\ answered' = answered \cup {"unready"}
              /\ UNCHANGED tmp
         ELSE /\ answered' = answered \cup {"ready"}
              /\ \/ reply' = Reply("speech", 500, TRUE, "int16")
                    /\ UNCHANGED tmp
                 \/ /\ tmp < MaxTemp
                    /\ tmp' = tmp + 1
                    /\ \E ok \in BOOLEAN, a \in Dtypes :
                         reply' = IF ok
                                    THEN Reply("speech", 200, TRUE, AudioInt16(a))
                                    ELSE Reply("speech", 500, TRUE, "int16")
    /\ UNCHANGED <<phase, model, model_loaded>>

\* GET /health (115-125).
health_check ==
    /\ phase = "serving"
    /\ reply' = [ep |-> "health", code |-> 200, real |-> (model # None),
                 dtype |-> "int16", loaded |-> model_loaded,
                 fallback |-> (model = None)]
    /\ UNCHANGED <<phase, model, model_loaded, tmp, answered>>

\* GET / (128-141).
root ==
    /\ phase = "serving"
    /\ reply' = [ep |-> "root", code |-> 200, real |-> FALSE,
                 dtype |-> "int16", loaded |-> model_loaded, fallback |-> FALSE]
    /\ UNCHANGED <<phase, model, model_loaded, tmp, answered>>

-----------------------------------------------------------------------------
Init ==
    /\ phase = "check"
    /\ model = None
    /\ model_loaded = FALSE
    /\ tmp = 0
    /\ reply = NoReply
    /\ answered = {}

Lifespan == CheckFiles \/ FromPretrained \/ Announce \/ Except \/ Shutdown

Handler == text_to_speech \/ openai_compatible_tts \/ health_check \/ root

Next == Lifespan \/ Handler

Spec == Init /\ [][Next]_vars

-----------------------------------------------------------------------------
\* Every variable holds a value of its kind.
TypeOK ==
    /\ phase \in Phases
    /\ model \in {None, TtsModel}
    /\ model_loaded \in BOOLEAN
    /\ tmp \in 0..MaxTemp
    /\ reply \in Replies
    /\ answered \in SUBSET {"real", "fallback", "ready", "unready"}

(***************************************************************************)
(* The two synthesis endpoints agree on whether the real model is         *)
(* usable: a process whose /v1/tts took the real model never answers      *)
(* /v1/audio/speech with 503, and one whose /v1/tts fell back to the sine *)
(* wave never lets /v1/audio/speech call the model (gates of lines 150    *)
(* and 231, across the half-set state lifespan can leave behind).         *)
(***************************************************************************)
EndpointsAgree ==
    /\ ~({"real", "unready"} \subseteq answered)
    /\ ~({"fallback", "ready"} \subseteq answered)

(***************************************************************************)
(* /health's fallback_mode and real_model say which path /v1/tts takes    *)
(* (lines 123-124 against 150).                                            *)
(***************************************************************************)
HealthShowsTtsPath ==
    reply.ep = "health" /\ phase = "serving" =>
        reply.fallback = ~UsesRealModel /\ reply.real = UsesRealModel

(***************************************************************************)
(* Audio from the real model is written as 16-bit PCM, as the comment    *)
(* "Convert to int16" of lines 166 and 246 intends.                       *)
(***************************************************************************)
RealAudioInt16 ==
    reply.real /\ reply.code = 200 => reply.dtype = "int16"

(***************************************************************************)
(* The path the process is on, as SpeechPath names it: settled when       *)
(* lifespan reaches its yield, by the same two globals both synthesis     *)
(* handlers test.                                                          *)
(***************************************************************************)
PathOf ==
    CASE phase \in {"check", "load", "announce", "except"} -> "starting"
      [] phase = "serving" -> IF UsesRealModel THEN "real" ELSE "fallback"
      [] phase = "stopped" -> "stopped"
      [] phase = "aborted" -> "aborted"

SP == INSTANCE SpeechPath WITH path <- PathOf

(***************************************************************************)
(* The service implements SpeechPath: every lifespan step either stays in *)
(* startup or settles the path once, and every synthesis request of       *)
(* /v1/tts (150) and /v1/audio/speech (231) is answered on that path,     *)
(* never on the other one.                                                 *)
(***************************************************************************)
ImplementsSpeechPath == SP!Spec

=============================================================================
