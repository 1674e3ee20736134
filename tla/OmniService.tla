---------------------------- MODULE OmniService ----------------------------
(***************************************************************************)
(* The Qwen3-Omni inference service, docker/qwen3-omni-server/service.py. *)
(*                                                                         *)
(* Two threads share five module globals.  The loader thread, started by  *)
(* the lifespan hook, runs load_model_async once: it writes processor,    *)
(* model, model_loaded, loading_error and model_loading one assignment at *)
(* a time.  The event-loop thread runs the request handlers; they are     *)
(* "async def" bodies with no await, so the loop runs one handler at a    *)
(* time from its first line to its reply, but the loader thread may be    *)
(* scheduled between any two reads of a global.  Each read of a global by *)
(* a handler is therefore a step of its own.                               *)
(*                                                                         *)
(* Data is abstracted: the processor and the model are one token each, an *)
(* exception message is one token, and a generation either returns or    *)
(* raises.  The device field of /health and /status is left out.          *)
(***************************************************************************)
None == "None"
Processor == "processor"
Model == "model"
Error == "error"

\* The endpoints whose handlers read the load flags (GET /v1/models reads none).
Inference == {"chat", "text"}
Endpoints == Inference \cup {"health", "status"}

VARIABLES
    lpc,            \* the loader thread's place in load_model_async
    model_loading,  \* the globals of lines 30-34
    model_loaded,
    loading_error,
    model,
    processor,
    hpc,            \* the event loop's place in the running handler
    endpoint,       \* which handler the event loop runs
    reply,          \* what an inference handler answered
    view,           \* the fields a /health or /status reply carries
    seen            \* history: the flag snapshots that held while the
                    \* current handler ran

loader == <<lpc, model_loading, model_loaded, loading_error, model, processor>>
handler == <<hpc, endpoint, reply, view, seen>>
vars == <<loader, handler>>

(***************************************************************************)
(* The load flags at one instant, and the state the spec names for them.  *)
(* The order of the tests is the one /health uses for its status field.   *)
(***************************************************************************)
Snapshot == [loading |-> model_loading, loaded |-> model_loaded,
             error |-> loading_error]

Snapshots == [loading : BOOLEAN, loaded : BOOLEAN, error : {None, Error}]

ServiceStateOf(s) ==
    IF s.loading THEN "loading"
    ELSE IF s.loaded THEN "loaded"
    ELSE IF s.error # None THEN "failed"
    ELSE "idle"

ServiceState == ServiceStateOf(Snapshot)

\* Mutant: /health names a failed load "failed" instead of "unhealthy".
HealthStatusWithFailed(s) ==
    IF s.loading THEN "loading" ELSE IF s.loaded THEN "healthy"
    ELSE IF s.error # None THEN "failed" ELSE "unhealthy"

\* The status string of /health for the flags s (line 150).
HealthStatus(s) ==
    IF s.loading THEN "loading" ELSE IF s.loaded THEN "healthy" ELSE "unhealthy"

\* A loader step adds the new snapshot to what the running handler has seen.
Observe ==
    seen' = IF hpc \in {"idle", "done"} THEN seen ELSE seen \cup {Snapshot'}

NoView == [status |-> "none", loaded |-> FALSE, loading |-> FALSE, error |-> None]

-----------------------------------------------------------------------------
(***************************************************************************)
(* The loader thread (lines 64-135).                                       *)
(***************************************************************************)

\* lifespan: the daemon thread is started before the app serves (129-132).
Lifespan ==
    /\ lpc = "unstarted"
    /\ lpc' = "guard"
    /\ UNCHANGED <<model_loading, model_loaded, loading_error, model, processor>>
    /\ UNCHANGED handler

\* Mutant: the reentry guard without model_loading = True.
LoaderGuardNoFlag ==
    /\ lpc = "guard"
    /\ IF model_loading \/ model_loaded
         THEN lpc' = "exited" ELSE lpc' = "logDevice"
    /\ UNCHANGED <<model_loading, model_loaded, loading_error, model, processor>>
    /\ Observe
    /\ UNCHANGED <<hpc, endpoint, reply, view>>

\* The reentry guard, then model_loading = True (68-71).
LoaderGuard ==
    /\ lpc = "guard"
    /\ IF model_loading \/ model_loaded
         THEN lpc' = "exited" /\ UNCHANGED model_loading
         ELSE lpc' = "logDevice" /\ model_loading' = TRUE
    /\ UNCHANGED <<model_loaded, loading_error, model, processor>>
    /\ Observe
    /\ UNCHANGED <<hpc, endpoint, reply, view>>

(***************************************************************************)
(* The prints and the torch.cuda queries of lines 73-79 run before the    *)
(* try of line 81.  One that raises ends the thread there: no except, no  *)
(* finally, and model_loading stays True.                                 *)
(***************************************************************************)
LogDevice ==
    /\ lpc = "logDevice"
    /\ lpc' \in {"loadProcessor", "died"}
    /\ UNCHANGED <<model_loading, model_loaded, loading_error, model, processor>>
    /\ UNCHANGED handler

\* Import and AutoProcessor.from_pretrained, either of which may raise (81-87).
LoadProcessor ==
    /\ lpc = "loadProcessor"
    /\ \/ processor' = Processor /\ lpc' = "loadModel"
       \/ lpc' = "except" /\ UNCHANGED processor
    /\ UNCHANGED <<model_loading, model_loaded, loading_error, model>>
    /\ UNCHANGED handler

\* from_pretrained of the 70GB model, which may raise (89-100).
LoadModel ==
    /\ lpc = "loadModel"
    /\ \/ model' = Model /\ lpc' = "modelInfo"
       \/ lpc' = "except" /\ UNCHANGED model
    /\ UNCHANGED <<model_loading, model_loaded, loading_error, processor>>
    /\ UNCHANGED handler

\* Reading model.device and counting the parameters, still inside try (102-106).
ModelInfo ==
    /\ lpc = "modelInfo"
    /\ lpc' \in {"setLoaded", "except"}
    /\ UNCHANGED <<model_loading, model_loaded, loading_error, model, processor>>
    /\ UNCHANGED handler

\* model_loaded = True (108).
SetLoaded ==
    /\ lpc = "setLoaded"
    /\ model_loaded' = TRUE
    /\ lpc' = "clearError"
    /\ UNCHANGED <<model_loading, loading_error, model, processor>>
    /\ Observe
    /\ UNCHANGED <<hpc, endpoint, reply, view>>

\* loading_error = None (109).
ClearError ==
    /\ lpc = "clearError"
    /\ loading_error' = None
    /\ lpc' = "finally"
    /\ UNCHANGED <<model_loading, model_loaded, model, processor>>
    /\ Observe
    /\ UNCHANGED <<hpc, endpoint, reply, view>>

(***************************************************************************)
(* except Exception: the handler logs first (112-114).  A print or        *)
(* traceback.print_exc that raises leaves the except clause before line   *)
(* 115; the finally still runs and the new exception ends the thread.     *)
(***************************************************************************)
ExceptLog ==
    /\ lpc = "except"
    /\ lpc' \in {"setError", "finally"}
    /\ UNCHANGED <<model_loading, model_loaded, loading_error, model, processor>>
    /\ UNCHANGED handler

\* loading_error = str(e) (115).
SetError ==
    /\ lpc = "setError"
    /\ loading_error' = Error
    /\ lpc' = "finally"
    /\ UNCHANGED <<model_loading, model_loaded, model, processor>>
    /\ Observe
    /\ UNCHANGED <<hpc, endpoint, reply, view>>

\* finally: model_loading = False (116-117).
Finally ==
    /\ lpc = "finally"
    /\ model_loading' = FALSE
    /\ lpc' = "exited"
    /\ UNCHANGED <<model_loaded, loading_error, model, processor>>
    /\ Observe
    /\ UNCHANGED <<hpc, endpoint, reply, view>>

LoaderStep ==
    \/ Lifespan \/ LoaderGuard \/ LogDevice \/ LoadProcessor \/ LoadModel
    \/ ModelInfo \/ SetLoaded \/ ClearError \/ ExceptLog \/ SetError \/ Finally

-----------------------------------------------------------------------------
(***************************************************************************)
(* The event-loop thread: one handler at a time, after the lifespan hook. *)
(***************************************************************************)

FirstStep == [chat |-> "gate", text |-> "gate",
              health |-> "healthStatus", status |-> "statusLoaded"]

\* uvicorn dispatches a request to the handler of endpoint e.
Receive(e) ==
    /\ lpc # "unstarted"
    /\ hpc \in {"idle", "done"}
    /\ hpc' = FirstStep[e]
    /\ endpoint' = e
    /\ reply' = "none"
    /\ view' = NoView
    /\ seen' = {Snapshot}
    /\ UNCHANGED loader

\* The handler returns: the event loop is free again.
Answer(r) ==
    /\ reply' = r
    /\ hpc' = "done"
    /\ UNCHANGED <<endpoint, view, seen>>
    /\ UNCHANGED loader

\* Mutant: the gate tests "if model_loading" instead of "if not model_loaded".
GateOnLoading ==
    /\ hpc = "gate"
    /\ hpc' = IF ~model_loading THEN "generate" ELSE "gateLoading"
    /\ UNCHANGED <<endpoint, reply, view, seen>>
    /\ UNCHANGED loader

\* if not model_loaded: (177 and 253).
GateLoaded ==
    /\ hpc = "gate"
    /\ hpc' = IF model_loaded THEN "generate" ELSE "gateLoading"
    /\ UNCHANGED <<endpoint, reply, view, seen>>
    /\ UNCHANGED loader

\* if model_loading: 503 "still loading" else 503 "failed to load" (178-181).
GateLoading ==
    /\ hpc = "gateLoading"
    /\ Answer(IF model_loading THEN "loading503" ELSE "failed503")

\* Template, tokenize, generate, decode; any exception is a 500 (183-247).
Generate ==
    /\ hpc = "generate"
    /\ \E r \in {"ok", "error500"} : Answer(r)

\* POST /v1/chat/completions (174-247).
chat_completion ==
    /\ endpoint = "chat"
    /\ GateLoaded \/ GateLoading \/ Generate

\* POST /inference/text (250-300): the same gate and generation.
text_inference ==
    /\ endpoint = "text"
    /\ GateLoaded \/ GateLoading \/ Generate

\* A handler reads one global into field f of its reply and moves to step next.
ReadInto(f, val, next) ==
    /\ view' = [view EXCEPT ![f] = val]
    /\ hpc' = next
    /\ UNCHANGED <<endpoint, reply, seen>>
    /\ UNCHANGED loader

\* GET /health (146-155): status, then loaded, then loading.
health ==
    /\ endpoint = "health"
    /\ \/ hpc = "healthStatus" /\ ReadInto("status", HealthStatus(Snapshot), "healthLoaded")
       \/ hpc = "healthLoaded" /\ ReadInto("loaded", model_loaded, "healthLoading")
       \/ hpc = "healthLoading" /\ ReadInto("loading", model_loading, "done")

\* GET /status (303-312): loaded, then loading, then error.
status ==
    /\ endpoint = "status"
    /\ \/ hpc = "statusLoaded" /\ ReadInto("loaded", model_loaded, "statusLoading")
       \/ hpc = "statusLoading" /\ ReadInto("loading", model_loading, "statusError")
       \/ hpc = "statusError" /\ ReadInto("error", loading_error, "done")

HandlerStep == chat_completion \/ text_inference \/ health \/ status

-----------------------------------------------------------------------------
Init ==
    /\ lpc = "unstarted"
    /\ model_loading = FALSE
    /\ model_loaded = FALSE
    /\ loading_error = None
    /\ model = None
    /\ processor = None
    /\ hpc = "idle"
    /\ endpoint = "chat"
    /\ reply = "none"
    /\ view = NoView
    /\ seen = {}

Next ==
    \/ LoaderStep
    \/ \E e \in Endpoints : Receive(e)
    \/ HandlerStep

(***************************************************************************)
(* The loader thread and a running handler keep being scheduled; the      *)
(* external from_pretrained calls are assumed to return or raise.  No     *)
(* fairness for Receive: clients need not send anything.                  *)
(***************************************************************************)
Spec == Init /\ [][Next]_vars /\ WF_vars(LoaderStep) /\ WF_vars(HandlerStep)

-----------------------------------------------------------------------------
LPCs == {"unstarted", "guard", "logDevice", "loadProcessor", "loadModel",
         "modelInfo", "setLoaded", "clearError", "except", "setError",
         "finally", "exited", "died"}
HPCs == {"idle", "done", "gate", "gateLoading", "generate", "healthStatus",
         "healthLoaded", "healthLoading", "statusLoaded", "statusLoading",
         "statusError"}
Replies == {"none", "ok", "error500", "loading503", "failed503"}
Views == [status : {"none", "loading", "healthy", "unhealthy"},
          loaded : BOOLEAN, loading : BOOLEAN, error : {None, Error}]

\* Every variable holds a value of its kind.
TypeOK ==
    /\ lpc \in LPCs
    /\ model_loading \in BOOLEAN
    /\ model_loaded \in BOOLEAN
    /\ loading_error \in {None, Error}
    /\ model \in {None, Model}
    /\ processor \in {None, Processor}
    /\ hpc \in HPCs
    /\ endpoint \in Endpoints
    /\ reply \in Replies
    /\ view \in Views
    /\ seen \in SUBSET Snapshots

(***************************************************************************)
(* A chat or text request reaches processor.apply_chat_template and       *)
(* model.generate (193-213) only when both objects are in place: the gate *)
(* tests model_loaded, which the loader sets after assigning processor    *)
(* and model and which nothing ever clears.                               *)
(***************************************************************************)
InferenceUsesLoadedModel ==
    hpc = "generate" => model # None /\ processor # None

(***************************************************************************)
(* Spec 3 and 4.1: load_model_async implements the loader the spec       *)
(* describes: idle, then loading once, then loaded or failed for good,   *)
(* and it does not stay idle or loading forever.  Request handlers never *)
(* change the state, a failed generation included.                        *)
(***************************************************************************)
LS == INSTANCE LoadState WITH state <- ServiceState

LoaderRefinesLoadState == LS!Spec

(***************************************************************************)
(* What the flags say of the one load attempt, with the loader's place to *)
(* tell an attempt that ended with no result from one not yet begun: the  *)
(* flags of both read idle.                                               *)
(***************************************************************************)
AttemptState ==
    IF ServiceState = "idle" /\ lpc = "exited" THEN "abandoned" ELSE ServiceState

(***************************************************************************)
(* load_model_async and the handlers move the load through idle, loading  *)
(* once, and then loaded, failed or abandoned for good: a model that has  *)
(* loaded is never reported as loading or failed again, a kept error is   *)
(* never lost, and the flags never read loading after the finally.        *)
(***************************************************************************)
LA == INSTANCE LoadAttempt WITH attempt <- AttemptState

ImplementsLoadAttempt == LA!Spec

(***************************************************************************)
(* A load that has begun ends: model_loading, set at line 71, is cleared   *)
(* again by the finally of line 117 (spec 4.1: exceptions during loading  *)
(* are caught and the service reports failed).                            *)
(***************************************************************************)
LoadEnds == model_loading ~> ~model_loading

(***************************************************************************)
(* The answers the gate of lines 177-181 gives for the flags s.           *)
(***************************************************************************)
GateAnswers(s) ==
    IF s.loaded THEN {"ok", "error500"}
    ELSE IF s.loading THEN {"loading503"}
    ELSE {"failed503"}

(***************************************************************************)
(* An inference reply is one the gate gives for a state the service was  *)
(* in while the handler ran (spec 4.2: 503 "still loading" while loading, *)
(* "failed to load" only when idle or failed, generation only when        *)
(* loaded).  The handler reads model_loaded and model_loading separately. *)
(***************************************************************************)
GateReplyAtomic ==
    hpc = "done" /\ endpoint \in Inference =>
        \E s \in seen : reply \in GateAnswers(s)

\* The fields /health (150-154) and /status (308-310) report for the flags s.
ViewOf(e, s) ==
    IF e = "health"
      THEN [status |-> HealthStatus(s), loaded |-> s.loaded,
            loading |-> s.loading, error |-> None]
      ELSE [status |-> "none", loaded |-> s.loaded,
            loading |-> s.loading, error |-> s.error]

(***************************************************************************)
(* A /health or /status reply describes a state the loader was in while  *)
(* the handler ran (spec 8: the health endpoint reflects the loader state *)
(* at all times).  The handlers read the globals one at a time.           *)
(***************************************************************************)
StatusViewAtomic ==
    hpc = "done" /\ endpoint \in {"health", "status"} =>
        \E s \in seen : view = ViewOf(endpoint, s)

=============================================================================
