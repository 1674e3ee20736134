------------------------- MODULE OmniServiceProofs -------------------------
(***************************************************************************)
(* Proofs about OmniService: the type invariant, and that a chat or text  *)
(* request reaches model.generate only when the processor and the model   *)
(* are in place, whatever the interleaving of the loader thread and the   *)
(* event loop.                                                             *)
(***************************************************************************)
EXTENDS OmniService, TLAPS

\* The loader assigns processor before model, and model before model_loaded.
LoadOrder ==
    /\ lpc \in {"loadModel", "modelInfo", "setLoaded"} => processor # None
    /\ lpc \in {"modelInfo", "setLoaded"} => model # None

\* Once set, model_loaded stands for a processor and a model in memory.
LoadedHasObjects == model_loaded => model # None /\ processor # None

\* A handler in generate passed the gate, and model_loaded is never cleared.
GatePassedLoaded == hpc = "generate" => model_loaded

\* The strengthening of InferenceUsesLoadedModel that Next preserves.
IInv == TypeOK /\ LoadOrder /\ LoadedHasObjects /\ GatePassedLoaded

-----------------------------------------------------------------------------
\* A loader step records a snapshot of well-typed flags.
LEMMA ObserveTyped ==
    ASSUME TypeOK, Observe,
           model_loading' \in BOOLEAN, model_loaded' \in BOOLEAN,
           loading_error' \in {None, Error}
    PROVE  seen' \in SUBSET Snapshots
  BY DEF TypeOK, Observe, Snapshot, Snapshots

\* Every step of the loader thread keeps the type invariant.
LEMMA LoaderTypeOK == TypeOK /\ LoaderStep => TypeOK'
  <1> SUFFICES ASSUME TypeOK, LoaderStep PROVE TypeOK'
    OBVIOUS
  <1> USE DEF TypeOK, LPCs
  <1>1. CASE Lifespan
    BY <1>1 DEF Lifespan, handler
  <1>2. CASE LoaderGuard
    <2>1. seen' \in SUBSET Snapshots
      BY <1>2, ObserveTyped DEF LoaderGuard
    <2>2. QED
      BY <1>2, <2>1 DEF LoaderGuard
  <1>3. CASE LogDevice \/ LoadProcessor
    BY <1>3 DEF LogDevice, LoadProcessor, handler
  <1>4. CASE LoadModel
    BY <1>4 DEF LoadModel, handler
  <1>5. CASE ModelInfo
    BY <1>5 DEF ModelInfo, handler
  <1>6. CASE SetLoaded
    <2>1. seen' \in SUBSET Snapshots
      BY <1>6, ObserveTyped DEF SetLoaded
    <2>2. QED
      BY <1>6, <2>1 DEF SetLoaded
  <1>7. CASE ClearError
    <2>1. seen' \in SUBSET Snapshots
      BY <1>7, ObserveTyped DEF ClearError
    <2>2. QED
      BY <1>7, <2>1 DEF ClearError
  <1>8. CASE ExceptLog
    BY <1>8 DEF ExceptLog, handler
  <1>11. CASE SetError
    <2>1. seen' \in SUBSET Snapshots
      BY <1>11, ObserveTyped DEF SetError
    <2>2. QED
      BY <1>11, <2>1 DEF SetError
  <1>9. CASE Finally
    <2>1. seen' \in SUBSET Snapshots
      BY <1>9, ObserveTyped DEF Finally
    <2>2. QED
      BY <1>9, <2>1 DEF Finally
  <1>10. QED
    BY <1>1, <1>2, <1>3, <1>4, <1>5, <1>6, <1>7, <1>8, <1>9, <1>11
    DEF LoaderStep

\* Every step of the event loop keeps the type invariant.
LEMMA HandlerTypeOK ==
    TypeOK /\ ((\E e \in Endpoints : Receive(e)) \/ HandlerStep) => TypeOK'
  <1> SUFFICES ASSUME TypeOK, (\E e \in Endpoints : Receive(e)) \/ HandlerStep
               PROVE TypeOK'
    OBVIOUS
  <1> USE DEF TypeOK, HPCs, Replies, Views
  <1>1. CASE \E e \in Endpoints : Receive(e)
    BY <1>1 DEF Receive, FirstStep, Endpoints, Inference, NoView, Snapshot,
                Snapshots, loader
  <1>2. CASE chat_completion \/ text_inference
    BY <1>2 DEF chat_completion, text_inference, GateLoaded, GateLoading,
                Generate, Answer, loader
  <1>3. CASE health
    BY <1>3 DEF health, ReadInto, HealthStatus, Snapshot, loader
  <1>4. CASE status
    BY <1>4 DEF status, ReadInto, loader
  <1>5. QED
    BY <1>1, <1>2, <1>3, <1>4 DEF HandlerStep

\* The initial state is well typed.
LEMMA InitTypeOK == Init => TypeOK
  <1> SUFFICES ASSUME Init PROVE TypeOK
    OBVIOUS
  <1>1. view \in Views
    BY DEF Init, Views, NoView
  <1>2. seen \in SUBSET Snapshots
    BY DEF Init
  <1>3. QED
    BY <1>1, <1>2 DEF Init, TypeOK, LPCs, HPCs, Replies, Endpoints, Inference

\* TypeOK is an invariant of the service.
THEOREM TypeCorrect == Spec => []TypeOK
  <1>1. Init => TypeOK
    BY InitTypeOK
  <1>2. TypeOK /\ [Next]_vars => TypeOK'
    BY LoaderTypeOK, HandlerTypeOK DEF Next, vars, loader, handler, TypeOK
  <1>3. QED
    BY <1>1, <1>2, PTL DEF Spec

-----------------------------------------------------------------------------
\* The ordering conjuncts of IInv hold initially.
LEMMA InitIInv == Init => IInv
  BY InitTypeOK DEF Init, IInv, LoadOrder, LoadedHasObjects, GatePassedLoaded

\* The loader thread assigns processor, then model, then model_loaded.
LEMMA LoaderIInv == IInv /\ LoaderStep => IInv'
  <1> SUFFICES ASSUME IInv, LoaderStep PROVE IInv'
    OBVIOUS
  <1>1. TypeOK'
    BY LoaderTypeOK DEF IInv
  <1> USE DEF IInv, LoadOrder, LoadedHasObjects, GatePassedLoaded
  <1>2. CASE Lifespan
    BY <1>1, <1>2 DEF Lifespan, handler
  <1>3. CASE LoaderGuard
    BY <1>1, <1>3 DEF LoaderGuard
  <1>4. CASE LoadProcessor
    BY <1>1, <1>4 DEF LoadProcessor, handler, Processor, None
  <1>12. CASE LogDevice
    BY <1>1, <1>12 DEF LogDevice, handler
  <1>5. CASE LoadModel
    BY <1>1, <1>5 DEF LoadModel, handler, Model, None
  <1>6. CASE ModelInfo
    BY <1>1, <1>6 DEF ModelInfo, handler
  <1>7. CASE SetLoaded
    BY <1>1, <1>7 DEF SetLoaded
  <1>8. CASE ClearError
    BY <1>1, <1>8 DEF ClearError
  <1>9. CASE ExceptLog
    BY <1>1, <1>9 DEF ExceptLog, handler
  <1>13. CASE SetError
    BY <1>1, <1>13 DEF SetError
  <1>10. CASE Finally
    BY <1>1, <1>10 DEF Finally
  <1>11. QED
    BY <1>2, <1>3, <1>4, <1>5, <1>6, <1>7, <1>8, <1>9, <1>10, <1>12, <1>13
    DEF LoaderStep

\* The event loop reaches generate only through a gate that read model_loaded.
LEMMA HandlerIInv ==
    IInv /\ ((\E e \in Endpoints : Receive(e)) \/ HandlerStep) => IInv'
  <1> SUFFICES ASSUME IInv, (\E e \in Endpoints : Receive(e)) \/ HandlerStep
               PROVE IInv'
    OBVIOUS
  <1>1. TypeOK'
    BY HandlerTypeOK DEF IInv
  <1> USE DEF IInv, LoadOrder, LoadedHasObjects, GatePassedLoaded
  <1>2. CASE \E e \in Endpoints : Receive(e)
    BY <1>1, <1>2 DEF Receive, FirstStep, Endpoints, Inference, loader
  <1>3. CASE chat_completion \/ text_inference
    BY <1>1, <1>3 DEF chat_completion, text_inference, GateLoaded, GateLoading,
                      Generate, Answer, loader
  <1>4. CASE health
    BY <1>1, <1>4 DEF health, ReadInto, loader
  <1>5. CASE status
    BY <1>1, <1>5 DEF status, ReadInto, loader
  <1>6. QED
    BY <1>2, <1>3, <1>4, <1>5 DEF HandlerStep

(***************************************************************************)
(* A chat or text request calls processor and model.generate only when    *)
(* both are loaded, for every interleaving of the loader thread with the  *)
(* handlers (service.py lines 94-108 and 177-213).                        *)
(***************************************************************************)
THEOREM GenerateOnlyWhenLoaded == Spec => []InferenceUsesLoadedModel
  <1>1. Init => IInv
    BY InitIInv
  <1>2. IInv /\ [Next]_vars => IInv'
    <2> SUFFICES ASSUME IInv, [Next]_vars PROVE IInv'
      OBVIOUS
    <2>1. CASE LoaderStep
      BY <2>1, LoaderIInv
    <2>2. CASE (\E e \in Endpoints : Receive(e)) \/ HandlerStep
      BY <2>2, HandlerIInv
    <2>3. CASE UNCHANGED vars
      BY <2>3 DEF vars, loader, handler, IInv, TypeOK, LoadOrder,
                  LoadedHasObjects, GatePassedLoaded
    <2>4. QED
      BY <2>1, <2>2, <2>3 DEF Next
  <1>3. IInv => InferenceUsesLoadedModel
    BY DEF IInv, LoadedHasObjects, GatePassedLoaded, InferenceUsesLoadedModel
  <1>4. QED
    BY <1>1, <1>2, <1>3, PTL DEF Spec

-----------------------------------------------------------------------------
(***************************************************************************)
(* The refinement of LoadAttempt.  What the flags are at each place of    *)
(* load_model_async: nothing set before the guard; loading held from the  *)
(* guard to the finally, and for good once the thread has died at lines   *)
(* 73-79; no result before line 108 or 115; model_loaded from line 108 on; *)
(* loading cleared once the finally has run.  The finally is reached with *)
(* a model, with an error, or with neither when the logging of 112-114    *)
(* raised.                                                                 *)
(***************************************************************************)
Busy == {"logDevice", "loadProcessor", "loadModel", "modelInfo", "setLoaded",
         "clearError", "except", "setError", "finally", "died"}

\* The places where the attempt has produced neither a model nor an error.
NoResult == {"logDevice", "loadProcessor", "loadModel", "modelInfo",
             "setLoaded", "except", "setError", "died"}

LoaderPhase ==
    /\ lpc \in {"unstarted", "guard"} =>
         ~model_loading /\ ~model_loaded /\ loading_error = None
    /\ lpc \in Busy => model_loading
    /\ lpc \in NoResult => ~model_loaded /\ loading_error = None
    /\ lpc = "clearError" => model_loaded
    /\ lpc = "exited" => ~model_loading

RInv == TypeOK /\ LoaderPhase

\* Before the loader thread starts the attempt is idle.
LEMMA InitRInv == Init => RInv /\ LA!Init
  <1> SUFFICES ASSUME Init PROVE RInv /\ LA!Init
    OBVIOUS
  <1>1. TypeOK
    BY InitTypeOK
  <1>2. LoaderPhase
    BY DEF Init, LoaderPhase, Busy, NoResult
  <1>3. AttemptState = "idle"
    BY DEF Init, AttemptState, ServiceState, ServiceStateOf, Snapshot, None
  <1>4. QED
    BY <1>1, <1>2, <1>3 DEF RInv, LA!Init

\* Each loader step moves to the place whose flags it has just written.
LEMMA NextRInv == RInv /\ [Next]_vars => RInv'
  <1> SUFFICES ASSUME RInv, [Next]_vars PROVE RInv'
    OBVIOUS
  <1>1. TypeOK'
    BY LoaderTypeOK, HandlerTypeOK DEF RInv, Next, vars, loader, handler,
                                       TypeOK
  <1> USE DEF RInv, LoaderPhase, Busy, NoResult
  <1>2. CASE Lifespan \/ LoaderGuard \/ LogDevice \/ LoadProcessor
    BY <1>1, <1>2 DEF Lifespan, LoaderGuard, LogDevice, LoadProcessor,
                      TypeOK, None, Error
  <1>3. CASE LoadModel \/ ModelInfo \/ SetLoaded \/ ClearError
    BY <1>1, <1>3 DEF LoadModel, ModelInfo, SetLoaded, ClearError,
                      TypeOK, None, Error
  <1>4. CASE ExceptLog \/ SetError \/ Finally
    BY <1>1, <1>4 DEF ExceptLog, SetError, Finally, TypeOK, None, Error
  <1>5. CASE (\E e \in Endpoints : Receive(e)) \/ HandlerStep \/ UNCHANGED vars
    <2>1. UNCHANGED loader
      BY <1>5 DEF Receive, HandlerStep, chat_completion, text_inference,
                  GateLoaded, GateLoading, Generate, Answer, health, status,
                  ReadInto, vars
    <2>2. QED
      BY <1>1, <2>1 DEF loader
  <1>6. QED
    BY <1>2, <1>3, <1>4, <1>5 DEF Next, LoaderStep

\* Every step of the service is a step of LoadAttempt or leaves it alone.
LEMMA StepRefines == RInv /\ [Next]_vars => [LA!Next]_AttemptState
  <1> SUFFICES ASSUME RInv, [Next]_vars PROVE [LA!Next]_AttemptState
    OBVIOUS
  <1> USE DEF RInv, LoaderPhase, Busy, NoResult, TypeOK
  <1> DEFINE Flags == <<lpc, model_loading, model_loaded, loading_error>>
  <1>1. UNCHANGED Flags => UNCHANGED AttemptState
    BY DEF AttemptState, ServiceState, ServiceStateOf, Snapshot
  <1>2. CASE Lifespan
    <2>1. AttemptState = "idle" /\ AttemptState' = "idle"
      BY <1>2 DEF Lifespan, AttemptState, ServiceState, ServiceStateOf,
                  Snapshot
    <2>2. QED
      BY <2>1
  <1>3. CASE LogDevice \/ LoadProcessor \/ LoadModel \/ ModelInfo
             \/ SetLoaded \/ ClearError \/ ExceptLog \/ SetError
    <2>1. model_loading /\ model_loading' /\ lpc' # "exited"
      BY <1>3 DEF LogDevice, LoadProcessor, LoadModel, ModelInfo, SetLoaded,
                  ClearError, ExceptLog, SetError
    <2>2. AttemptState = "loading" /\ AttemptState' = "loading"
      BY <2>1 DEF AttemptState, ServiceState, ServiceStateOf, Snapshot
    <2>3. QED
      BY <2>2
  <1>4. CASE LoaderGuard
    <2>1. lpc' = "logDevice" /\ model_loading' /\ ~model_loading
          /\ lpc = "guard" /\ ~model_loaded /\ loading_error = None
      BY <1>4 DEF LoaderGuard
    <2>2. AttemptState = "idle" /\ AttemptState' = "loading"
      BY <2>1 DEF AttemptState, ServiceState, ServiceStateOf, Snapshot
    <2>3. QED
      BY <2>2 DEF LA!Next, LA!Begin
  <1>5. CASE Finally
    <2>1. model_loading /\ ~model_loading' /\ lpc' = "exited"
      BY <1>5 DEF Finally
    <2>2. AttemptState = "loading"
      BY <2>1 DEF AttemptState, ServiceState, ServiceStateOf, Snapshot
    <2>3. AttemptState' \in {"loaded", "failed", "abandoned"}
      BY <2>1 DEF AttemptState, ServiceState, ServiceStateOf, Snapshot
    <2>4. QED
      BY <2>2, <2>3 DEF LA!Next, LA!Succeed, LA!Fail, LA!Abandon
  <1>6. CASE (\E e \in Endpoints : Receive(e)) \/ HandlerStep \/ UNCHANGED vars
    <2>1. UNCHANGED Flags
      BY <1>6 DEF Receive, HandlerStep, chat_completion, text_inference,
                  GateLoaded, GateLoading, Generate, Answer, health, status,
                  ReadInto, vars, loader
    <2>2. QED
      BY <1>1, <2>1
  <1>7. QED
    BY <1>2, <1>3, <1>4, <1>5, <1>6 DEF Next, LoaderStep

(***************************************************************************)
(* ImplementsLoadAttempt for every behaviour: load_model_async and the    *)
(* handlers move the one load attempt from idle to loading once, and from *)
(* loading to loaded, failed or abandoned, which are final; a handler,    *)
(* a failed generation included, never moves it (service.py 64-117).      *)
(***************************************************************************)
THEOREM LoaderImplementsLoadAttempt == Spec => ImplementsLoadAttempt
  <1>1. Init => RInv /\ LA!Init
    BY InitRInv
  <1>2. RInv /\ [Next]_vars => RInv'
    BY NextRInv
  <1>3. RInv /\ [Next]_vars => [LA!Next]_AttemptState
    BY StepRefines
  <1>4. QED
    BY <1>1, <1>2, <1>3, PTL DEF Spec, ImplementsLoadAttempt, LA!Spec

=============================================================================
