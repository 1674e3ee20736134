-------------------------- MODULE TtsServiceProofs --------------------------
(***************************************************************************)
(* Proofs about TtsService: the type invariant, and that /v1/tts and      *)
(* /v1/audio/speech never disagree on whether the real model is usable,   *)
(* for every value of MaxTemp and every outcome of lifespan.              *)
(***************************************************************************)
EXTENDS TtsService, TLAPS

\* Modes that show a usable model, and modes that show none.
RealModes == {"real", "ready"}
NoModelModes == {"fallback", "unready"}

(***************************************************************************)
(* While the server serves, every mode answered so far matches the        *)
(* globals, which no handler changes; before it serves nothing has been   *)
(* answered.                                                               *)
(***************************************************************************)
ModesMatchGlobals ==
    /\ phase \notin {"serving", "stopped"} => answered = {}
    /\ phase = "serving" =>
         /\ answered \cap RealModes # {} => UsesRealModel
         /\ answered \cap NoModelModes # {} => ~UsesRealModel

IInv == TypeOK /\ ModesMatchGlobals /\ EndpointsAgree

-----------------------------------------------------------------------------
\* The initial state is well typed.
LEMMA InitTypeOK == Init => TypeOK
  <1> SUFFICES ASSUME Init PROVE TypeOK
    OBVIOUS
  <1>1. reply \in Replies
    BY DEF Init, NoReply, Reply, Replies, Dtypes
  <1>2. tmp \in 0..MaxTemp
    BY MaxTempAssumption DEF Init
  <1>3. phase \in Phases /\ model \in {None, TtsModel} /\ model_loaded \in BOOLEAN
    BY DEF Init, Phases, None, TtsModel
  <1>4. answered \in SUBSET {"real", "fallback", "ready", "unready"}
    BY DEF Init
  <1>5. QED
    BY <1>1, <1>2, <1>3, <1>4 DEF TypeOK

\* Every step keeps the type invariant.
LEMMA NextTypeOK == TypeOK /\ [Next]_vars => TypeOK'
  <1> SUFFICES ASSUME TypeOK, [Next]_vars PROVE TypeOK'
    OBVIOUS
  <1>1. CASE Lifespan
    <2>1. phase' \in Phases /\ model_loaded' \in BOOLEAN
      BY <1>1 DEF Lifespan, CheckFiles, FromPretrained, Announce, Except,
                  Shutdown, Phases, TypeOK
    <2>2. model' \in {None, TtsModel}
      BY <1>1 DEF Lifespan, CheckFiles, FromPretrained, Announce, Except,
                  Shutdown, TypeOK
    <2>3. UNCHANGED <<tmp, reply, answered>>
      BY <1>1 DEF Lifespan, CheckFiles, FromPretrained, Announce, Except,
                  Shutdown
    <2>4. QED
      BY <2>1, <2>2, <2>3 DEF TypeOK
  <1>2. CASE text_to_speech
    <2>1. reply' \in Replies
      <3>1. CASE UsesRealModel
        <4>1. PICK ok \in BOOLEAN, a \in Dtypes :
                reply' = IF ok THEN Reply("tts", 200, TRUE, AudioInt16(a))
                               ELSE Reply("tts", 500, TRUE, "int16")
          BY <1>2, <3>1 DEF text_to_speech
        <4>2. QED
          BY <4>1 DEF Reply, Replies, Dtypes, AudioInt16, IsFloatingScalar
      <3>2. CASE ~UsesRealModel
        <4>1. reply' = Reply("tts", 200, FALSE, "int16")
          BY <1>2, <3>2 DEF text_to_speech
        <4>2. QED
          BY <4>1 DEF Reply, Replies, Dtypes
      <3>3. QED
        BY <3>1, <3>2
    <2>2. answered' \in SUBSET {"real", "fallback", "ready", "unready"}
      BY <1>2 DEF text_to_speech, TypeOK
    <2>3. QED
      BY <1>2, <2>1, <2>2 DEF text_to_speech, TypeOK
  <1>3. CASE openai_compatible_tts
    <2>1. reply' \in Replies
      <3>1. CASE SpeechGate
        <4>1. reply' = Reply("speech", 503, FALSE, "int16")
          BY <1>3, <3>1 DEF openai_compatible_tts
        <4>2. QED
          BY <4>1 DEF Reply, Replies, Dtypes
      <3>2. CASE ~SpeechGate /\ UNCHANGED tmp
        <4>1. reply' = Reply("speech", 500, TRUE, "int16")
          <5>1. tmp \in Nat
            BY DEF TypeOK
          <5>2. tmp' # tmp + 1
            BY <3>2, <5>1
          <5>3. QED
            BY <1>3, <3>2, <5>2, Zenon DEF openai_compatible_tts
        <4>2. QED
          BY <4>1 DEF Reply, Replies, Dtypes
      <3>3. CASE ~SpeechGate /\ tmp' # tmp
        <4>1. PICK ok \in BOOLEAN, a \in Dtypes :
                reply' = IF ok THEN Reply("speech", 200, TRUE, AudioInt16(a))
                               ELSE Reply("speech", 500, TRUE, "int16")
          BY <1>3, <3>3 DEF openai_compatible_tts
        <4>2. QED
          BY <4>1 DEF Reply, Replies, Dtypes, AudioInt16, IsFloatingScalar
      <3>4. QED
        BY <3>1, <3>2, <3>3
    <2>2. tmp' \in 0..MaxTemp
      <3>1. tmp \in 0..MaxTemp
        BY DEF TypeOK
      <3>2. tmp' = tmp \/ (tmp < MaxTemp /\ tmp' = tmp + 1)
        BY <1>3 DEF openai_compatible_tts
      <3>3. QED
        BY <3>1, <3>2, MaxTempAssumption
    <2>3. answered' \in SUBSET {"real", "fallback", "ready", "unready"}
      BY <1>3 DEF openai_compatible_tts, TypeOK
    <2>4. QED
      BY <1>3, <2>1, <2>2, <2>3 DEF openai_compatible_tts, TypeOK
  <1>4. CASE health_check \/ root
    <2>1. reply' \in Replies
      <3>1. model_loaded \in BOOLEAN
        BY DEF TypeOK
      <3>2. CASE health_check
        <4>1. (model # None) \in BOOLEAN /\ (model = None) \in BOOLEAN
          OBVIOUS
        <4>2. QED
          BY <3>1, <3>2, <4>1 DEF health_check, Replies, Dtypes
      <3>3. CASE root
        BY <3>1, <3>3 DEF root, Replies, Dtypes
      <3>4. QED
        BY <1>4, <3>2, <3>3
    <2>2. QED
      BY <1>4, <2>1 DEF health_check, root, TypeOK
  <1>5. CASE UNCHANGED vars
    BY <1>5 DEF vars, TypeOK
  <1>6. QED
    BY <1>1, <1>2, <1>3, <1>4, <1>5 DEF Next, Handler

\* TypeOK is an invariant of the service.
THEOREM TypeCorrect == Spec => []TypeOK
  BY InitTypeOK, NextTypeOK, PTL DEF Spec

-----------------------------------------------------------------------------
\* Nothing has been answered before the server serves.
LEMMA InitIInv == Init => IInv
  BY InitTypeOK DEF Init, IInv, ModesMatchGlobals, EndpointsAgree

\* lifespan changes the globals only while nothing has been answered, and
\* shutdown ends the serving phase for good.
LEMMA LifespanIInv == IInv /\ Lifespan => IInv'
  <1> SUFFICES ASSUME IInv, Lifespan PROVE IInv'
    OBVIOUS
  <1>1. TypeOK'
    BY NextTypeOK DEF IInv, Next
  <1> USE DEF IInv, ModesMatchGlobals, EndpointsAgree, UsesRealModel
  <1>2. CASE CheckFiles \/ FromPretrained \/ Announce \/ Except
    BY <1>1, <1>2 DEF CheckFiles, FromPretrained, Announce, Except
  <1>3. CASE Shutdown
    BY <1>1, <1>3 DEF Shutdown
  <1>4. QED
    BY <1>2, <1>3 DEF Lifespan

\* Each synthesis handler records the mode its gate saw, which matches the
\* globals; health and root record nothing.
LEMMA HandlerIInv == IInv /\ Handler => IInv'
  <1> SUFFICES ASSUME IInv, Handler PROVE IInv'
    OBVIOUS
  <1>1. TypeOK'
    BY NextTypeOK DEF IInv, Next
  <1> USE DEF IInv, ModesMatchGlobals, EndpointsAgree, RealModes, NoModelModes,
              UsesRealModel
  <1>2. CASE text_to_speech
    <2>1. UNCHANGED <<phase, model, model_loaded>>
      BY <1>2 DEF text_to_speech
    <2>2. CASE UsesRealModel
      <3>1. answered' = answered \cup {"real"}
        BY <1>2, <2>2 DEF text_to_speech
      <3>2. QED
        BY <1>1, <2>1, <2>2, <3>1, <1>2 DEF text_to_speech
    <2>3. CASE ~UsesRealModel
      <3>1. answered' = answered \cup {"fallback"}
        BY <1>2, <2>3 DEF text_to_speech
      <3>2. QED
        BY <1>1, <2>1, <2>3, <3>1, <1>2 DEF text_to_speech
    <2>4. QED
      BY <2>2, <2>3
  <1>3. CASE openai_compatible_tts
    <2>1. UNCHANGED <<phase, model, model_loaded>>
      BY <1>3 DEF openai_compatible_tts
    <2>2. CASE SpeechGate
      <3>1. answered' = answered \cup {"unready"} /\ ~UsesRealModel
        BY <1>3, <2>2 DEF openai_compatible_tts, SpeechGate
      <3>2. QED
        BY <1>1, <2>1, <3>1, <1>3 DEF openai_compatible_tts
    <2>3. CASE ~SpeechGate
      <3>1. answered' = answered \cup {"ready"} /\ UsesRealModel
        BY <1>3, <2>3 DEF openai_compatible_tts, SpeechGate
      <3>2. QED
        BY <1>1, <2>1, <3>1, <1>3 DEF openai_compatible_tts
    <2>4. QED
      BY <2>2, <2>3
  <1>4. CASE health_check \/ root
    BY <1>1, <1>4 DEF health_check, root
  <1>5. QED
    BY <1>2, <1>3, <1>4 DEF Handler

(***************************************************************************)
(* For every value of MaxTemp and every way lifespan ends, /v1/tts and    *)
(* /v1/audio/speech agree on whether the real model is usable (main.py    *)
(* lines 150 and 231): the 503 gate is the negation of the real branch,   *)
(* and neither global changes while requests are served.                  *)
(***************************************************************************)
THEOREM SynthesisEndpointsAgree == Spec => []EndpointsAgree
  <1>1. Init => IInv
    BY InitIInv
  <1>2. IInv /\ [Next]_vars => IInv'
    <2> SUFFICES ASSUME IInv, [Next]_vars PROVE IInv'
      OBVIOUS
    <2>1. CASE Lifespan
      BY <2>1, LifespanIInv
    <2>2. CASE Handler
      BY <2>2, HandlerIInv
    <2>3. CASE UNCHANGED vars
      BY <2>3 DEF vars, IInv, TypeOK, ModesMatchGlobals, EndpointsAgree,
                  UsesRealModel
    <2>4. QED
      BY <2>1, <2>2, <2>3 DEF Next
  <1>3. IInv => EndpointsAgree
    BY DEF IInv
  <1>4. QED
    BY <1>1, <1>2, <1>3, PTL DEF Spec

-----------------------------------------------------------------------------
(***************************************************************************)
(* The refinement of SpeechPath.  PathOf reads the phase and the two      *)
(* globals; lifespan moves it from "starting" once, and a synthesis        *)
(* handler answers in a mode of the path it reads.                         *)
(***************************************************************************)

\* Before serving, the path is "starting"; while serving it is decided by
\* the branch condition of /v1/tts.
LEMMA PathValues ==
    /\ phase \in {"check", "load", "announce", "except"} => PathOf = "starting"
    /\ phase = "serving" /\ UsesRealModel => PathOf = "real"
    /\ phase = "serving" /\ ~UsesRealModel => PathOf = "fallback"
    /\ phase = "stopped" => PathOf = "stopped"
    /\ phase = "aborted" => PathOf = "aborted"
  BY DEF PathOf

\* Each lifespan step stays in startup or makes one SpeechPath step.
LEMMA LifespanRefines ==
    Lifespan => [SP!Next]_<<PathOf, answered>>
  <1> SUFFICES ASSUME Lifespan PROVE [SP!Next]_<<PathOf, answered>>
    OBVIOUS
  <1> USE DEF SP!Next, SP!Choose, SP!Stop
  <1>1. CASE CheckFiles \/ FromPretrained \/ Announce \/ Except
    <2>1. PathOf = "starting" /\ answered' = answered
      BY <1>1, PathValues DEF CheckFiles, FromPretrained, Announce, Except
    <2>2. phase' \in {"check", "load", "announce", "except", "serving", "aborted"}
      BY <1>1 DEF CheckFiles, FromPretrained, Announce, Except
    <2>3. PathOf' \in {"starting", "real", "fallback", "aborted"}
      BY <2>2 DEF PathOf
    <2>4. QED
      BY <2>1, <2>3
  <1>2. CASE Shutdown
    <2>1. phase = "serving" /\ phase' = "stopped" /\ answered' = answered
      BY <1>2 DEF Shutdown
    <2>2. PathOf \in {"real", "fallback"} /\ PathOf' = "stopped"
      BY <2>1, PathValues DEF PathOf
    <2>3. QED
      BY <2>1, <2>2
  <1>3. QED
    BY <1>1, <1>2 DEF Lifespan

\* Each handler answers in a mode of the path, or changes nothing SpeechPath
\* sees.
LEMMA HandlerRefines ==
    Handler => [SP!Next]_<<PathOf, answered>>
  <1> SUFFICES ASSUME Handler PROVE [SP!Next]_<<PathOf, answered>>
    OBVIOUS
  <1> USE DEF SP!Next, SP!Answer, SP!ModesOf
  <1>1. PathOf' = PathOf
    <2>1. UNCHANGED <<phase, model, model_loaded>>
      BY DEF Handler, text_to_speech, openai_compatible_tts, health_check, root
    <2>2. QED
      BY <2>1 DEF PathOf, UsesRealModel
  <1>2. phase = "serving"
    BY DEF Handler, text_to_speech, openai_compatible_tts, health_check, root
  <1>3. CASE text_to_speech
    <2>1. CASE UsesRealModel
      <3>1. PathOf = "real" /\ answered' = answered \cup {"real"}
        BY <1>2, <1>3, <2>1, PathValues DEF text_to_speech
      <3>2. QED
        BY <1>1, <3>1
    <2>2. CASE ~UsesRealModel
      <3>1. PathOf = "fallback" /\ answered' = answered \cup {"fallback"}
        BY <1>2, <1>3, <2>2, PathValues DEF text_to_speech
      <3>2. QED
        BY <1>1, <3>1
    <2>3. QED
      BY <2>1, <2>2
  <1>4. CASE openai_compatible_tts
    <2>1. CASE SpeechGate
      <3>1. PathOf = "fallback" /\ answered' = answered \cup {"unready"}
        BY <1>2, <1>4, <2>1, PathValues DEF openai_compatible_tts, SpeechGate,
                                            UsesRealModel
      <3>2. QED
        BY <1>1, <3>1
    <2>2. CASE ~SpeechGate
      <3>1. PathOf = "real" /\ answered' = answered \cup {"ready"}
        BY <1>2, <1>4, <2>2, PathValues DEF openai_compatible_tts, SpeechGate,
                                            UsesRealModel
      <3>2. QED
        BY <1>1, <3>1
    <2>3. QED
      BY <2>1, <2>2
  <1>5. CASE health_check \/ root
    BY <1>1, <1>5 DEF health_check, root
  <1>6. QED
    BY <1>3, <1>4, <1>5 DEF Handler

(***************************************************************************)
(* docker/tts/main.py implements SpeechPath for every value of MaxTemp:   *)
(* the real and fallback paths are settled once when lifespan reaches its *)
(* yield (lines 44-78), and both synthesis handlers answer on that path   *)
(* until shutdown (lines 150 and 231), in every way lifespan can end.     *)
(***************************************************************************)
THEOREM TtsImplementsSpeechPath == Spec => ImplementsSpeechPath
  <1>1. Init => SP!Init
    BY PathValues DEF Init, SP!Init
  <1>2. [Next]_vars => [SP!Next]_<<PathOf, answered>>
    <2> SUFFICES ASSUME [Next]_vars PROVE [SP!Next]_<<PathOf, answered>>
      OBVIOUS
    <2>1. CASE Lifespan
      BY <2>1, LifespanRefines
    <2>2. CASE Handler
      BY <2>2, HandlerRefines
    <2>3. CASE UNCHANGED vars
      BY <2>3 DEF vars, PathOf, UsesRealModel
    <2>4. QED
      BY <2>1, <2>2, <2>3 DEF Next
  <1>3. QED
    BY <1>1, <1>2, PTL DEF Spec, ImplementsSpeechPath, SP!Spec

=============================================================================
