------------------------ MODULE FallbackAudioProofs ------------------------
(***************************************************************************)
(* Proofs about the duration generate_fallback_audio gives its clip       *)
(* (docker/tts/main.py 94-98), for texts of every length and every speed  *)
(* on the 0.25 grid of TTSRequest's range: longer texts never get shorter *)
(* audio, faster speech never gets longer audio, and one CJK character    *)
(* anywhere puts the whole text at the CJK rate.  The runs check the same *)
(* for texts of up to MaxLen characters.                                   *)
(***************************************************************************)
EXTENDS FallbackAudio, SequenceTheorems, TLAPS

-----------------------------------------------------------------------------
(***************************************************************************)
(* Lemmas about the ratios and the clamp.                                 *)
(***************************************************************************)

\* max(1.0, _) keeps the order of two durations.
LEMMA ClampMonotone ==
    ASSUME NEW a \in Nat, NEW b \in Nat \ {0}, NEW c \in Nat, NEW e \in Nat \ {0},
           a * e <= c * b
    PROVE  LessEq(AtLeastOneSecond(Ratio(a, b)), AtLeastOneSecond(Ratio(c, e)))
  <1> USE DEF AtLeastOneSecond, LessEq, Ratio, One
  <1>1. CASE a <= b /\ c <= e
    BY <1>1
  <1>2. CASE a <= b /\ ~(c <= e)
    BY <1>2
  <1>3. CASE ~(a <= b) /\ c <= e
    <2>1. b * e < a * e
      BY <1>3
    <2>2. c * b <= e * b
      BY <1>3
    <2>3. FALSE
      BY <2>1, <2>2
    <2>4. QED
      BY <2>3
  <1>4. CASE ~(a <= b) /\ ~(c <= e)
    BY <1>4
  <1>5. QED
    BY <1>1, <1>2, <1>3, <1>4

\* max(1.0, _) maps equal ratios to equal durations.
LEMMA ClampSame ==
    ASSUME NEW a \in Nat, NEW b \in Nat \ {0}, NEW c \in Nat, NEW e \in Nat \ {0},
           a * e = c * b
    PROVE  SameRatio(AtLeastOneSecond(Ratio(a, b)), AtLeastOneSecond(Ratio(c, e)))
  <1>1. LessEq(AtLeastOneSecond(Ratio(a, b)), AtLeastOneSecond(Ratio(c, e)))
    BY ClampMonotone
  <1>2. LessEq(AtLeastOneSecond(Ratio(c, e)), AtLeastOneSecond(Ratio(a, b)))
    BY ClampMonotone
  <1>3. AtLeastOneSecond(Ratio(a, b)).num \in Nat
        /\ AtLeastOneSecond(Ratio(a, b)).den \in Nat
        /\ AtLeastOneSecond(Ratio(c, e)).num \in Nat
        /\ AtLeastOneSecond(Ratio(c, e)).den \in Nat
    BY DEF AtLeastOneSecond, Ratio, One
  <1>4. QED
    BY <1>1, <1>2, <1>3 DEF LessEq, SameRatio

-----------------------------------------------------------------------------
(***************************************************************************)
(* Lemmas about the texts.                                                 *)
(***************************************************************************)

\* chars_per_sec (97) is 3 or 5.
LEMMA RateValues ==
    ASSUME NEW t PROVE CharsPerSec(t) \in {3, 5}
  BY DEF CharsPerSec

\* Appending a character keeps a CJK character in the text, so the rate
\* never rises as the text grows (lines 96-97).
LEMMA AppendRate ==
    ASSUME NEW t \in Seq(Chars), NEW c \in Chars
    PROVE  /\ Append(t, c) \in Seq(Chars)
           /\ Len(Append(t, c)) = Len(t) + 1
           /\ CharsPerSec(Append(t, c)) <= CharsPerSec(t)
  <1>1. /\ Append(t, c) \in Seq(Chars)
        /\ Len(Append(t, c)) = Len(t) + 1
        /\ \A i \in 1..Len(t) : Append(t, c)[i] = t[i]
    BY AppendProperties
  <1>2. HasChinese(t) => HasChinese(Append(t, c))
    <2>1. Len(t) \in Nat
      BY LenProperties
    <2>2. QED
      BY <1>1, <2>1 DEF HasChinese
  <1>3. QED
    BY <1>1, <1>2 DEF CharsPerSec

\* A text of n copies of one character is a sequence of length n.
LEMMA ConstantText ==
    ASSUME NEW n \in Nat, NEW c \in Chars
    PROVE  /\ [i \in 1..n |-> c] \in Seq(Chars)
           /\ Len([i \in 1..n |-> c]) = n
  <1>1. [i \in 1..n |-> c] \in [1..n -> Chars]
    OBVIOUS
  <1>2. [i \in 1..n |-> c] \in Seq(Chars)
    BY <1>1, SeqDef
  <1>3. DOMAIN [i \in 1..n |-> c] = 1..Len([i \in 1..n |-> c])
        /\ Len([i \in 1..n |-> c]) \in Nat
    BY <1>2, LenProperties
  <1>4. QED
    BY <1>2, <1>3

-----------------------------------------------------------------------------
(***************************************************************************)
(* The harness keeps a text of 1 to MaxLen characters and a speed on the  *)
(* grid of TTSRequest.                                                     *)
(***************************************************************************)
LEMMA InitTypeOK == Init => TypeOK
  <1> SUFFICES ASSUME Init PROVE TypeOK
    OBVIOUS
  <1>1. PICK c \in Chars : text = <<c>>
    BY DEF Init
  <1>2. text \in Seq(Chars) /\ Len(text) = 1
    BY <1>1
  <1>3. QED
    BY <1>2, MaxLenAssumption DEF Init, TypeOK

LEMMA NextTypeOK == TypeOK /\ [Next]_vars => TypeOK'
  <1> SUFFICES ASSUME TypeOK, [Next]_vars PROVE TypeOK'
    OBVIOUS
  <1>1. CASE Lengthen
    <2>1. PICK c \in Chars : text' = Append(text, c)
      BY <1>1 DEF Lengthen
    <2>2. text' \in Seq(Chars) /\ Len(text') = Len(text) + 1
      BY <2>1, AppendRate DEF TypeOK
    <2>3. Len(text') \in 1..MaxLen
      <3>1. Len(text) < MaxLen /\ Len(text) \in 1..MaxLen
        BY <1>1 DEF Lengthen, TypeOK
      <3>2. QED
        BY <2>2, <3>1, MaxLenAssumption
    <2>4. speed' \in SpeedQuarters
      BY <1>1 DEF Lengthen, TypeOK
    <2>5. QED
      BY <2>2, <2>3, <2>4 DEF TypeOK
  <1>2. CASE SpeedUp
    BY <1>2 DEF SpeedUp, TypeOK
  <1>3. CASE NewRequest
    <2>1. PICK c \in Chars : text' = <<c>>
      BY <1>3 DEF NewRequest
    <2>2. text' \in Seq(Chars) /\ Len(text') = 1
      BY <2>1
    <2>3. QED
      BY <1>3, <2>2, MaxLenAssumption DEF NewRequest, TypeOK
  <1>4. CASE UNCHANGED vars
    BY <1>4 DEF vars, TypeOK
  <1>5. QED
    BY <1>1, <1>2, <1>3, <1>4 DEF Next

\* The harness's texts and speeds are always in range.
THEOREM TypeCorrect == Spec => []TypeOK
  BY InitTypeOK, NextTypeOK, PTL DEF Spec

-----------------------------------------------------------------------------
(***************************************************************************)
(* The duration of line 98 on the three pairs of inputs the properties    *)
(* compare.                                                                *)
(***************************************************************************)

\* One more character never shortens the clip, even when it is the first
\* CJK character and the rate drops from 5 to 3 characters a second.
LEMMA AppendNotShorter ==
    ASSUME NEW t \in Seq(Chars), NEW c \in Chars, NEW q \in SpeedQuarters
    PROVE  LessEq(Duration(t, q), Duration(Append(t, c), q))
  <1> DEFINE n == Len(t)
             r == CharsPerSec(t)
             r2 == CharsPerSec(Append(t, c))
  <1>1. n \in Nat /\ Len(Append(t, c)) = n + 1 /\ r2 <= r
    BY AppendRate, LenProperties
  <1>2. r \in {3, 5} /\ r2 \in {3, 5} /\ q \in 2..8
    BY RateValues DEF SpeedQuarters
  <1>3. (4 * n) * (r2 * q) <= (4 * n) * (r * q)
    BY <1>1, <1>2
  <1>4. (4 * n) * (r * q) <= (4 * (n + 1)) * (r * q)
    BY <1>1, <1>2
  <1>5. LessEq(AtLeastOneSecond(Ratio(4 * n, r * q)),
               AtLeastOneSecond(Ratio(4 * (n + 1), r2 * q)))
    BY <1>1, <1>2, <1>3, <1>4, ClampMonotone
  <1>6. QED
    BY <1>1, <1>5 DEF Duration

\* A higher speed never lengthens the clip.
LEMMA FasterNotLongerStep ==
    ASSUME NEW t \in Seq(Chars), NEW q \in SpeedQuarters,
           NEW q2 \in SpeedQuarters, q < q2
    PROVE  LessEq(Duration(t, q2), Duration(t, q))
  <1> DEFINE n == Len(t)
             r == CharsPerSec(t)
  <1>1. n \in Nat /\ r \in {3, 5} /\ q \in 2..8 /\ q2 \in 2..8
    BY LenProperties, RateValues DEF SpeedQuarters
  <1>2. (4 * n) * (r * q) <= (4 * n) * (r * q2)
    BY <1>1
  <1>3. QED
    BY <1>1, <1>2, ClampMonotone DEF Duration

\* A text with a CJK character anywhere lasts as long as an all-CJK text
\* of its length.
LEMMA MixedStep ==
    ASSUME NEW t \in Seq(Chars), NEW q \in SpeedQuarters,
           \E i \in 1..Len(t) : t[i] = "cjk"
    PROVE  SameRatio(Duration(t, q), Duration([i \in 1..Len(t) |-> "cjk"], q))
  <1> DEFINE n == Len(t)
             cjk == [i \in 1..n |-> "cjk"]
  <1>1. n \in Nat /\ n >= 1
    BY LenProperties
  <1>2. Len(cjk) = n
    BY <1>1, ConstantText DEF Chars
  <1>3. CharsPerSec(t) = 3
    BY DEF CharsPerSec, HasChinese
  <1>4. CharsPerSec(cjk) = 3
    <2>1. 1 \in 1..Len(cjk) /\ cjk[1] = "cjk"
      BY <1>1, <1>2
    <2>2. QED
      BY <2>1 DEF CharsPerSec, HasChinese
  <1>5. q \in 2..8
    BY DEF SpeedQuarters
  <1>6. (n * 4) * (3 * q) = (n * 4) * (3 * q)
    OBVIOUS
  <1>7. QED
    BY <1>1, <1>2, <1>3, <1>4, <1>5, <1>6, ClampSame DEF Duration

-----------------------------------------------------------------------------
(***************************************************************************)
(* generate_fallback_audio never gives a longer text shorter audio at the *)
(* same speed (main.py lines 96-98, spec 8), for texts of any length.     *)
(***************************************************************************)
THEOREM LongerTextNeverShorter == Spec => LongerTextNotShorter
  <1>1. TypeOK /\ [Next]_vars =>
          [Len(text') > Len(text) /\ speed' = speed =>
             LessEq(Duration(text, speed), Duration(text', speed'))]_vars
    <2> SUFFICES ASSUME TypeOK, [Next]_vars,
                        Len(text') > Len(text), speed' = speed
                 PROVE  LessEq(Duration(text, speed), Duration(text', speed'))
      OBVIOUS
    <2>1. CASE Lengthen
      <3>1. PICK c \in Chars : text' = Append(text, c)
        BY <2>1 DEF Lengthen
      <3>2. QED
        BY <3>1, AppendNotShorter DEF TypeOK
    <2>2. CASE NewRequest
      <3>1. PICK c \in Chars : text' = <<c>>
        BY <2>2 DEF NewRequest
      <3>2. Len(text') = 1 /\ Len(text) >= 1
        BY <3>1 DEF TypeOK
      <3>3. QED
        BY <3>2
    <2>3. CASE SpeedUp \/ UNCHANGED vars
      BY <2>3 DEF SpeedUp, vars
    <2>4. QED
      BY <2>1, <2>2, <2>3 DEF Next
  <1>2. QED
    BY <1>1, TypeCorrect, PTL DEF Spec, LongerTextNotShorter

(***************************************************************************)
(* generate_fallback_audio never gives the same text longer audio at a    *)
(* higher speed (line 98), for texts of any length.                        *)
(***************************************************************************)
THEOREM FasterNeverLonger == Spec => FasterNotLonger
  <1>1. TypeOK /\ TypeOK' =>
          [speed' > speed /\ text' = text =>
             LessEq(Duration(text', speed'), Duration(text, speed))]_vars
    BY FasterNotLongerStep DEF TypeOK, SpeedQuarters
  <1>2. QED
    BY <1>1, TypeCorrect, PTL DEF Spec, FasterNotLonger

(***************************************************************************)
(* has_chinese tests every character (the any() of line 96): at every     *)
(* speed a text with one CJK character in any place lasts exactly as long *)
(* as an all-CJK text of its length, for texts of every length.           *)
(***************************************************************************)
THEOREM AnyCjkSetsRate == Spec => []MixedTextAtCjkRate
  <1>1. TypeOK => MixedTextAtCjkRate
    BY MixedStep DEF TypeOK, MixedTextAtCjkRate
  <1>2. QED
    BY <1>1, TypeCorrect, PTL

=============================================================================
