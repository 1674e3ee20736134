---------------------------- MODULE FallbackAudio ----------------------------
(***************************************************************************)
(* generate_fallback_audio of docker/tts/main.py (94-112): the length of  *)
(* the sine-wave placeholder /v1/tts returns when no model is usable.     *)
(* A text is a sequence of character classes; the speed is counted in    *)
(* quarters, the grid of the range TTSRequest accepts (0.5 to 2.0, line   *)
(* 40); durations are exact rationals [num |-> n, den |-> d], so the      *)
(* model leaves out only the last-bit rounding of the float arithmetic.   *)
(*                                                                         *)
(* The variables are a harness, not program state: they walk through     *)
(* inputs so that the action properties can compare the audio of a text  *)
(* with that of the same text one character longer, or spoken faster.    *)
(***************************************************************************)
EXTENDS Naturals, Sequences

\* The longest text the harness builds.
CONSTANT MaxLen

ASSUME MaxLenAssumption == MaxLen \in Nat \ {0}

\* A character in U+4E00..U+9FFF, or any other character.
Chars == {"cjk", "latin"}

\* Speeds 0.5, 0.75, ..., 2.0 as multiples of 0.25.
SpeedQuarters == 2..8

Ratio(n, d) == [num |-> n, den |-> d]
One == Ratio(1, 1)
LessEq(p, q) == p.num * q.den <= q.num * p.den
SameRatio(p, q) == p.num * q.den = q.num * p.den
Times(p, k) == Ratio(p.num * k, p.den)

-----------------------------------------------------------------------------
\* Mutant: only the first character is tested.
HasChineseFirstOnly(text) == Len(text) > 0 /\ text[1] = "cjk"

\* has_chinese (96): any character of the text in the CJK block.
HasChinese(text) == \E i \in 1..Len(text) : text[i] = "cjk"

\* Mutant: the test asks that every character be CJK.
CharsPerSecAll(text) ==
    IF \A i \in 1..Len(text) : text[i] = "cjk" THEN 3 ELSE 5

\* chars_per_sec (97).
CharsPerSec(text) == IF HasChinese(text) THEN 3 ELSE 5

\* max(1.0, d) of line 98: no clip is shorter than one second.
AtLeastOneSecond(d) == IF LessEq(d, One) THEN One ELSE d

\* Mutant: the speed multiplies instead of dividing.
DurationTimesSpeed(text, q) ==
    AtLeastOneSecond(Ratio(Len(text) * q, CharsPerSec(text) * 4))

(***************************************************************************)
(* duration = max(1.0, len(text) / chars_per_sec / speed) (98), with      *)
(* speed = q/4.                                                            *)
(***************************************************************************)
Duration(text, q) ==
    AtLeastOneSecond(Ratio(Len(text) * 4, CharsPerSec(text) * q))

-----------------------------------------------------------------------------
VARIABLES text, speed

vars == <<text, speed>>

Init ==
    /\ text \in {<<c>> : c \in Chars}
    /\ speed \in SpeedQuarters

\* The same request with one more character.
Lengthen ==
    /\ Len(text) < MaxLen
    /\ \E c \in Chars : text' = Append(text, c)
    /\ UNCHANGED speed

\* The same text at a higher speed.
SpeedUp ==
    /\ \E q \in SpeedQuarters : q > speed /\ speed' = q
    /\ UNCHANGED text

\* An unrelated request.
NewRequest ==
    /\ text' \in {<<c>> : c \in Chars}
    /\ speed' \in SpeedQuarters

Next == Lengthen \/ SpeedUp \/ NewRequest

Spec == Init /\ [][Next]_vars

-----------------------------------------------------------------------------
\* Every variable holds a value of its kind.
TypeOK ==
    /\ text \in Seq(Chars)
    /\ Len(text) \in 1..MaxLen
    /\ speed \in SpeedQuarters

(***************************************************************************)
(* A longer text never gets shorter audio at the same speed (spec 8),     *)
(* even when the added character switches the text to the CJK rate       *)
(* (lines 96-98).                                                          *)
(***************************************************************************)
LongerTextNotShorter ==
    [][Len(text') > Len(text) /\ speed' = speed =>
         LessEq(Duration(text, speed), Duration(text', speed'))]_vars

(***************************************************************************)
(* A faster speed never gives longer audio for the same text (line 98).   *)
(***************************************************************************)
FasterNotLonger ==
    [][speed' > speed /\ text' = text =>
         LessEq(Duration(text', speed'), Duration(text, speed))]_vars

(***************************************************************************)
(* One CJK character anywhere puts the whole text at the CJK rate: a text *)
(* with a CJK character in any place lasts exactly as long as a text of   *)
(* CJK characters only, of the same length, at every speed, the 1 s clamp *)
(* included (the any() of line 96 and chars_per_sec of line 97).          *)
(***************************************************************************)
MixedTextAtCjkRate ==
    (\E i \in 1..Len(text) : text[i] = "cjk") =>
        SameRatio(Duration(text, speed),
                  Duration([i \in 1..Len(text) |-> "cjk"], speed))

(***************************************************************************)
(* Spec 8: the duration is inversely proportional to speed, so duration   *)
(* times speed does not depend on the speed.                              *)
(***************************************************************************)
InverselyProportional ==
    [][text' = text /\ speed' # speed =>
         SameRatio(Times(Duration(text', speed'), speed'),
                   Times(Duration(text, speed), speed))]_vars

=============================================================================
