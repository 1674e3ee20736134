\* Texts of up to seven characters, every mix of scripts, every speed on the
\* 0.25 grid of 0.5..2.0; seven characters reach durations past the 1 s clamp
\* in both scripts and put a first CJK character at every place of a text.
CONSTANT MaxLen = 7
SPECIFICATION Spec
 
PROPERTY LongerTextNotShorter
PROPERTY FasterNotLonger
