\* The sample format of real-model audio.
CONSTANT MaxTemp = 1
SPECIFICATION Spec
INVARIANT RealAudioInt16
CHECK_DEADLOCK FALSE
