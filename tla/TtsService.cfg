CONSTANT MaxTemp = 2
SPECIFICATION Spec
INVARIANT EndpointsAgree
PROPERTY ImplementsSpeechPath
CHECK_DEADLOCK FALSE
