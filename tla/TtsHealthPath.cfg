\* /health's fallback_mode against the branch /v1/tts takes.
CONSTANT MaxTemp = 1
SPECIFICATION Spec
INVARIANT HealthShowsTtsPath
CHECK_DEADLOCK FALSE
