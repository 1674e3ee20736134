SPECIFICATION Spec
INVARIANT OriginalRecoverable
PROPERTY CompletedRunsFix
