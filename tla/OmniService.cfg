SPECIFICATION Spec
INVARIANT TypeOK
INVARIANT InferenceUsesLoadedModel
PROPERTY ImplementsLoadAttempt
