SPECIFICATION Spec
INVARIANT UntouchedWithoutTarget
