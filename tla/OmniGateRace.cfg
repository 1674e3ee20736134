SPECIFICATION Spec
INVARIANT GateReplyAtomic
