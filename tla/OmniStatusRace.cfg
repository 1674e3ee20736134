SPECIFICATION Spec
INVARIANT StatusViewAtomic
