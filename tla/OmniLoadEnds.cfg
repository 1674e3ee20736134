SPECIFICATION Spec
PROPERTY LoadEnds
