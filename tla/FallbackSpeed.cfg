\* The spec's inverse proportionality of duration to speed.
CONSTANT MaxLen = 7
SPECIFICATION Spec
PROPERTY InverselyProportional
