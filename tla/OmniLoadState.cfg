SPECIFICATION Spec
PROPERTY LoaderRefinesLoadState
