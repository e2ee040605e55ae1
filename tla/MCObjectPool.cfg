SPECIFICATION Spec
CONSTANT MaxAvailable = 20
INVARIANT SurplusIsUnused
