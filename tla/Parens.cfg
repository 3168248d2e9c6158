SPECIFICATION Spec
CONSTANT MaxLen = 8
INVARIANTS NoDangling OwnedOnce
PROPERTIES Answers CountsTheDepth
