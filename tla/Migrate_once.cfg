SPECIFICATION Spec
CONSTANT Windows = {}
INVARIANTS TypeOK OverOnOneSide
PROPERTIES VerdictFinal AsleepAgain OneHome MoveEnds
