SPECIFICATION Spec
CONSTANT Windows = {"answered"}
INVARIANT OneSide
