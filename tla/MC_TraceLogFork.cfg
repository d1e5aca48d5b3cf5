\* The documented promise, which a forked child breaks.
SPECIFICATION Spec
CONSTANT MaxEvents <- MCEvents
INVARIANT FileIsList
CHECK_DEADLOCK FALSE
