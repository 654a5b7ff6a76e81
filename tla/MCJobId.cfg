\* Every short byte string over the edge bytes.
SPECIFICATION Spec
CONSTANT Inputs <- MCInputs
INVARIANTS LoopValue RoundTrip
CHECK_DEADLOCK FALSE
