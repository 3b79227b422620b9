CONSTANTS
    MaxRuns = 3
    Inputs <- MCFewInputs
    NoFile = NoFile
SPECIFICATION Spec
INVARIANTS
    ReportsAgree
\* The model stops after the last of MaxRuns invocations.
CHECK_DEADLOCK FALSE
