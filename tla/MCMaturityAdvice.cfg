CONSTANTS
    MaxRuns = 1
    Inputs <- MCAllInputs
    NoFile = NoFile
SPECIFICATION Spec
INVARIANTS
    TypeOK
    AdviceCoversLowestGap
\* The model stops after the last of MaxRuns invocations.
CHECK_DEADLOCK FALSE
