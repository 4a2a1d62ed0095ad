SPECIFICATION Spec
CONSTANTS
    Plan <- ThePlan
INVARIANTS
    SmokeInv
    FailuresFailTheRun
PROPERTY
    SmokeEnds
CHECK_DEADLOCK FALSE
