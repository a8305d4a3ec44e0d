CONSTANTS
    GramsPerRev = 5
    Rpm = 60
    Amounts <- MCAmounts
    StepsFor <- MCStepsFor
SPECIFICATION Spec
INVARIANTS
    HogsAtMostOneCruise
    AtMostOneStepShort
PROPERTIES
    SmoothRamp
