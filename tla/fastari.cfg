SPECIFICATION CodersSpec
CONSTANTS
    Base = 4
    Half = 16
    Top = 64
    Adapt = 2
    Contexts = 2
    Inputs <- MCInputs
    Variants = {"2013", "safe", "plain"}
INVARIANTS
    TypeOK
    Splittable
    InStep
    RoundTrip
    NoOverread
    ComesBack
    StaysInside
PROPERTIES
    ShiftWidens
