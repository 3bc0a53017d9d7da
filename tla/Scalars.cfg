SPECIFICATION Spec
CONSTANTS
    Top <- ScaledTop
    Halves <- SomeHalves
CHECK_DEADLOCK FALSE
INVARIANT
    TypeOK
    ScalarMeaning
    OnlyTheseRefused
