SPECIFICATION Spec
CONSTANTS
    MaxLength = 7
    MaxDigits = 2
INVARIANTS
    OptionsAreWords
