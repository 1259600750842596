CONSTANTS
    Chars <- MCChars
    Inputs <- MCInputs
    IntMax = 22
    None = None
SPECIFICATION Spec
INVARIANTS
    AgreesWithGrammar
    RoundTrip
    Canonical
\* Decode returns once.
CHECK_DEADLOCK FALSE
