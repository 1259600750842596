CONSTANTS
    Chars <- MCChars
    Inputs <- MCInputs
    IntMax = 22
    None = None
SPECIFICATION Spec
INVARIANT DecodesStrictly
\* Decode returns once.
CHECK_DEADLOCK FALSE
