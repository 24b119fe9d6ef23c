\* Any text, and what plugins write.
SPECIFICATION Spec
CONSTANTS
    MaxText = 5
    Texts <- AnyText
    Written <- AnyWritten
    Spacing <- OneOrTwoSpaces
INVARIANTS
    TypeOK
    TokensAreSplit
    RoundTrip
