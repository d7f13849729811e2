SPECIFICATION AppSpec
CONSTANTS
    SIZE = 12
    Names <- MCNames
    Values <- MCValues
    Strings <- MCStrings
INVARIANTS
    StaysInside
    RoundTrip
