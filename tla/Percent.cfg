CONSTANTS
    Alphabet <- UriCharacters
    MaxUri = 5
    Builds = {"apart", "beside"}
SPECIFICATION Spec
INVARIANTS
    TypeOK
    WritesBehindReads
    StaysInside
    DecodedAsMeant
CHECK_DEADLOCK FALSE
