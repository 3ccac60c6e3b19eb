\* One stream item: NullArrayItems of MC_RespParser.
CONSTANTS
    Nil = Nil
    Items <- NullArrayItems
    Tails <- NoTail
    MaxItems = 1
SPECIFICATION Spec
INVARIANT RoundTrip
