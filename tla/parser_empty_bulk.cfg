\* One stream item: EmptyBulkItems of MC_RespParser.
CONSTANTS
    Nil = Nil
    Items <- EmptyBulkItems
    Tails <- NoTail
    MaxItems = 1
SPECIFICATION Spec
INVARIANT RoundTrip
