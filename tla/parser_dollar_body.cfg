\* One stream item: DollarItems of MC_RespParser.
CONSTANTS
    Nil = Nil
    Items <- DollarItems
    Tails <- NoTail
    MaxItems = 1
SPECIFICATION Spec
INVARIANT RoundTrip
