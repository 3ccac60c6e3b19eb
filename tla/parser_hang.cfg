\* One stream item: EmptyArgItems of MC_RespParser.
CONSTANTS
    Nil = Nil
    Items <- EmptyArgItems
    Tails <- NoTail
    MaxItems = 1
SPECIFICATION Spec
PROPERTY StreamEnds
\* parse0 dies in a recovered panic and the consumer waits forever.
CHECK_DEADLOCK FALSE
