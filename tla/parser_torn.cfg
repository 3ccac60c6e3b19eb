\* A record cut short in the AOF, then a whole record appended after it.
CONSTANTS
    Nil = Nil
    Items <- TornItems
    Tails <- NoTail
    MaxItems = 1
SPECIFICATION Spec
PROPERTY StreamEnds
