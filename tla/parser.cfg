\* Streams of up to two items and a tail: frames of every kind, malformed lines,
\* and truncated endings.
CONSTANTS
    Nil = Nil
    Items <- MCItems
    Tails <- MCTails
    MaxItems = 2
SPECIFICATION Spec
INVARIANT RoundTrip
PROPERTY StreamEnds
