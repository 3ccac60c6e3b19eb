--------------------------- MODULE MC_RedisClient ---------------------------
EXTENDS RedisClient

CONSTANTS r1, r2, r3, b1

MCReqs == {r1, r2}
MCBeats == {b1}
NoBeats == {}
\* Three pipelined requests, for channels of one slot.
MCReqs3 == {r1, r2, r3}
=============================================================================
