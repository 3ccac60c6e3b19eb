----------------------------- MODULE MC_Keyspace -----------------------------
EXTENDS Keyspace, TLC

CONSTANTS a, b, v1

MCKeys == {a, b}
MCVals == {v1}

\* Every command takes any key: the keys are interchangeable.
KeySymmetry == Permutations(MCKeys)

\* Ops without FLUSHDB and KEYS, and with each of them.
KeyOps == {"set", "del", "exists", "type", "rename", "renamenx", "expire",
           "expireat", "pexpire", "pexpireat", "ttl", "pttl", "persist"}
AllOps == KeyOps \cup {"flushdb", "keys"}
SetFlushOps == {"set", "flushdb"}

\* Arguments of the EXPIRE family: now, one unit ahead, and one in the past.
ArgsPast == {-1, 0, 1}
ArgsNowAhead == {0, 1}
===============================================================================
