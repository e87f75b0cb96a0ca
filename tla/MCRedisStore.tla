---------------------------- MODULE MCRedisStore ----------------------------
(* RedisStore on a small workspace, for TLC. *)
EXTENDS RedisStore, TLC

CONSTANTS a, b, c, r1

OneName == {a}
TwoNames == {a, b}
ThreeNames == {a, b, c}
NoReader == {}
OneReader == {r1}

Growing == {"create", "edit", "mv", "cd", "flush"}
Changing == {"edit", "mv", "rm", "flush"}
EditsOnly == {"edit"}
EditFlush == {"edit", "flush"}
EditRemove == {"edit", "rm"}
=============================================================================
