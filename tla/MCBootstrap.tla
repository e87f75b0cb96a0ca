---------------------------- MODULE MCBootstrap ----------------------------
(* Instances of Bootstrap for TLC. *)
EXTENDS Bootstrap

CONSTANTS c1, c2, s1, t1

BothStores == {"local", "redis"}
RedisOnly == {"redis"}
LocalOnly == {"local"}
OneCaller == {c1}
OnePath == {s1}
TwoCallers == {c1, c2}
TwoPaths == {s1, t1}
OwnSeed == [c \in OneCaller |-> OnePath]
OneSeed == [c \in TwoCallers |-> {s1}]
HalfSeed == [c \in TwoCallers |-> IF c = c1 THEN {s1} ELSE {}]
=============================================================================
