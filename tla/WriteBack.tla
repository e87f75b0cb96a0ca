------------------------------ MODULE WriteBack ------------------------------
(***************************************************************************)
(* What the write-back of a workspace promises, whatever the locks, the    *)
(* batches, the temporary ids and the crashes: the database holds, of every*)
(* node, nothing or a version that the node has had; persisting brings it  *)
(* to the live version and never back to an older one.                     *)
(***************************************************************************)
EXTENDS Naturals

CONSTANT Keys       \* the nodes that ever exist

VARIABLES
    live,           \* live[k]: the version of node k in the runtime, 0 if none
    durable         \* durable[k]: its version in the database, 0 if none

wvars == <<live, durable>>

WInit ==
    /\ live \in [Keys -> Nat]
    /\ durable = live

\* A node is created or changed in the runtime.
Change(k) ==
    /\ live' = [live EXCEPT ![k] = @ + 1]
    /\ UNCHANGED durable

\* A change that is written to the database with it.
ChangeThrough(k) ==
    /\ durable[k] > 0
    /\ live[k] > 0
    /\ live' = [live EXCEPT ![k] = @ + 1]
    /\ durable' = [durable EXCEPT ![k] = live[k] + 1]

\* A node is removed from both, if it has reached the database at all.
Drop(k) ==
    /\ live[k] > 0
    /\ live' = [live EXCEPT ![k] = 0]
    /\ durable' = [durable EXCEPT ![k] = 0]

\* Some nodes are persisted as they are.
PersistSome ==
    /\ \E S \in SUBSET {k \in Keys : live[k] > 0} :
          durable' = [k \in Keys |-> IF k \in S THEN live[k] ELSE durable[k]]
    /\ UNCHANGED live

WNext ==
    \/ \E k \in Keys : Change(k) \/ ChangeThrough(k) \/ Drop(k)
    \/ PersistSome

WSpec == WInit /\ [][WNext]_wvars
=============================================================================
