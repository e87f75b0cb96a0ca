----------------------- MODULE CheckpointQueue_proofs -----------------------
(* Proofs about CheckpointQueue: its type invariant, that no wake-up is     *)
(* lost, that the enqueued set tells the truth, and that the set of dirty   *)
(* workspaces is exact while the lock is free.                              *)
EXTENDS CheckpointQueue, TLAPS

-----------------------------------------------------------------------------
(* The inductive invariant.                                                 *)

Schedule == {"check", "due", "flag", "push"}

\* Which steps belong to which kind of thread, and where each goes on.
ControlOk(t) ==
    /\ t \in Clients /\ pc[t] # "idle" =>
          /\ ret[t] = "unlock"
          /\ pc[t] \in {"lock", "write", "mark", "unlock"} \cup Schedule
    /\ t \notin Clients => pc[t] # "write"
    /\ pc[t] \in {"dead", "ripe", "requeue"} => t \in Workers
    /\ t \notin Clients /\ pc[t] \in {"dead", "ripe", "requeue", "lock", "snap", "commit",
                                      "confirm", "mark", "unmark", "unlock"}
          => ret[t] = "forgive"
    /\ t \notin Clients /\ pc[t] \in Schedule => ret[t] \in {"forgive", "done", "idle"}
    /\ pc[t] \in {"forgive", "absolve"} => ret[t] \in {"forgive", "done"}
    /\ pc[t] \in {"unflag", "undue"} => ret[t] \in {"load", "record", "idle"}
    /\ pc[t] = "load" => ret[t] = "load"
    /\ pc[t] = "done" => ret[t] = "done"
    /\ pc[t] = "record" => ret[t] \in {"record", "done"}
    /\ pc[t] = "bury" => ret[t] = "idle"

Control == \A t \in Threads : ControlOk(t)

\* The steps made while the thread holds the workspace lock.
InLock(t) ==
    \/ pc[t] \in {"write", "mark", "snap", "commit", "confirm", "unmark", "unlock"}
    \/ pc[t] \in Schedule \cup {"forgive", "absolve"} /\ ret[t] \in {"unlock", "forgive"}

Exclusion == \A t \in Threads : InLock(t) => lock[cur[t]] = t

\* A saved mirror is dirty before its workspace is marked, clean before the
\* mark is taken away.
MarkerOk(t) ==
    /\ pc[t] = "mark" => dirty[cur[t]] > 0
    /\ pc[t] = "unmark" => dirty[cur[t]] = 0

Markers == \A t \in Threads : MarkerOk(t)

\* The set of dirty workspaces is exact, or the holder of the lock is about
\* to bring it up to date.
Marked(w) == marked[w] <=> dirty[w] > 0
Marks(t, w) == cur[t] = w /\ lock[w] = t /\ pc[t] \in {"mark", "unmark"}

Marking == \A w \in Workspaces : Marked(w) \/ \E t \in Threads : Marks(t, w)

\* Only a dead-lettered workspace leaves the schedule for good.
Burial ==
    /\ \A w \in Workspaces : dead[w] => buried[w]
    /\ \A t \in Threads : pc[t] \in {"unflag", "undue"} /\ ret[t] = "idle" => buried[cur[t]]

\* A worker that has popped a token and has not yet cleared the schedule.
Serves(t) == t \in Workers /\ pc[t] # "idle" /\ ret[t] = "forgive"

\* The thread holds the token that the enqueued set speaks of.
Carries(t) == pc[t] = "push" \/ Serves(t) \/ (t \in Workers /\ pc[t] = "unflag")

Tokens ==
    \A w \in Workspaces :
        enqueued[w] => Queued(w) \/ \E t \in Threads : cur[t] = w /\ Carries(t)

\* The thread will look at the mirror again or enqueue it.
Owes(t) ==
    \/ pc[t] \in Schedule \cup {"mark", "load", "record", "bury"}
    \/ pc[t] \in {"unflag", "undue"} /\ ret[t] \in {"load", "record"}
    \/ Serves(t)

Wakeups ==
    \A w \in Workspaces :
        dirty[w] > 0 /\ ~buried[w] =>
            enqueued[w] \/ Queued(w) \/ \E t \in Threads : cur[t] = w /\ Owes(t)

IInv ==
    /\ TypeOK /\ Control /\ Exclusion /\ Markers /\ Marking
    /\ Burial /\ Tokens /\ Wakeups

\* What t alone may know of w: it holds its token, keeps it awake.
Held(t, w) == Queued(w) \/ (cur[t] = w /\ Carries(t))
Awake(t, w) == enqueued[w] \/ Queued(w) \/ (cur[t] = w /\ Owes(t))

\* Nobody but t changes its control state.
Alone(t) ==
    \A s \in Threads \ {t} : pc'[s] = pc[s] /\ cur'[s] = cur[s] /\ ret'[s] = ret[s]

-----------------------------------------------------------------------------
(* Steps preserve the parts of the invariant.                               *)

\* What a save makes of the dirty entries, and what a confirmation leaves.
LEMMA WriteIs ==
    ASSUME TypeOK, NEW t \in Threads, Write(t)
    PROVE  /\ dirty' \in [Workspaces -> Nat] /\ temps' \in [Workspaces -> Nat]
           /\ \A w \in Workspaces : temps'[w] <= dirty'[w]
           /\ dirty'[cur[t]] > 0
           /\ pc' = [pc EXCEPT ![t] = "mark"]
<1>1. PICK entries \in 1..MaxEntries : \E new \in 0..entries :
          /\ dirty' = [dirty EXCEPT ![cur[t]] = @ + entries]
          /\ temps' = [temps EXCEPT ![cur[t]] = @ + new]
    BY DEF Write
<1>2. PICK new \in 0..entries :
          /\ dirty' = [dirty EXCEPT ![cur[t]] = @ + entries]
          /\ temps' = [temps EXCEPT ![cur[t]] = @ + new]
    BY <1>1
<1>3. entries \in Nat /\ entries > 0 /\ new \in Nat /\ new <= entries
    BY LimitAssumption
<1>4. /\ cur[t] \in Workspaces
      /\ dirty \in [Workspaces -> Nat] /\ temps \in [Workspaces -> Nat]
      /\ \A w \in Workspaces : temps[w] <= dirty[w]
    BY DEF TypeOK
<1>5. /\ dirty' \in [Workspaces -> Nat] /\ temps' \in [Workspaces -> Nat]
      /\ dirty'[cur[t]] = dirty[cur[t]] + entries
      /\ temps'[cur[t]] = temps[cur[t]] + new
      /\ \A w \in Workspaces \ {cur[t]} : dirty'[w] = dirty[w] /\ temps'[w] = temps[w]
    BY <1>2, <1>3, <1>4
<1>6. QED
    BY <1>3, <1>4, <1>5 DEF Write, Goto

LEMMA ConfirmIs ==
    ASSUME TypeOK, NEW t \in Threads, Confirm(t)
    PROVE  /\ dirty' \in [Workspaces -> Nat]
           /\ \A w \in Workspaces : temps[w] <= dirty'[w]
           /\ pc' = [pc EXCEPT ![t] = IF dirty'[cur[t]] > 0 THEN "mark" ELSE "unmark"]
<1>1. PICK left \in Left(cur[t]) :
          /\ dirty' = [dirty EXCEPT ![cur[t]] = left]
          /\ pc' = [pc EXCEPT ![t] = IF left > 0 THEN "mark" ELSE "unmark"]
    BY DEF Confirm, Goto
<1>2. /\ cur[t] \in Workspaces
      /\ dirty \in [Workspaces -> Nat] /\ temps \in [Workspaces -> Nat]
      /\ \A w \in Workspaces : temps[w] <= dirty[w]
    BY DEF TypeOK
<1>3. left \in Nat /\ temps[cur[t]] <= left
    BY <1>2 DEF Left
<1>4. /\ dirty' \in [Workspaces -> Nat] /\ dirty'[cur[t]] = left
      /\ \A w \in Workspaces \ {cur[t]} : dirty'[w] = dirty[w]
    BY <1>1, <1>2, <1>3
<1>5. QED
    BY <1>1, <1>2, <1>3, <1>4

\* Every step preserves the type invariant.
LEMMA TypeStep ==
    ASSUME TypeOK, Next
    PROVE  TypeOK'
<1> USE LimitAssumption, ThreadAssumption
<1>1. ASSUME NEW t \in Threads, NEW v \in Workspaces, StartEdit(t, v) PROVE TypeOK'
    <2>1. "lock" \in Labels /\ "unlock" \in Returns
        BY DEF Labels, Returns
    <2>2. pc' \in [Threads -> Labels]
        BY <1>1, <2>1 DEF StartEdit, Goto, TypeOK
    <2>3. ret' \in [Threads -> Returns]
        BY <1>1, <2>1 DEF StartEdit, TypeOK
    <2>4. cur' \in [Threads -> Workspaces]
        BY <1>1 DEF StartEdit, TypeOK
    <2>5. calls' \in [Threads -> 0..MaxCalls]
        <3>1. calls[t] \in 0..MaxCalls /\ calls[t] < MaxCalls
            BY <1>1 DEF StartEdit, TypeOK
        <3>2. calls[t] + 1 \in 0..MaxCalls
            BY <3>1
        <3>3. QED
            BY <1>1, <3>2 DEF StartEdit, TypeOK
    <2>6. QED
        BY <1>1, <2>2, <2>3, <2>4, <2>5 DEF StartEdit, sched, failures, TypeOK
<1>2. ASSUME NEW t \in Threads, NEW v \in Workspaces, StartFlush(t, v) PROVE TypeOK'
    <2>1. "lock" \in Labels /\ "forgive" \in Returns
        BY DEF Labels, Returns
    <2>2. pc' \in [Threads -> Labels]
        BY <1>2, <2>1 DEF StartFlush, Goto, TypeOK
    <2>3. ret' \in [Threads -> Returns]
        BY <1>2, <2>1 DEF StartFlush, TypeOK
    <2>4. cur' \in [Threads -> Workspaces]
        BY <1>2 DEF StartFlush, TypeOK
    <2>5. calls' \in [Threads -> 0..MaxCalls]
        <3>1. calls[t] \in 0..MaxCalls /\ calls[t] < MaxCalls
            BY <1>2 DEF StartFlush, TypeOK
        <3>2. calls[t] + 1 \in 0..MaxCalls
            BY <3>1
        <3>3. QED
            BY <1>2, <3>2 DEF StartFlush, TypeOK
    <2>6. QED
        BY <1>2, <2>2, <2>3, <2>4, <2>5 DEF StartFlush, sched, failures, TypeOK
<1>3. ASSUME NEW t \in Threads, Pop(t) PROVE TypeOK'
    <2>1. "dead" \in Labels /\ "forgive" \in Returns
        BY DEF Labels, Returns
    <2>2. queue \in Seq(Workspaces) /\ queue # <<>>
        BY <1>3 DEF Pop, TypeOK
    <2>3. Head(queue) \in Workspaces /\ Tail(queue) \in Seq(Workspaces)
        BY <2>2
    <2>4. pc' \in [Threads -> Labels] /\ ret' \in [Threads -> Returns]
        BY <1>3, <2>1 DEF Pop, Goto, TypeOK
    <2>5. cur' \in [Threads -> Workspaces] /\ queue' \in Seq(Workspaces)
        BY <1>3, <2>3 DEF Pop, TypeOK
    <2>6. QED
        BY <1>3, <2>4, <2>5 DEF Pop, failures, TypeOK
<1>4. ASSUME NEW t \in Threads, CheckDead(t) PROVE TypeOK'
    <2>1. "unflag" \in Labels /\ "ripe" \in Labels
        BY DEF Labels
    <2>2. pc' \in [Threads -> Labels]
        <3>1. pc' = [pc EXCEPT ![t] = "unflag"] \/ pc' = [pc EXCEPT ![t] = "ripe"]
            BY <1>4 DEF CheckDead, Goto
        <3>2. QED
            BY <2>1, <3>1 DEF TypeOK
    <2>3. "idle" \in Returns
        BY DEF Returns
    <2>4. ret' \in [Threads -> Returns]
        <3>1. ret' = [ret EXCEPT ![t] = "idle"] \/ ret' = ret
            BY <1>4 DEF CheckDead
        <3>2. QED
            BY <2>3, <3>1 DEF TypeOK
    <2>5. QED
        BY <1>4, <2>2, <2>4 DEF CheckDead, sched, failures, TypeOK
<1>5. ASSUME NEW t \in Threads, CheckDue(t) PROVE TypeOK'
    BY <1>5 DEF CheckDue, Goto, sched, failures, TypeOK, Labels, Returns, Threads
<1>6. ASSUME NEW t \in Threads, Requeue(t) PROVE TypeOK'
    BY <1>6 DEF Requeue, Goto, sched, failures, TypeOK, Labels, Returns, Threads
<1>7. ASSUME NEW t \in Threads, Acquire(t) PROVE TypeOK'
    BY <1>7 DEF Acquire, Goto, sched, failures, TypeOK, Labels, Returns, Threads
<1>8. ASSUME NEW t \in Threads, GiveUp(t) PROVE TypeOK'
    <2>1. "idle" \in Labels /\ "unflag" \in Labels
        BY DEF Labels
    <2>2. pc' \in [Threads -> Labels]
        BY <1>8, <2>1 DEF GiveUp, Goto, TypeOK
    <2>3. "load" \in Returns
        BY DEF Returns
    <2>4. ret' \in [Threads -> Returns]
        BY <1>8, <2>3 DEF GiveUp, TypeOK
    <2>5. QED
        BY <1>8, <2>2, <2>4 DEF GiveUp, sched, failures, TypeOK
<1>9. ASSUME NEW t \in Threads, Unlock(t) PROVE TypeOK'
    <2>1. "idle" \in Labels /\ "unflag" \in Labels
        BY DEF Labels
    <2>2. pc' \in [Threads -> Labels]
        BY <1>9, <2>1 DEF Unlock, Goto, TypeOK
    <2>3. "record" \in Returns /\ "load" \in Returns
        BY DEF Returns
    <2>4. ret' \in [Threads -> Returns]
        BY <1>9, <2>3 DEF Unlock, TypeOK
    <2>5. QED
        BY <1>9, <2>2, <2>4 DEF Unlock, sched, failures, TypeOK
<1>10. ASSUME NEW t \in Threads, Write(t) PROVE TypeOK'
    <2>1. pc' \in [Threads -> Labels]
        <3>1. "mark" \in Labels
            BY DEF Labels
        <3>2. QED
            BY <1>10, <3>1, WriteIs DEF TypeOK
    <2>2. UNCHANGED <<marked, lock, sched, failures, cur, ret, ok, more, calls>>
        BY <1>10 DEF Write
    <2>3. QED
        BY <1>10, <2>1, <2>2, WriteIs DEF sched, failures, TypeOK
<1>11. ASSUME NEW t \in Threads, Mark(t) PROVE TypeOK'
    BY <1>11 DEF Mark, Goto, sched, failures, TypeOK, Labels, Returns, Threads
<1>12. ASSUME NEW t \in Threads, EnqueueCheck(t) PROVE TypeOK'
    <2>1. ret[t] \in Labels /\ "due" \in Labels
        BY DEF TypeOK, Labels, Returns
    <2>2. pc' \in [Threads -> Labels]
        BY <1>12, <2>1 DEF EnqueueCheck, Return, Goto, TypeOK
    <2>3. QED
        BY <1>12, <2>2 DEF EnqueueCheck, sched, failures, TypeOK
<1>13. ASSUME NEW t \in Threads, EnqueueDue(t) PROVE TypeOK'
    BY <1>13 DEF EnqueueDue, Goto, sched, failures, TypeOK, Labels, Returns, Threads
<1>14. ASSUME NEW t \in Threads, EnqueueFlag(t) PROVE TypeOK'
    <2>1. ret[t] \in Labels /\ "push" \in Labels
        BY DEF TypeOK, Labels, Returns
    <2>2. pc' \in [Threads -> Labels]
        BY <1>14, <2>1 DEF EnqueueFlag, Return, Goto, TypeOK
    <2>3. QED
        BY <1>14, <2>2 DEF EnqueueFlag, failures, TypeOK
<1>15. ASSUME NEW t \in Threads, EnqueuePush(t) PROVE TypeOK'
    BY <1>15 DEF EnqueuePush, Return, Goto, sched, failures, TypeOK, Labels, Returns,
       Threads
<1>16. ASSUME NEW t \in Threads, Snapshot(t) PROVE TypeOK'
    <2>1. "unlock" \in Labels /\ "commit" \in Labels
        BY DEF Labels
    <2>2. pc' \in [Threads -> Labels]
        BY <1>16, <2>1 DEF Snapshot, Goto, TypeOK
    <2>3. QED
        BY <1>16, <2>2 DEF Snapshot, sched, failures, TypeOK
<1>17. ASSUME NEW t \in Threads, CommitOk(t) PROVE TypeOK'
    BY <1>17 DEF CommitOk, Goto, sched, failures, TypeOK, Labels, Returns, Threads
<1>18. ASSUME NEW t \in Threads, CommitFails(t) PROVE TypeOK'
    BY <1>18 DEF CommitFails, Goto, sched, failures, TypeOK, Labels, Returns, Threads
<1>19. ASSUME NEW t \in Threads, Confirm(t) PROVE TypeOK'
    <2>1. pc' \in [Threads -> Labels]
        <3>1. "mark" \in Labels /\ "unmark" \in Labels
            BY DEF Labels
        <3>2. QED
            BY <1>19, <3>1, ConfirmIs DEF TypeOK
    <2>2. UNCHANGED <<temps, marked, lock, sched, failures, cur, ret, ok, more, calls>>
        BY <1>19 DEF Confirm
    <2>3. QED
        BY <1>19, <2>1, <2>2, ConfirmIs DEF sched, failures, TypeOK
<1>20. ASSUME NEW t \in Threads, Unmark(t) PROVE TypeOK'
    BY <1>20 DEF Unmark, Goto, sched, failures, TypeOK, Labels, Returns, Threads
<1>21. ASSUME NEW t \in Threads, Forgive(t) PROVE TypeOK'
    <2>1. "absolve" \in Labels
        BY DEF Labels
    <2>2. pc' \in [Threads -> Labels]
        BY <1>21, <2>1 DEF Forgive, Goto, TypeOK
    <2>3. retry' \in [Workspaces -> 0..MaxFailures]
        BY <1>21 DEF Forgive, TypeOK
    <2>4. QED
        BY <1>21, <2>2, <2>3 DEF Forgive, sched, TypeOK
<1>22. ASSUME NEW t \in Threads, Absolve(t) PROVE TypeOK'
    BY <1>22 DEF Absolve, Goto, sched, failures, TypeOK, Labels, Returns, Threads
<1>23. ASSUME NEW t \in Threads, Record(t) PROVE TypeOK'
    <2> DEFINE count == IF retry[cur[t]] < MaxFailures THEN retry[cur[t]] + 1 ELSE MaxFailures
    <2>1. cur[t] \in Workspaces /\ retry[cur[t]] \in 0..MaxFailures
        BY DEF TypeOK
    <2>2. count \in 0..MaxFailures
        BY <2>1, LimitAssumption
    <2>3. retry' = [retry EXCEPT ![cur[t]] = count]
        BY <1>23 DEF Record
    <2>4. retry' \in [Workspaces -> 0..MaxFailures]
        BY <2>2, <2>3 DEF TypeOK
    <2>5. pc' \in [Threads -> Labels]
        BY <1>23 DEF Record, Goto, TypeOK, Labels
    <2>6. ret' \in [Threads -> Returns]
        BY <1>23 DEF Record, TypeOK, Returns
    <2>7. QED
        BY <1>23, <2>4, <2>5, <2>6 DEF Record, sched, TypeOK
<1>24. ASSUME NEW t \in Threads, Bury(t) PROVE TypeOK'
    BY <1>24 DEF Bury, Goto, sched, failures, TypeOK, Labels, Returns, Threads
<1>25. ASSUME NEW t \in Threads, ClearFlag(t) PROVE TypeOK'
    BY <1>25 DEF ClearFlag, Goto, sched, failures, TypeOK, Labels, Returns, Threads
<1>26. ASSUME NEW t \in Threads, ClearDue(t) PROVE TypeOK'
    BY <1>26 DEF ClearDue, Return, Goto, sched, failures, TypeOK, Labels, Returns, Threads
<1>27. ASSUME NEW t \in Threads, LookAgain(t) PROVE TypeOK'
    BY <1>27 DEF LookAgain, Goto, sched, failures, TypeOK, Labels, Returns, Threads
<1>28. ASSUME NEW t \in Threads, Done(t) PROVE TypeOK'
    BY <1>28 DEF Done, Goto, sched, failures, TypeOK, Labels, Returns, Threads
<1>29. ASSUME NEW v \in Workspaces, Tick(v) PROVE TypeOK'
    BY <1>29 DEF Tick, sched, failures, TypeOK, Labels, Returns, Threads
<1>30. QED
    BY <1>1, <1>2, <1>3, <1>4, <1>5, <1>6, <1>7, <1>8, <1>9, <1>10, <1>11, <1>12, <1>13,
       <1>14, <1>15, <1>16, <1>17, <1>18, <1>19, <1>20, <1>21, <1>22, <1>23, <1>24, <1>25,
          <1>26, <1>27, <1>28, <1>29 DEF Next, Start, Advance

\* Every step preserves the control invariant.
LEMMA ControlStep ==
    ASSUME TypeOK, Control, Next
    PROVE  Control'
<1> SUFFICES ASSUME NEW s \in Threads PROVE ControlOk(s)'
    BY DEF Control
<1> USE ThreadAssumption
<1>1. ASSUME NEW t \in Threads, NEW v \in Workspaces, StartEdit(t, v) PROVE ControlOk(s)'
    BY <1>1 DEF StartEdit, Goto, sched, failures, TypeOK, Labels, Returns, Control,
       ControlOk, Schedule, Threads
<1>2. ASSUME NEW t \in Threads, NEW v \in Workspaces, StartFlush(t, v) PROVE ControlOk(s)'
    BY <1>2 DEF StartFlush, Goto, sched, failures, TypeOK, Labels, Returns, Control,
       ControlOk, Schedule, Threads
<1>3. ASSUME NEW t \in Threads, Pop(t) PROVE ControlOk(s)'
    BY <1>3 DEF Pop, Goto, sched, failures, TypeOK, Labels, Returns, Control, ControlOk,
       Schedule, Threads
<1>4. ASSUME NEW t \in Threads, CheckDead(t) PROVE ControlOk(s)'
    <2>1. CASE s = t
        BY <1>4, <2>1 DEF CheckDead, Goto, sched, failures, TypeOK, Labels, Returns,
           Control, ControlOk, Schedule, Threads
    <2>2. CASE s # t
        BY <1>4, <2>2 DEF CheckDead, Goto, sched, failures, TypeOK, Labels, Returns,
           Control, ControlOk, Schedule, Threads
    <2>3. QED
        BY <2>1, <2>2
<1>5. ASSUME NEW t \in Threads, CheckDue(t) PROVE ControlOk(s)'
    BY <1>5 DEF CheckDue, Goto, sched, failures, TypeOK, Labels, Returns, Control,
       ControlOk, Schedule, Threads
<1>6. ASSUME NEW t \in Threads, Requeue(t) PROVE ControlOk(s)'
    BY <1>6 DEF Requeue, Goto, sched, failures, TypeOK, Labels, Returns, Control,
       ControlOk, Schedule, Threads
<1>7. ASSUME NEW t \in Threads, Acquire(t) PROVE ControlOk(s)'
    BY <1>7 DEF Acquire, Goto, sched, failures, TypeOK, Labels, Returns, Control,
       ControlOk, Schedule, Threads
<1>8. ASSUME NEW t \in Threads, GiveUp(t) PROVE ControlOk(s)'
    <2>1. CASE s = t
        BY <1>8, <2>1 DEF GiveUp, Goto, sched, failures, TypeOK, Labels, Returns, Control,
           ControlOk, Schedule, Threads
    <2>2. CASE s # t
        BY <1>8, <2>2 DEF GiveUp, Goto, sched, failures, TypeOK, Labels, Returns, Control,
           ControlOk, Schedule, Threads
    <2>3. QED
        BY <2>1, <2>2
<1>9. ASSUME NEW t \in Threads, Unlock(t) PROVE ControlOk(s)'
    <2>1. CASE s = t
        BY <1>9, <2>1 DEF Unlock, Goto, sched, failures, TypeOK, Labels, Returns, Control,
           ControlOk, Schedule, Threads
    <2>2. CASE s # t
        BY <1>9, <2>2 DEF Unlock, Goto, sched, failures, TypeOK, Labels, Returns, Control,
           ControlOk, Schedule, Threads
    <2>3. QED
        BY <2>1, <2>2
<1>10. ASSUME NEW t \in Threads, Write(t) PROVE ControlOk(s)'
    BY <1>10 DEF Write, Goto, sched, failures, TypeOK, Labels, Returns, Control, ControlOk,
       Schedule, Threads
<1>11. ASSUME NEW t \in Threads, Mark(t) PROVE ControlOk(s)'
    BY <1>11 DEF Mark, Goto, sched, failures, TypeOK, Labels, Returns, Control, ControlOk,
       Schedule, Threads
<1>12. ASSUME NEW t \in Threads, EnqueueCheck(t) PROVE ControlOk(s)'
    BY <1>12 DEF EnqueueCheck, Return, Goto, sched, failures, TypeOK, Labels, Returns,
       Control, ControlOk, Schedule, Threads
<1>13. ASSUME NEW t \in Threads, EnqueueDue(t) PROVE ControlOk(s)'
    BY <1>13 DEF EnqueueDue, Goto, sched, failures, TypeOK, Labels, Returns, Control,
       ControlOk, Schedule, Threads
<1>14. ASSUME NEW t \in Threads, EnqueueFlag(t) PROVE ControlOk(s)'
    BY <1>14 DEF EnqueueFlag, Return, Goto, sched, failures, TypeOK, Labels, Returns,
       Control, ControlOk, Schedule, Threads
<1>15. ASSUME NEW t \in Threads, EnqueuePush(t) PROVE ControlOk(s)'
    BY <1>15 DEF EnqueuePush, Return, Goto, sched, failures, TypeOK, Labels, Returns,
       Control, ControlOk, Schedule, Threads
<1>16. ASSUME NEW t \in Threads, Snapshot(t) PROVE ControlOk(s)'
    <2>1. CASE s = t
        <3>1. /\ pc'[t] \in {"unlock", "commit"} /\ ret' = ret /\ pc[t] = "snap"
            BY <1>16 DEF Snapshot, Goto, TypeOK
        <3>2. ControlOk(t)
            BY DEF Control
        <3>3. QED
            BY <2>1, <3>1, <3>2 DEF ControlOk, Schedule
    <2>2. CASE s # t
        BY <1>16, <2>2 DEF Snapshot, Goto, TypeOK, Control, ControlOk
    <2>3. QED
        BY <2>1, <2>2
<1>17. ASSUME NEW t \in Threads, CommitOk(t) PROVE ControlOk(s)'
    BY <1>17 DEF CommitOk, Goto, sched, failures, TypeOK, Labels, Returns, Control,
       ControlOk, Schedule, Threads
<1>18. ASSUME NEW t \in Threads, CommitFails(t) PROVE ControlOk(s)'
    BY <1>18 DEF CommitFails, Goto, sched, failures, TypeOK, Labels, Returns, Control,
       ControlOk, Schedule, Threads
<1>19. ASSUME NEW t \in Threads, Confirm(t) PROVE ControlOk(s)'
    BY <1>19 DEF Confirm, Goto, sched, failures, TypeOK, Labels, Returns, Control,
       ControlOk, Schedule, Threads
<1>20. ASSUME NEW t \in Threads, Unmark(t) PROVE ControlOk(s)'
    BY <1>20 DEF Unmark, Goto, sched, failures, TypeOK, Labels, Returns, Control,
       ControlOk, Schedule, Threads
<1>21. ASSUME NEW t \in Threads, Forgive(t) PROVE ControlOk(s)'
    BY <1>21 DEF Forgive, Goto, sched, failures, TypeOK, Labels, Returns, Control,
       ControlOk, Schedule, Threads
<1>22. ASSUME NEW t \in Threads, Absolve(t) PROVE ControlOk(s)'
    BY <1>22 DEF Absolve, Goto, sched, failures, TypeOK, Labels, Returns, Control,
       ControlOk, Schedule, Threads
<1>23. ASSUME NEW t \in Threads, Record(t) PROVE ControlOk(s)'
    BY <1>23 DEF Record, Goto, sched, failures, TypeOK, Labels, Returns, Control,
       ControlOk, Schedule, Threads
<1>24. ASSUME NEW t \in Threads, Bury(t) PROVE ControlOk(s)'
    BY <1>24 DEF Bury, Goto, sched, failures, TypeOK, Labels, Returns, Control, ControlOk,
       Schedule, Threads
<1>25. ASSUME NEW t \in Threads, ClearFlag(t) PROVE ControlOk(s)'
    BY <1>25 DEF ClearFlag, Goto, sched, failures, TypeOK, Labels, Returns, Control,
       ControlOk, Schedule, Threads
<1>26. ASSUME NEW t \in Threads, ClearDue(t) PROVE ControlOk(s)'
    BY <1>26 DEF ClearDue, Return, Goto, sched, failures, TypeOK, Labels, Returns, Control,
       ControlOk, Schedule, Threads
<1>27. ASSUME NEW t \in Threads, LookAgain(t) PROVE ControlOk(s)'
    BY <1>27 DEF LookAgain, Goto, sched, failures, TypeOK, Labels, Returns, Control,
       ControlOk, Schedule, Threads
<1>28. ASSUME NEW t \in Threads, Done(t) PROVE ControlOk(s)'
    BY <1>28 DEF Done, Goto, sched, failures, TypeOK, Labels, Returns, Control, ControlOk,
       Schedule, Threads
<1>29. ASSUME NEW v \in Workspaces, Tick(v) PROVE ControlOk(s)'
    BY <1>29 DEF Tick, sched, failures, TypeOK, Labels, Returns, Control, ControlOk,
       Schedule, Threads
<1>30. QED
    BY <1>1, <1>2, <1>3, <1>4, <1>5, <1>6, <1>7, <1>8, <1>9, <1>10, <1>11, <1>12, <1>13,
       <1>14, <1>15, <1>16, <1>17, <1>18, <1>19, <1>20, <1>21, <1>22, <1>23, <1>24, <1>25,
          <1>26, <1>27, <1>28, <1>29 DEF Next, Start, Advance

\* Every step preserves the discipline of the workspace lock.
LEMMA ExclusionStep ==
    ASSUME TypeOK, Control, Exclusion, Next
    PROVE  Exclusion'
<1> SUFFICES ASSUME NEW s \in Threads, InLock(s)' PROVE (lock[cur[s]] = s)'
    BY DEF Exclusion
<1> USE ThreadAssumption
<1>1. ASSUME NEW t \in Threads, NEW v \in Workspaces, StartEdit(t, v) PROVE (lock[cur[s]] = s)'
    BY <1>1 DEF StartEdit, Goto, sched, failures, TypeOK, Control, ControlOk, Exclusion,
       InLock, Schedule, Threads
<1>2. ASSUME NEW t \in Threads, NEW v \in Workspaces, StartFlush(t, v) PROVE (lock[cur[s]] = s)'
    BY <1>2 DEF StartFlush, Goto, sched, failures, TypeOK, Control, ControlOk, Exclusion,
       InLock, Schedule, Threads
<1>3. ASSUME NEW t \in Threads, Pop(t) PROVE (lock[cur[s]] = s)'
    BY <1>3 DEF Pop, Goto, sched, failures, TypeOK, Control, ControlOk, Exclusion, InLock,
       Schedule, Threads
<1>4. ASSUME NEW t \in Threads, CheckDead(t) PROVE (lock[cur[s]] = s)'
    BY <1>4 DEF CheckDead, Goto, sched, failures, TypeOK, Control, ControlOk, Exclusion,
       InLock, Schedule, Threads
<1>5. ASSUME NEW t \in Threads, CheckDue(t) PROVE (lock[cur[s]] = s)'
    BY <1>5 DEF CheckDue, Goto, sched, failures, TypeOK, Control, ControlOk, Exclusion,
       InLock, Schedule, Threads
<1>6. ASSUME NEW t \in Threads, Requeue(t) PROVE (lock[cur[s]] = s)'
    BY <1>6 DEF Requeue, Goto, sched, failures, TypeOK, Control, ControlOk, Exclusion,
       InLock, Schedule, Threads
<1>7. ASSUME NEW t \in Threads, Acquire(t) PROVE (lock[cur[s]] = s)'
    BY <1>7 DEF Acquire, Goto, sched, failures, TypeOK, Control, ControlOk, Exclusion,
       InLock, Schedule, Threads
<1>8. ASSUME NEW t \in Threads, GiveUp(t) PROVE (lock[cur[s]] = s)'
    <2>1. CASE s = t
        BY <1>8, <2>1 DEF GiveUp, Goto, TypeOK, Control, ControlOk,
           Exclusion, InLock, Schedule, Threads
    <2>2. CASE s # t
        BY <1>8, <2>2 DEF GiveUp, Goto, TypeOK, Control, ControlOk,
           Exclusion, InLock, Schedule, Threads
    <2>3. QED
        BY <2>1, <2>2
<1>9. ASSUME NEW t \in Threads, Unlock(t) PROVE (lock[cur[s]] = s)'
    <2>1. CASE s = t
        BY <1>9, <2>1 DEF Unlock, Goto, sched, failures, TypeOK, Control, ControlOk,
           Exclusion, InLock, Schedule, Threads
    <2>2. CASE s # t
        BY <1>9, <2>2 DEF Unlock, Goto, sched, failures, TypeOK, Control, ControlOk,
           Exclusion, InLock, Schedule, Threads
    <2>3. QED
        BY <2>1, <2>2
<1>10. ASSUME NEW t \in Threads, Write(t) PROVE (lock[cur[s]] = s)'
    BY <1>10 DEF Write, Goto, sched, failures, TypeOK, Control, ControlOk, Exclusion,
       InLock, Schedule, Threads
<1>11. ASSUME NEW t \in Threads, Mark(t) PROVE (lock[cur[s]] = s)'
    BY <1>11 DEF Mark, Goto, sched, failures, TypeOK, Control, ControlOk, Exclusion,
       InLock, Schedule, Threads
<1>12. ASSUME NEW t \in Threads, EnqueueCheck(t) PROVE (lock[cur[s]] = s)'
    BY <1>12 DEF EnqueueCheck, Return, Goto, sched, failures, TypeOK, Control, ControlOk,
       Exclusion, InLock, Schedule, Threads
<1>13. ASSUME NEW t \in Threads, EnqueueDue(t) PROVE (lock[cur[s]] = s)'
    BY <1>13 DEF EnqueueDue, Goto, sched, failures, TypeOK, Control, ControlOk, Exclusion,
       InLock, Schedule, Threads
<1>14. ASSUME NEW t \in Threads, EnqueueFlag(t) PROVE (lock[cur[s]] = s)'
    <2>1. CASE s = t
        <3>1. pc'[t] \in {ret[t], "push"} /\ ret' = ret /\ cur' = cur /\ lock' = lock
            BY <1>14 DEF EnqueueFlag, Return, Goto, failures, TypeOK
        <3>2. ret[t] \in {"unlock", "forgive", "done", "idle"}
            BY <1>14 DEF EnqueueFlag, Control, ControlOk, Schedule
        <3>3. InLock(t)
            BY <1>14, <2>1, <3>1, <3>2 DEF EnqueueFlag, InLock, Schedule
        <3>4. QED
            BY <2>1, <3>1, <3>3 DEF Exclusion
    <2>2. CASE s # t
        BY <1>14, <2>2 DEF EnqueueFlag, Return, Goto, failures, TypeOK, Exclusion, InLock, Schedule
    <2>3. QED
        BY <2>1, <2>2
<1>15. ASSUME NEW t \in Threads, EnqueuePush(t) PROVE (lock[cur[s]] = s)'
    BY <1>15 DEF EnqueuePush, Return, Goto, sched, failures, TypeOK, Control, ControlOk,
       Exclusion, InLock, Schedule, Threads
<1>16. ASSUME NEW t \in Threads, Snapshot(t) PROVE (lock[cur[s]] = s)'
    BY <1>16 DEF Snapshot, Goto, sched, failures, TypeOK, Control, ControlOk, Exclusion,
       InLock, Schedule, Threads
<1>17. ASSUME NEW t \in Threads, CommitOk(t) PROVE (lock[cur[s]] = s)'
    BY <1>17 DEF CommitOk, Goto, sched, failures, TypeOK, Control, ControlOk, Exclusion,
       InLock, Schedule, Threads
<1>18. ASSUME NEW t \in Threads, CommitFails(t) PROVE (lock[cur[s]] = s)'
    BY <1>18 DEF CommitFails, Goto, sched, failures, TypeOK, Control, ControlOk, Exclusion,
       InLock, Schedule, Threads
<1>19. ASSUME NEW t \in Threads, Confirm(t) PROVE (lock[cur[s]] = s)'
    BY <1>19 DEF Confirm, Goto, sched, failures, TypeOK, Control, ControlOk, Exclusion,
       InLock, Schedule, Threads
<1>20. ASSUME NEW t \in Threads, Unmark(t) PROVE (lock[cur[s]] = s)'
    BY <1>20 DEF Unmark, Goto, sched, failures, TypeOK, Control, ControlOk, Exclusion,
       InLock, Schedule, Threads
<1>21. ASSUME NEW t \in Threads, Forgive(t) PROVE (lock[cur[s]] = s)'
    BY <1>21 DEF Forgive, Goto, sched, failures, TypeOK, Control, ControlOk, Exclusion,
       InLock, Schedule, Threads
<1>22. ASSUME NEW t \in Threads, Absolve(t) PROVE (lock[cur[s]] = s)'
    BY <1>22 DEF Absolve, Goto, sched, failures, TypeOK, Control, ControlOk, Exclusion,
       InLock, Schedule, Threads
<1>23. ASSUME NEW t \in Threads, Record(t) PROVE (lock[cur[s]] = s)'
    BY <1>23 DEF Record, Goto, sched, failures, TypeOK, Control, ControlOk, Exclusion,
       InLock, Schedule, Threads
<1>24. ASSUME NEW t \in Threads, Bury(t) PROVE (lock[cur[s]] = s)'
    BY <1>24 DEF Bury, Goto, sched, failures, TypeOK, Control, ControlOk, Exclusion,
       InLock, Schedule, Threads
<1>25. ASSUME NEW t \in Threads, ClearFlag(t) PROVE (lock[cur[s]] = s)'
    BY <1>25 DEF ClearFlag, Goto, sched, failures, TypeOK, Control, ControlOk, Exclusion,
       InLock, Schedule, Threads
<1>26. ASSUME NEW t \in Threads, ClearDue(t) PROVE (lock[cur[s]] = s)'
    BY <1>26 DEF ClearDue, Return, Goto, sched, failures, TypeOK, Control, ControlOk,
       Exclusion, InLock, Schedule, Threads
<1>27. ASSUME NEW t \in Threads, LookAgain(t) PROVE (lock[cur[s]] = s)'
    BY <1>27 DEF LookAgain, Goto, sched, failures, TypeOK, Control, ControlOk, Exclusion,
       InLock, Schedule, Threads
<1>28. ASSUME NEW t \in Threads, Done(t) PROVE (lock[cur[s]] = s)'
    BY <1>28 DEF Done, Goto, sched, failures, TypeOK, Control, ControlOk, Exclusion,
       InLock, Schedule, Threads
<1>29. ASSUME NEW v \in Workspaces, Tick(v) PROVE (lock[cur[s]] = s)'
    BY <1>29 DEF Tick, sched, failures, TypeOK, Control, ControlOk, Exclusion, InLock,
       Schedule, Threads
<1>30. QED
    BY <1>1, <1>2, <1>3, <1>4, <1>5, <1>6, <1>7, <1>8, <1>9, <1>10, <1>11, <1>12, <1>13,
       <1>14, <1>15, <1>16, <1>17, <1>18, <1>19, <1>20, <1>21, <1>22, <1>23, <1>24, <1>25,
          <1>26, <1>27, <1>28, <1>29 DEF Next, Start, Advance

\* Every step preserves Burial.
LEMMA BurialStep ==
    ASSUME TypeOK, Control, Burial, Next
    PROVE  Burial'
<1>1. ASSUME NEW t \in Threads, NEW v \in Workspaces, StartEdit(t, v) PROVE Burial'
    BY <1>1 DEF StartEdit, Goto, sched, failures, TypeOK, Control, ControlOk, Burial,
       Schedule
<1>2. ASSUME NEW t \in Threads, NEW v \in Workspaces, StartFlush(t, v) PROVE Burial'
    BY <1>2 DEF StartFlush, Goto, sched, failures, TypeOK, Control, ControlOk, Burial,
       Schedule
<1>3. ASSUME NEW t \in Threads, Pop(t) PROVE Burial'
    BY <1>3 DEF Pop, Goto, sched, failures, TypeOK, Control, ControlOk, Burial, Schedule
<1>4. ASSUME NEW t \in Threads, CheckDead(t) PROVE Burial'
    <2>1. dead' = dead /\ buried' = buried /\ cur' = cur
        BY <1>4 DEF CheckDead, failures
    <2>2. \A s \in Threads \ {t} : pc'[s] = pc[s] /\ ret'[s] = ret[s]
        BY <1>4 DEF CheckDead, Goto, TypeOK
    <2>3. dead[cur[t]] \/ pc'[t] = "ripe"
        BY <1>4 DEF CheckDead, Goto, TypeOK
    <2>4. cur[t] \in Workspaces
        BY DEF TypeOK
    <2>5. dead[cur[t]] => buried[cur[t]]
        BY <2>4 DEF Burial
    <2>6. QED
        BY <2>1, <2>2, <2>3, <2>5 DEF Burial
<1>5. ASSUME NEW t \in Threads, CheckDue(t) PROVE Burial'
    BY <1>5 DEF CheckDue, Goto, sched, failures, TypeOK, Control, ControlOk, Burial,
       Schedule
<1>6. ASSUME NEW t \in Threads, Requeue(t) PROVE Burial'
    BY <1>6 DEF Requeue, Goto, sched, failures, TypeOK, Control, ControlOk, Burial, Schedule
<1>7. ASSUME NEW t \in Threads, Acquire(t) PROVE Burial'
    BY <1>7 DEF Acquire, Goto, sched, failures, TypeOK, Control, ControlOk, Burial, Schedule
<1>8. ASSUME NEW t \in Threads, GiveUp(t) PROVE Burial'
    BY <1>8 DEF GiveUp, Goto, sched, failures, TypeOK, Control, ControlOk, Burial, Schedule
<1>9. ASSUME NEW t \in Threads, Unlock(t) PROVE Burial'
    <2>1. dead' = dead /\ buried' = buried /\ cur' = cur
        BY <1>9 DEF Unlock, failures
    <2>2. \A s \in Threads \ {t} : pc'[s] = pc[s] /\ ret'[s] = ret[s]
        BY <1>9 DEF Unlock, Goto, TypeOK
    <2>3. pc'[t] = "idle" \/ ret'[t] \in {"load", "record"}
        BY <1>9 DEF Unlock, Goto, TypeOK
    <2>4. QED
        BY <2>1, <2>2, <2>3 DEF Burial
<1>10. ASSUME NEW t \in Threads, Write(t) PROVE Burial'
    BY <1>10 DEF Write, Goto, sched, failures, TypeOK, Control, ControlOk, Burial, Schedule
<1>11. ASSUME NEW t \in Threads, Mark(t) PROVE Burial'
    BY <1>11 DEF Mark, Goto, sched, failures, TypeOK, Control, ControlOk, Burial, Schedule
<1>12. ASSUME NEW t \in Threads, EnqueueCheck(t) PROVE Burial'
    BY <1>12 DEF EnqueueCheck, Return, Goto, sched, failures, TypeOK, Control, ControlOk,
       Burial, Schedule
<1>13. ASSUME NEW t \in Threads, EnqueueDue(t) PROVE Burial'
    BY <1>13 DEF EnqueueDue, Goto, sched, failures, TypeOK, Control, ControlOk, Burial,
       Schedule
<1>14. ASSUME NEW t \in Threads, EnqueueFlag(t) PROVE Burial'
    BY <1>14 DEF EnqueueFlag, Return, Goto, sched, failures, TypeOK, Control, ControlOk,
       Burial, Schedule
<1>15. ASSUME NEW t \in Threads, EnqueuePush(t) PROVE Burial'
    BY <1>15 DEF EnqueuePush, Return, Goto, sched, failures, TypeOK, Control, ControlOk,
       Burial, Schedule
<1>16. ASSUME NEW t \in Threads, Snapshot(t) PROVE Burial'
    BY <1>16 DEF Snapshot, Goto, sched, failures, TypeOK, Control, ControlOk, Burial,
       Schedule
<1>17. ASSUME NEW t \in Threads, CommitOk(t) PROVE Burial'
    BY <1>17 DEF CommitOk, Goto, sched, failures, TypeOK, Control, ControlOk, Burial,
       Schedule
<1>18. ASSUME NEW t \in Threads, CommitFails(t) PROVE Burial'
    BY <1>18 DEF CommitFails, Goto, sched, failures, TypeOK, Control, ControlOk, Burial,
       Schedule
<1>19. ASSUME NEW t \in Threads, Confirm(t) PROVE Burial'
    BY <1>19 DEF Confirm, Goto, sched, failures, TypeOK, Control, ControlOk, Burial,
       Schedule
<1>20. ASSUME NEW t \in Threads, Unmark(t) PROVE Burial'
    BY <1>20 DEF Unmark, Goto, sched, failures, TypeOK, Control, ControlOk, Burial, Schedule
<1>21. ASSUME NEW t \in Threads, Forgive(t) PROVE Burial'
    BY <1>21 DEF Forgive, Goto, sched, failures, TypeOK, Control, ControlOk, Burial,
       Schedule
<1>22. ASSUME NEW t \in Threads, Absolve(t) PROVE Burial'
    BY <1>22 DEF Absolve, Goto, sched, failures, TypeOK, Control, ControlOk, Burial,
       Schedule
<1>23. ASSUME NEW t \in Threads, Record(t) PROVE Burial'
    BY <1>23 DEF Record, Goto, sched, failures, TypeOK, Control, ControlOk, Burial, Schedule
<1>24. ASSUME NEW t \in Threads, Bury(t) PROVE Burial'
    BY <1>24 DEF Bury, Goto, sched, failures, TypeOK, Control, ControlOk, Burial, Schedule
<1>25. ASSUME NEW t \in Threads, ClearFlag(t) PROVE Burial'
    BY <1>25 DEF ClearFlag, Goto, sched, failures, TypeOK, Control, ControlOk, Burial,
       Schedule
<1>26. ASSUME NEW t \in Threads, ClearDue(t) PROVE Burial'
    BY <1>26 DEF ClearDue, Return, Goto, sched, failures, TypeOK, Control, ControlOk,
       Burial, Schedule
<1>27. ASSUME NEW t \in Threads, LookAgain(t) PROVE Burial'
    BY <1>27 DEF LookAgain, Goto, sched, failures, TypeOK, Control, ControlOk, Burial,
       Schedule
<1>28. ASSUME NEW t \in Threads, Done(t) PROVE Burial'
    BY <1>28 DEF Done, Goto, sched, failures, TypeOK, Control, ControlOk, Burial, Schedule
<1>29. ASSUME NEW v \in Workspaces, Tick(v) PROVE Burial'
    BY <1>29 DEF Tick, sched, failures, TypeOK, Control, ControlOk, Burial, Schedule
<1>30. QED
    BY <1>1, <1>2, <1>3, <1>4, <1>5, <1>6, <1>7, <1>8, <1>9, <1>10, <1>11, <1>12, <1>13,
       <1>14, <1>15, <1>16, <1>17, <1>18, <1>19, <1>20, <1>21, <1>22, <1>23, <1>24, <1>25,
          <1>26, <1>27, <1>28, <1>29 DEF Next, Start, Advance

\* A step of a thread leaves the control state of the others alone.
LEMMA AloneStep ==
    ASSUME TypeOK, NEW t \in Threads, Start(t) \/ Advance(t)
    PROVE  Alone(t)
<1>1. ASSUME NEW v \in Workspaces, StartEdit(t, v) PROVE Alone(t)
    BY <1>1 DEF StartEdit, Goto, sched, failures, TypeOK, Alone
<1>2. ASSUME NEW v \in Workspaces, StartFlush(t, v) PROVE Alone(t)
    BY <1>2 DEF StartFlush, Goto, sched, failures, TypeOK, Alone
<1>3. ASSUME Pop(t) PROVE Alone(t)
    BY <1>3 DEF Pop, Goto, sched, failures, TypeOK, Alone
<1>4. ASSUME CheckDead(t) PROVE Alone(t)
    BY <1>4 DEF CheckDead, Goto, sched, failures, TypeOK, Alone
<1>5. ASSUME CheckDue(t) PROVE Alone(t)
    BY <1>5 DEF CheckDue, Goto, sched, failures, TypeOK, Alone
<1>6. ASSUME Requeue(t) PROVE Alone(t)
    BY <1>6 DEF Requeue, Goto, sched, failures, TypeOK, Alone
<1>7. ASSUME Acquire(t) PROVE Alone(t)
    BY <1>7 DEF Acquire, Goto, sched, failures, TypeOK, Alone
<1>8. ASSUME GiveUp(t) PROVE Alone(t)
    BY <1>8 DEF GiveUp, Goto, sched, failures, TypeOK, Alone
<1>9. ASSUME Unlock(t) PROVE Alone(t)
    BY <1>9 DEF Unlock, Goto, sched, failures, TypeOK, Alone
<1>10. ASSUME Write(t) PROVE Alone(t)
    BY <1>10 DEF Write, Goto, sched, failures, TypeOK, Alone
<1>11. ASSUME Mark(t) PROVE Alone(t)
    BY <1>11 DEF Mark, Goto, sched, failures, TypeOK, Alone
<1>12. ASSUME EnqueueCheck(t) PROVE Alone(t)
    BY <1>12 DEF EnqueueCheck, Return, Goto, sched, failures, TypeOK, Alone
<1>13. ASSUME EnqueueDue(t) PROVE Alone(t)
    BY <1>13 DEF EnqueueDue, Goto, sched, failures, TypeOK, Alone
<1>14. ASSUME EnqueueFlag(t) PROVE Alone(t)
    BY <1>14 DEF EnqueueFlag, Return, Goto, sched, failures, TypeOK, Alone
<1>15. ASSUME EnqueuePush(t) PROVE Alone(t)
    BY <1>15 DEF EnqueuePush, Return, Goto, sched, failures, TypeOK, Alone
<1>16. ASSUME Snapshot(t) PROVE Alone(t)
    BY <1>16 DEF Snapshot, Goto, sched, failures, TypeOK, Alone
<1>17. ASSUME CommitOk(t) PROVE Alone(t)
    BY <1>17 DEF CommitOk, Goto, sched, failures, TypeOK, Alone
<1>18. ASSUME CommitFails(t) PROVE Alone(t)
    BY <1>18 DEF CommitFails, Goto, sched, failures, TypeOK, Alone
<1>19. ASSUME Confirm(t) PROVE Alone(t)
    BY <1>19 DEF Confirm, Goto, sched, failures, TypeOK, Alone
<1>20. ASSUME Unmark(t) PROVE Alone(t)
    BY <1>20 DEF Unmark, Goto, sched, failures, TypeOK, Alone
<1>21. ASSUME Forgive(t) PROVE Alone(t)
    BY <1>21 DEF Forgive, Goto, sched, failures, TypeOK, Alone
<1>22. ASSUME Absolve(t) PROVE Alone(t)
    BY <1>22 DEF Absolve, Goto, sched, failures, TypeOK, Alone
<1>23. ASSUME Record(t) PROVE Alone(t)
    BY <1>23 DEF Record, Goto, sched, failures, TypeOK, Alone
<1>24. ASSUME Bury(t) PROVE Alone(t)
    BY <1>24 DEF Bury, Goto, sched, failures, TypeOK, Alone
<1>25. ASSUME ClearFlag(t) PROVE Alone(t)
    BY <1>25 DEF ClearFlag, Goto, sched, failures, TypeOK, Alone
<1>26. ASSUME ClearDue(t) PROVE Alone(t)
    BY <1>26 DEF ClearDue, Return, Goto, sched, failures, TypeOK, Alone
<1>27. ASSUME LookAgain(t) PROVE Alone(t)
    BY <1>27 DEF LookAgain, Goto, sched, failures, TypeOK, Alone
<1>28. ASSUME Done(t) PROVE Alone(t)
    BY <1>28 DEF Done, Goto, sched, failures, TypeOK, Alone
<1>29. QED
    BY <1>1, <1>2, <1>3, <1>4, <1>5, <1>6, <1>7, <1>8, <1>9, <1>10, <1>11, <1>12, <1>13,
       <1>14, <1>15, <1>16, <1>17, <1>18, <1>19, <1>20, <1>21, <1>22, <1>23, <1>24, <1>25,
          <1>26, <1>27, <1>28 DEF Start, Advance

\* Every step preserves Markers.
LEMMA MarkersStep ==
    ASSUME TypeOK, Control, Exclusion, Markers, Next
    PROVE  Markers'
<1> SUFFICES ASSUME NEW s \in Threads PROVE MarkerOk(s)'
    BY DEF Markers
<1> USE ThreadAssumption, LimitAssumption
<1>1. ASSUME NEW t \in Threads, NEW v \in Workspaces, StartEdit(t, v) PROVE MarkerOk(s)'
    BY <1>1 DEF StartEdit, Goto, sched, failures, TypeOK, Control, ControlOk, Exclusion,
       InLock, Markers, MarkerOk, Schedule, Threads
<1>2. ASSUME NEW t \in Threads, NEW v \in Workspaces, StartFlush(t, v) PROVE MarkerOk(s)'
    BY <1>2 DEF StartFlush, Goto, sched, failures, TypeOK, Control, ControlOk, Exclusion,
       InLock, Markers, MarkerOk, Schedule, Threads
<1>3. ASSUME NEW t \in Threads, Pop(t) PROVE MarkerOk(s)'
    BY <1>3 DEF Pop, Goto, sched, failures, TypeOK, Control, ControlOk, Exclusion, InLock,
       Markers, MarkerOk, Schedule, Threads
<1>4. ASSUME NEW t \in Threads, CheckDead(t) PROVE MarkerOk(s)'
    BY <1>4 DEF CheckDead, Goto, sched, failures, TypeOK, Control, ControlOk, Exclusion,
       InLock, Markers, MarkerOk, Schedule, Threads
<1>5. ASSUME NEW t \in Threads, CheckDue(t) PROVE MarkerOk(s)'
    BY <1>5 DEF CheckDue, Goto, sched, failures, TypeOK, Control, ControlOk, Exclusion,
       InLock, Markers, MarkerOk, Schedule, Threads
<1>6. ASSUME NEW t \in Threads, Requeue(t) PROVE MarkerOk(s)'
    BY <1>6 DEF Requeue, Goto, sched, failures, TypeOK, Control, ControlOk, Exclusion,
       InLock, Markers, MarkerOk, Schedule, Threads
<1>7. ASSUME NEW t \in Threads, Acquire(t) PROVE MarkerOk(s)'
    BY <1>7 DEF Acquire, Goto, sched, failures, TypeOK, Control, ControlOk, Exclusion,
       InLock, Markers, MarkerOk, Schedule, Threads
<1>8. ASSUME NEW t \in Threads, GiveUp(t) PROVE MarkerOk(s)'
    BY <1>8 DEF GiveUp, Goto, sched, failures, TypeOK, Control, ControlOk, Exclusion,
       InLock, Markers, MarkerOk, Schedule, Threads
<1>9. ASSUME NEW t \in Threads, Unlock(t) PROVE MarkerOk(s)'
    <2>1. CASE s = t
        BY <1>9, <2>1 DEF Unlock, Goto, sched, failures, TypeOK, Control, ControlOk,
           Exclusion, InLock, Markers, MarkerOk, Schedule, Threads
    <2>2. CASE s # t
        BY <1>9, <2>2 DEF Unlock, Goto, TypeOK, Markers, MarkerOk
    <2>3. QED
        BY <2>1, <2>2
<1>10. ASSUME NEW t \in Threads, Write(t) PROVE MarkerOk(s)'
    <2>1. /\ cur' = cur /\ cur \in [Threads -> Workspaces] /\ pc \in [Threads -> Labels]
          /\ dirty' \in [Workspaces -> Nat] /\ dirty'[cur[t]] > 0
          /\ pc' = [pc EXCEPT ![t] = "mark"]
        BY <1>10, WriteIs DEF Write, TypeOK
    <2>2. CASE s = t
        BY <2>1, <2>2 DEF MarkerOk
    <2>3. CASE s # t
        <3>1. CASE cur[s] = cur[t]
            <4>1. InLock(t) /\ lock[cur[t]] = t
                BY <1>10 DEF Write, InLock, Exclusion
            <4>2. pc[s] # "unmark"
                BY <2>3, <3>1, <4>1 DEF Exclusion, InLock
            <4>3. QED
                BY <2>1, <2>3, <3>1, <4>2 DEF MarkerOk
        <3>2. CASE cur[s] # cur[t]
            <4>1. dirty'[cur[s]] = dirty[cur[s]]
                BY <1>10, <2>1, <3>2 DEF Write, TypeOK
            <4>2. QED
                BY <2>1, <2>3, <4>1 DEF Markers, MarkerOk
        <3>3. QED
            BY <3>1, <3>2
    <2>4. QED
        BY <2>2, <2>3
<1>11. ASSUME NEW t \in Threads, Mark(t) PROVE MarkerOk(s)'
    BY <1>11 DEF Mark, Goto, sched, failures, TypeOK, Control, ControlOk, Exclusion,
       InLock, Markers, MarkerOk, Schedule, Threads
<1>12. ASSUME NEW t \in Threads, EnqueueCheck(t) PROVE MarkerOk(s)'
    <2>1. pc'[t] \in {ret[t], "due", "push"} /\ dirty' = dirty /\ cur' = cur
        BY <1>12 DEF EnqueueCheck, Return, Goto, TypeOK
    <2>2. ret[t] \notin {"mark", "unmark"}
        BY DEF TypeOK, Returns
    <2>3. s # t => pc'[s] = pc[s]
        BY <1>12 DEF EnqueueCheck, Return, Goto, TypeOK
    <2>4. QED
        BY <2>1, <2>2, <2>3 DEF Markers, MarkerOk
<1>13. ASSUME NEW t \in Threads, EnqueueDue(t) PROVE MarkerOk(s)'
    BY <1>13 DEF EnqueueDue, Goto, sched, failures, TypeOK, Control, ControlOk, Exclusion,
       InLock, Markers, MarkerOk, Schedule, Threads
<1>14. ASSUME NEW t \in Threads, EnqueueFlag(t) PROVE MarkerOk(s)'
    <2>1. pc'[t] \in {ret[t], "due", "push"} /\ dirty' = dirty /\ cur' = cur
        BY <1>14 DEF EnqueueFlag, Return, Goto, TypeOK
    <2>2. ret[t] \notin {"mark", "unmark"}
        BY DEF TypeOK, Returns
    <2>3. s # t => pc'[s] = pc[s]
        BY <1>14 DEF EnqueueFlag, Return, Goto, TypeOK
    <2>4. QED
        BY <2>1, <2>2, <2>3 DEF Markers, MarkerOk
<1>15. ASSUME NEW t \in Threads, EnqueuePush(t) PROVE MarkerOk(s)'
    <2>1. CASE s = t
        BY <1>15, <2>1 DEF EnqueuePush, Return, Goto, sched, failures, TypeOK, Control,
           ControlOk, Exclusion, InLock, Markers, MarkerOk, Schedule, Threads
    <2>2. CASE s # t
        BY <1>15, <2>2 DEF EnqueuePush, Return, Goto, sched, failures, TypeOK, Control,
           ControlOk, Exclusion, InLock, Markers, MarkerOk, Schedule, Threads
    <2>3. QED
        BY <2>1, <2>2
<1>16. ASSUME NEW t \in Threads, Snapshot(t) PROVE MarkerOk(s)'
    <2>1. CASE s = t
        BY <1>16, <2>1 DEF Snapshot, Goto, sched, failures, TypeOK, Control, ControlOk,
           Exclusion, InLock, Markers, MarkerOk, Schedule, Threads
    <2>2. CASE s # t
        BY <1>16, <2>2 DEF Snapshot, Goto, sched, failures, TypeOK, Control, ControlOk,
           Exclusion, InLock, Markers, MarkerOk, Schedule, Threads
    <2>3. QED
        BY <2>1, <2>2
<1>17. ASSUME NEW t \in Threads, CommitOk(t) PROVE MarkerOk(s)'
    BY <1>17 DEF CommitOk, Goto, sched, failures, TypeOK, Control, ControlOk, Exclusion,
       InLock, Markers, MarkerOk, Schedule, Threads
<1>18. ASSUME NEW t \in Threads, CommitFails(t) PROVE MarkerOk(s)'
    BY <1>18 DEF CommitFails, Goto, sched, failures, TypeOK, Control, ControlOk, Exclusion,
       InLock, Markers, MarkerOk, Schedule, Threads
<1>19. ASSUME NEW t \in Threads, Confirm(t) PROVE MarkerOk(s)'
    <2>1. /\ cur' = cur /\ cur \in [Threads -> Workspaces] /\ pc \in [Threads -> Labels]
          /\ dirty' \in [Workspaces -> Nat]
          /\ pc' = [pc EXCEPT ![t] = IF dirty'[cur[t]] > 0 THEN "mark" ELSE "unmark"]
        BY <1>19, ConfirmIs DEF Confirm, TypeOK
    <2>2. CASE s = t
        BY <2>1, <2>2 DEF MarkerOk
    <2>3. CASE s # t
        <3>1. CASE cur[s] = cur[t]
            <4>1. InLock(t) /\ lock[cur[t]] = t
                BY <1>19 DEF Confirm, InLock, Exclusion
            <4>2. pc[s] \notin {"mark", "unmark"}
                BY <2>3, <3>1, <4>1 DEF Exclusion, InLock
            <4>3. QED
                BY <2>1, <2>3, <4>2 DEF MarkerOk
        <3>2. CASE cur[s] # cur[t]
            <4>1. dirty'[cur[s]] = dirty[cur[s]]
                BY <1>19, <2>1, <3>2 DEF Confirm, TypeOK
            <4>2. QED
                BY <2>1, <2>3, <4>1 DEF Markers, MarkerOk
        <3>3. QED
            BY <3>1, <3>2
    <2>4. QED
        BY <2>2, <2>3
<1>20. ASSUME NEW t \in Threads, Unmark(t) PROVE MarkerOk(s)'
    BY <1>20 DEF Unmark, Goto, sched, failures, TypeOK, Control, ControlOk, Exclusion,
       InLock, Markers, MarkerOk, Schedule, Threads
<1>21. ASSUME NEW t \in Threads, Forgive(t) PROVE MarkerOk(s)'
    BY <1>21 DEF Forgive, Goto, sched, failures, TypeOK, Control, ControlOk, Exclusion,
       InLock, Markers, MarkerOk, Schedule, Threads
<1>22. ASSUME NEW t \in Threads, Absolve(t) PROVE MarkerOk(s)'
    BY <1>22 DEF Absolve, Goto, sched, failures, TypeOK, Control, ControlOk, Exclusion,
       InLock, Markers, MarkerOk, Schedule, Threads
<1>23. ASSUME NEW t \in Threads, Record(t) PROVE MarkerOk(s)'
    BY <1>23 DEF Record, Goto, sched, failures, TypeOK, Control, ControlOk, Exclusion,
       InLock, Markers, MarkerOk, Schedule, Threads
<1>24. ASSUME NEW t \in Threads, Bury(t) PROVE MarkerOk(s)'
    BY <1>24 DEF Bury, Goto, sched, failures, TypeOK, Control, ControlOk, Exclusion,
       InLock, Markers, MarkerOk, Schedule, Threads
<1>25. ASSUME NEW t \in Threads, ClearFlag(t) PROVE MarkerOk(s)'
    BY <1>25 DEF ClearFlag, Goto, sched, failures, TypeOK, Control, ControlOk, Exclusion,
       InLock, Markers, MarkerOk, Schedule, Threads
<1>26. ASSUME NEW t \in Threads, ClearDue(t) PROVE MarkerOk(s)'
    <2>1. CASE s = t
        BY <1>26, <2>1 DEF ClearDue, Return, Goto, sched, failures, TypeOK, Control,
           ControlOk, Exclusion, InLock, Markers, MarkerOk, Schedule, Threads
    <2>2. CASE s # t
        BY <1>26, <2>2 DEF ClearDue, Return, Goto, sched, failures, TypeOK, Control,
           ControlOk, Exclusion, InLock, Markers, MarkerOk, Schedule, Threads
    <2>3. QED
        BY <2>1, <2>2
<1>27. ASSUME NEW t \in Threads, LookAgain(t) PROVE MarkerOk(s)'
    BY <1>27 DEF LookAgain, Goto, sched, failures, TypeOK, Control, ControlOk, Exclusion,
       InLock, Markers, MarkerOk, Schedule, Threads
<1>28. ASSUME NEW t \in Threads, Done(t) PROVE MarkerOk(s)'
    BY <1>28 DEF Done, Goto, sched, failures, TypeOK, Control, ControlOk, Exclusion,
       InLock, Markers, MarkerOk, Schedule, Threads
<1>29. ASSUME NEW v \in Workspaces, Tick(v) PROVE MarkerOk(s)'
    BY <1>29 DEF Tick, sched, failures, TypeOK, Control, ControlOk, Exclusion, InLock,
       Markers, MarkerOk, Schedule, Threads
<1>30. QED
    BY <1>1, <1>2, <1>3, <1>4, <1>5, <1>6, <1>7, <1>8, <1>9, <1>10, <1>11, <1>12, <1>13,
       <1>14, <1>15, <1>16, <1>17, <1>18, <1>19, <1>20, <1>21, <1>22, <1>23, <1>24, <1>25,
          <1>26, <1>27, <1>28, <1>29 DEF Next, Start, Advance

\* When only t moves and keeps the truth about w or takes over marking it,
\* the truth about w is kept.
LEMMA MarkKept ==
    ASSUME TypeOK, NEW w \in Workspaces, NEW t \in Threads, Alone(t),
           Marked(w) \/ \E s \in Threads : Marks(s, w),
           lock'[w] = lock[w] \/ lock[w] \in {NoOne, t},
           Marked(w) \/ Marks(t, w) => (Marked(w) \/ Marks(t, w))'
    PROVE  (Marked(w) \/ \E s \in Threads : Marks(s, w))'
<1>1. CASE Marked(w) \/ Marks(t, w)
    BY <1>1
<1>2. CASE \E s \in Threads \ {t} : Marks(s, w)
    BY <1>2, ThreadAssumption DEF Alone, Marks, TypeOK
<1>3. QED
    BY <1>1, <1>2

\* Every step preserves Marking.
LEMMA MarkingStep ==
    ASSUME TypeOK, Control, Exclusion, Markers, Marking, Next
    PROVE  Marking'
<1> SUFFICES ASSUME NEW w \in Workspaces PROVE (Marked(w) \/ \E s \in Threads : Marks(s, w))'
    BY DEF Marking
<1> USE ThreadAssumption, LimitAssumption
<1>1. ASSUME NEW t \in Threads, NEW v \in Workspaces, StartEdit(t, v) PROVE
          /\ lock'[w] = lock[w] \/ lock[w] \in {NoOne, t}
          /\ Marked(w) \/ Marks(t, w) => (Marked(w) \/ Marks(t, w))'
    BY <1>1 DEF StartEdit, Goto, sched, failures, TypeOK, Control, ControlOk, Exclusion,
       InLock, Markers, MarkerOk, Marks, Marked, Schedule, Threads
<1>2. ASSUME NEW t \in Threads, NEW v \in Workspaces, StartFlush(t, v) PROVE
          /\ lock'[w] = lock[w] \/ lock[w] \in {NoOne, t}
          /\ Marked(w) \/ Marks(t, w) => (Marked(w) \/ Marks(t, w))'
    BY <1>2 DEF StartFlush, Goto, sched, failures, TypeOK, Control, ControlOk, Exclusion,
       InLock, Markers, MarkerOk, Marks, Marked, Schedule, Threads
<1>3. ASSUME NEW t \in Threads, Pop(t) PROVE
          /\ lock'[w] = lock[w] \/ lock[w] \in {NoOne, t}
          /\ Marked(w) \/ Marks(t, w) => (Marked(w) \/ Marks(t, w))'
    BY <1>3 DEF Pop, Goto, sched, failures, TypeOK, Control, ControlOk, Exclusion, InLock,
       Markers, MarkerOk, Marks, Marked, Schedule, Threads
<1>4. ASSUME NEW t \in Threads, CheckDead(t) PROVE
          /\ lock'[w] = lock[w] \/ lock[w] \in {NoOne, t}
          /\ Marked(w) \/ Marks(t, w) => (Marked(w) \/ Marks(t, w))'
    BY <1>4 DEF CheckDead, Goto, sched, failures, TypeOK, Control, ControlOk, Exclusion,
       InLock, Markers, MarkerOk, Marks, Marked, Schedule, Threads
<1>5. ASSUME NEW t \in Threads, CheckDue(t) PROVE
          /\ lock'[w] = lock[w] \/ lock[w] \in {NoOne, t}
          /\ Marked(w) \/ Marks(t, w) => (Marked(w) \/ Marks(t, w))'
    BY <1>5 DEF CheckDue, Goto, sched, failures, TypeOK, Control, ControlOk, Exclusion,
       InLock, Markers, MarkerOk, Marks, Marked, Schedule, Threads
<1>6. ASSUME NEW t \in Threads, Requeue(t) PROVE
          /\ lock'[w] = lock[w] \/ lock[w] \in {NoOne, t}
          /\ Marked(w) \/ Marks(t, w) => (Marked(w) \/ Marks(t, w))'
    BY <1>6 DEF Requeue, Goto, sched, failures, TypeOK, Control, ControlOk, Exclusion,
       InLock, Markers, MarkerOk, Marks, Marked, Schedule, Threads
<1>7. ASSUME NEW t \in Threads, Acquire(t) PROVE
          /\ lock'[w] = lock[w] \/ lock[w] \in {NoOne, t}
          /\ Marked(w) \/ Marks(t, w) => (Marked(w) \/ Marks(t, w))'
    BY <1>7 DEF Acquire, Goto, sched, failures, TypeOK, Control, ControlOk, Exclusion,
       InLock, Markers, MarkerOk, Marks, Marked, Schedule, Threads
<1>8. ASSUME NEW t \in Threads, GiveUp(t) PROVE
          /\ lock'[w] = lock[w] \/ lock[w] \in {NoOne, t}
          /\ Marked(w) \/ Marks(t, w) => (Marked(w) \/ Marks(t, w))'
    BY <1>8 DEF GiveUp, Goto, sched, failures, TypeOK, Control, ControlOk, Exclusion,
       InLock, Markers, MarkerOk, Marks, Marked, Schedule, Threads
<1>9. ASSUME NEW t \in Threads, Unlock(t) PROVE
          /\ lock'[w] = lock[w] \/ lock[w] \in {NoOne, t}
          /\ Marked(w) \/ Marks(t, w) => (Marked(w) \/ Marks(t, w))'
    <2>1. CASE cur[t] = w
        BY <1>9, <2>1 DEF Unlock, Goto, sched, failures, TypeOK, Control, ControlOk,
           Exclusion, InLock, Markers, MarkerOk, Marks, Marked, Schedule, Threads
    <2>2. CASE cur[t] # w
        BY <1>9, <2>2 DEF Unlock, Goto, sched, failures, TypeOK, Control, ControlOk,
           Exclusion, InLock, Markers, MarkerOk, Marks, Marked, Schedule, Threads
    <2>3. QED
        BY <2>1, <2>2
<1>10. ASSUME NEW t \in Threads, Write(t) PROVE
          /\ lock'[w] = lock[w] \/ lock[w] \in {NoOne, t}
          /\ Marked(w) \/ Marks(t, w) => (Marked(w) \/ Marks(t, w))'
    BY <1>10 DEF Write, Goto, sched, failures, TypeOK, Control, ControlOk, Exclusion,
       InLock, Markers, MarkerOk, Marks, Marked, Schedule, Threads
<1>11. ASSUME NEW t \in Threads, Mark(t) PROVE
          /\ lock'[w] = lock[w] \/ lock[w] \in {NoOne, t}
          /\ Marked(w) \/ Marks(t, w) => (Marked(w) \/ Marks(t, w))'
    BY <1>11 DEF Mark, Goto, sched, failures, TypeOK, Control, ControlOk, Exclusion,
       InLock, Markers, MarkerOk, Marks, Marked, Schedule, Threads
<1>12. ASSUME NEW t \in Threads, EnqueueCheck(t) PROVE
          /\ lock'[w] = lock[w] \/ lock[w] \in {NoOne, t}
          /\ Marked(w) \/ Marks(t, w) => (Marked(w) \/ Marks(t, w))'
    <2>1. CASE cur[t] = w
        BY <1>12, <2>1 DEF EnqueueCheck, Return, Goto, sched, failures, TypeOK, Control,
           ControlOk, Exclusion, InLock, Markers, MarkerOk, Marks, Marked, Schedule, Threads
    <2>2. CASE cur[t] # w
        BY <1>12, <2>2 DEF EnqueueCheck, Return, Goto, sched, failures, TypeOK, Control,
           ControlOk, Exclusion, InLock, Markers, MarkerOk, Marks, Marked, Schedule, Threads
    <2>3. QED
        BY <2>1, <2>2
<1>13. ASSUME NEW t \in Threads, EnqueueDue(t) PROVE
          /\ lock'[w] = lock[w] \/ lock[w] \in {NoOne, t}
          /\ Marked(w) \/ Marks(t, w) => (Marked(w) \/ Marks(t, w))'
    BY <1>13 DEF EnqueueDue, Goto, sched, failures, TypeOK, Control, ControlOk, Exclusion,
       InLock, Markers, MarkerOk, Marks, Marked, Schedule, Threads
<1>14. ASSUME NEW t \in Threads, EnqueueFlag(t) PROVE
          /\ lock'[w] = lock[w] \/ lock[w] \in {NoOne, t}
          /\ Marked(w) \/ Marks(t, w) => (Marked(w) \/ Marks(t, w))'
    <2>1. CASE cur[t] = w
        BY <1>14, <2>1 DEF EnqueueFlag, Return, Goto, sched, failures, TypeOK, Control,
           ControlOk, Exclusion, InLock, Markers, MarkerOk, Marks, Marked, Schedule, Threads
    <2>2. CASE cur[t] # w
        BY <1>14, <2>2 DEF EnqueueFlag, Return, Goto, sched, failures, TypeOK, Control,
           ControlOk, Exclusion, InLock, Markers, MarkerOk, Marks, Marked, Schedule, Threads
    <2>3. QED
        BY <2>1, <2>2
<1>15. ASSUME NEW t \in Threads, EnqueuePush(t) PROVE
          /\ lock'[w] = lock[w] \/ lock[w] \in {NoOne, t}
          /\ Marked(w) \/ Marks(t, w) => (Marked(w) \/ Marks(t, w))'
    <2>1. CASE cur[t] = w
        BY <1>15, <2>1 DEF EnqueuePush, Return, Goto, sched, failures, TypeOK, Control,
           ControlOk, Exclusion, InLock, Markers, MarkerOk, Marks, Marked, Schedule, Threads
    <2>2. CASE cur[t] # w
        BY <1>15, <2>2 DEF EnqueuePush, Return, Goto, sched, failures, TypeOK, Control,
           ControlOk, Exclusion, InLock, Markers, MarkerOk, Marks, Marked, Schedule, Threads
    <2>3. QED
        BY <2>1, <2>2
<1>16. ASSUME NEW t \in Threads, Snapshot(t) PROVE
          /\ lock'[w] = lock[w] \/ lock[w] \in {NoOne, t}
          /\ Marked(w) \/ Marks(t, w) => (Marked(w) \/ Marks(t, w))'
    <2>1. CASE cur[t] = w
        BY <1>16, <2>1 DEF Snapshot, Goto, sched, failures, TypeOK, Control, ControlOk,
           Exclusion, InLock, Markers, MarkerOk, Marks, Marked, Schedule, Threads
    <2>2. CASE cur[t] # w
        BY <1>16, <2>2 DEF Snapshot, Goto, sched, failures, TypeOK, Control, ControlOk,
           Exclusion, InLock, Markers, MarkerOk, Marks, Marked, Schedule, Threads
    <2>3. QED
        BY <2>1, <2>2
<1>17. ASSUME NEW t \in Threads, CommitOk(t) PROVE
          /\ lock'[w] = lock[w] \/ lock[w] \in {NoOne, t}
          /\ Marked(w) \/ Marks(t, w) => (Marked(w) \/ Marks(t, w))'
    BY <1>17 DEF CommitOk, Goto, sched, failures, TypeOK, Control, ControlOk, Exclusion,
       InLock, Markers, MarkerOk, Marks, Marked, Schedule, Threads
<1>18. ASSUME NEW t \in Threads, CommitFails(t) PROVE
          /\ lock'[w] = lock[w] \/ lock[w] \in {NoOne, t}
          /\ Marked(w) \/ Marks(t, w) => (Marked(w) \/ Marks(t, w))'
    BY <1>18 DEF CommitFails, Goto, sched, failures, TypeOK, Control, ControlOk, Exclusion,
       InLock, Markers, MarkerOk, Marks, Marked, Schedule, Threads
<1>19. ASSUME NEW t \in Threads, Confirm(t) PROVE
          /\ lock'[w] = lock[w] \/ lock[w] \in {NoOne, t}
          /\ Marked(w) \/ Marks(t, w) => (Marked(w) \/ Marks(t, w))'
    BY <1>19 DEF Confirm, Goto, sched, failures, TypeOK, Control, ControlOk, Exclusion,
       InLock, Markers, MarkerOk, Marks, Marked, Schedule, Threads
<1>20. ASSUME NEW t \in Threads, Unmark(t) PROVE
          /\ lock'[w] = lock[w] \/ lock[w] \in {NoOne, t}
          /\ Marked(w) \/ Marks(t, w) => (Marked(w) \/ Marks(t, w))'
    BY <1>20 DEF Unmark, Goto, sched, failures, TypeOK, Control, ControlOk, Exclusion,
       InLock, Markers, MarkerOk, Marks, Marked, Schedule, Threads
<1>21. ASSUME NEW t \in Threads, Forgive(t) PROVE
          /\ lock'[w] = lock[w] \/ lock[w] \in {NoOne, t}
          /\ Marked(w) \/ Marks(t, w) => (Marked(w) \/ Marks(t, w))'
    BY <1>21 DEF Forgive, Goto, sched, failures, TypeOK, Control, ControlOk, Exclusion,
       InLock, Markers, MarkerOk, Marks, Marked, Schedule, Threads
<1>22. ASSUME NEW t \in Threads, Absolve(t) PROVE
          /\ lock'[w] = lock[w] \/ lock[w] \in {NoOne, t}
          /\ Marked(w) \/ Marks(t, w) => (Marked(w) \/ Marks(t, w))'
    BY <1>22 DEF Absolve, Goto, sched, failures, TypeOK, Control, ControlOk, Exclusion,
       InLock, Markers, MarkerOk, Marks, Marked, Schedule, Threads
<1>23. ASSUME NEW t \in Threads, Record(t) PROVE
          /\ lock'[w] = lock[w] \/ lock[w] \in {NoOne, t}
          /\ Marked(w) \/ Marks(t, w) => (Marked(w) \/ Marks(t, w))'
    BY <1>23 DEF Record, Goto, sched, failures, TypeOK, Control, ControlOk, Exclusion,
       InLock, Markers, MarkerOk, Marks, Marked, Schedule, Threads
<1>24. ASSUME NEW t \in Threads, Bury(t) PROVE
          /\ lock'[w] = lock[w] \/ lock[w] \in {NoOne, t}
          /\ Marked(w) \/ Marks(t, w) => (Marked(w) \/ Marks(t, w))'
    BY <1>24 DEF Bury, Goto, sched, failures, TypeOK, Control, ControlOk, Exclusion,
       InLock, Markers, MarkerOk, Marks, Marked, Schedule, Threads
<1>25. ASSUME NEW t \in Threads, ClearFlag(t) PROVE
          /\ lock'[w] = lock[w] \/ lock[w] \in {NoOne, t}
          /\ Marked(w) \/ Marks(t, w) => (Marked(w) \/ Marks(t, w))'
    BY <1>25 DEF ClearFlag, Goto, sched, failures, TypeOK, Control, ControlOk, Exclusion,
       InLock, Markers, MarkerOk, Marks, Marked, Schedule, Threads
<1>26. ASSUME NEW t \in Threads, ClearDue(t) PROVE
          /\ lock'[w] = lock[w] \/ lock[w] \in {NoOne, t}
          /\ Marked(w) \/ Marks(t, w) => (Marked(w) \/ Marks(t, w))'
    <2>1. CASE cur[t] = w
        BY <1>26, <2>1 DEF ClearDue, Return, Goto, sched, failures, TypeOK, Control,
           ControlOk, Exclusion, InLock, Markers, MarkerOk, Marks, Marked, Schedule, Threads
    <2>2. CASE cur[t] # w
        BY <1>26, <2>2 DEF ClearDue, Return, Goto, sched, failures, TypeOK, Control,
           ControlOk, Exclusion, InLock, Markers, MarkerOk, Marks, Marked, Schedule, Threads
    <2>3. QED
        BY <2>1, <2>2
<1>27. ASSUME NEW t \in Threads, LookAgain(t) PROVE
          /\ lock'[w] = lock[w] \/ lock[w] \in {NoOne, t}
          /\ Marked(w) \/ Marks(t, w) => (Marked(w) \/ Marks(t, w))'
    BY <1>27 DEF LookAgain, Goto, sched, failures, TypeOK, Control, ControlOk, Exclusion,
       InLock, Markers, MarkerOk, Marks, Marked, Schedule, Threads
<1>28. ASSUME NEW t \in Threads, Done(t) PROVE
          /\ lock'[w] = lock[w] \/ lock[w] \in {NoOne, t}
          /\ Marked(w) \/ Marks(t, w) => (Marked(w) \/ Marks(t, w))'
    BY <1>28 DEF Done, Goto, sched, failures, TypeOK, Control, ControlOk, Exclusion,
       InLock, Markers, MarkerOk, Marks, Marked, Schedule, Threads
<1>29. ASSUME NEW v \in Workspaces, Tick(v) PROVE (Marked(w) \/ \E s \in Threads : Marks(s, w))'
    BY <1>29 DEF Tick, failures, Marking, Marked, Marks
<1>30. ASSUME NEW t \in Threads, Start(t) \/ Advance(t)
       PROVE  (Marked(w) \/ \E s \in Threads : Marks(s, w))'
    <2>1. /\ lock'[w] = lock[w] \/ lock[w] \in {NoOne, t}
          /\ Marked(w) \/ Marks(t, w) => (Marked(w) \/ Marks(t, w))'
        BY <1>30, <1>1, <1>2, <1>3, <1>4, <1>5, <1>6, <1>7, <1>8, <1>9, <1>10, <1>11, <1>12,
           <1>13, <1>14, <1>15, <1>16, <1>17, <1>18, <1>19, <1>20, <1>21, <1>22, <1>23, <1>24,
           <1>25, <1>26, <1>27, <1>28 DEF Start, Advance
    <2>2. Marked(w) \/ \E s \in Threads : Marks(s, w)
        BY DEF Marking
    <2>3. QED
        BY <1>30, <2>1, <2>2, AloneStep, MarkKept
<1>31. QED
    BY <1>29, <1>30 DEF Next

\* The tokens in the queue after a token is pushed ...
LEMMA Pushed ==
    ASSUME queue \in Seq(Workspaces), NEW v \in Workspaces, queue' = Append(queue, v),
           NEW w \in Workspaces
    PROVE  Queued(w)' <=> Queued(w) \/ w = v
<1>1. Len(queue') = Len(queue) + 1
    OBVIOUS
<1>2. \A i \in 1..Len(queue) : queue'[i] = queue[i]
    OBVIOUS
<1>3. queue'[Len(queue) + 1] = v
    OBVIOUS
<1>4. DOMAIN queue = 1..Len(queue) /\ DOMAIN queue' = 1..Len(queue') /\ Len(queue) \in Nat
    OBVIOUS
<1>5. QED
    BY <1>1, <1>2, <1>3, <1>4 DEF Queued

\* ... after one is popped ...
LEMMA Popped ==
    ASSUME queue \in Seq(Workspaces), queue # <<>>, queue' = Tail(queue),
           NEW w \in Workspaces, Queued(w)
    PROVE  Queued(w)' \/ w = Head(queue)
<1>1. PICK i \in DOMAIN queue : queue[i] = w
    BY DEF Queued
<1>2. CASE i = 1
    BY <1>1, <1>2
<1>3. CASE i # 1
    <2>1. i \in 2..Len(queue)
        BY <1>1, <1>3
    <2>2. Len(queue') = Len(queue) - 1 /\ DOMAIN queue' = 1..Len(queue')
        OBVIOUS
    <2>3. i - 1 \in DOMAIN queue' /\ queue'[i - 1] = queue[i]
        BY <2>1, <2>2
    <2>4. QED
        BY <1>1, <2>3 DEF Queued
<1>4. QED
    BY <1>2, <1>3

\* ... and after a step that does not touch the queue.
LEMMA QueueKept ==
    ASSUME queue' = queue, NEW w \in Workspaces
    PROVE  Queued(w)' <=> Queued(w)
BY DEF Queued

\* When only t moves, a token of w that is in the queue or in the hands of t
\* stays there, and w is not newly enqueued without one, Tokens is kept for w.
LEMMA TokenKept ==
    ASSUME Tokens, NEW w \in Workspaces, NEW t \in Threads, Alone(t), enqueued'[w],
           enqueued[w] \/ Held(t, w)',
           Held(t, w) => Held(t, w)'
    PROVE  (Queued(w) \/ \E s \in Threads : cur[s] = w /\ Carries(s))'
<1>1. CASE Held(t, w)'
    BY <1>1 DEF Held
<1>2. CASE enqueued[w] /\ ~Held(t, w)
    <2>1. PICK s \in Threads : cur[s] = w /\ Carries(s)
        BY <1>2 DEF Held, Tokens
    <2>2. s # t
        BY <1>2, <2>1 DEF Held
    <2>3. (cur[s] = w /\ Carries(s))'
        BY <2>1, <2>2 DEF Alone, Carries, Serves
    <2>4. QED
        BY <2>3
<1>3. QED
    BY <1>1, <1>2

\* Every step preserves Tokens.
LEMMA TokensStep ==
    ASSUME TypeOK, Control, Tokens, Next
    PROVE  Tokens'
<1> SUFFICES ASSUME NEW w \in Workspaces, enqueued'[w]
             PROVE  (Queued(w) \/ \E s \in Threads : cur[s] = w /\ Carries(s))'
    BY DEF Tokens
<1> USE ThreadAssumption
<1>1. ASSUME NEW t \in Threads, NEW v \in Workspaces, StartEdit(t, v) PROVE
          (enqueued[w] \/ Held(t, w)') /\ (Held(t, w) => Held(t, w)')
    BY <1>1, QueueKept DEF StartEdit, Goto, sched, failures, TypeOK, Control, ControlOk,
       Held, Carries, Serves, Schedule, Threads
<1>2. ASSUME NEW t \in Threads, NEW v \in Workspaces, StartFlush(t, v) PROVE
          (enqueued[w] \/ Held(t, w)') /\ (Held(t, w) => Held(t, w)')
    BY <1>2, QueueKept DEF StartFlush, Goto, sched, failures, TypeOK, Control, ControlOk,
       Held, Carries, Serves, Schedule, Threads
<1>3. ASSUME NEW t \in Threads, Pop(t) PROVE
          (enqueued[w] \/ Held(t, w)') /\ (Held(t, w) => Held(t, w)')
    <2>1. CASE cur[t] = w
        BY <1>3, <2>1, Popped DEF Pop, Goto, sched, failures, TypeOK, Control, ControlOk,
           Held, Carries, Serves, Schedule, Threads
    <2>2. CASE cur[t] # w
        BY <1>3, <2>2, Popped DEF Pop, Goto, sched, failures, TypeOK, Control, ControlOk,
           Held, Carries, Serves, Schedule, Threads
    <2>3. QED
        BY <2>1, <2>2
<1>4. ASSUME NEW t \in Threads, CheckDead(t) PROVE
          (enqueued[w] \/ Held(t, w)') /\ (Held(t, w) => Held(t, w)')
    <2>1. CASE cur[t] = w
        BY <1>4, <2>1, QueueKept DEF CheckDead, Goto, sched, failures, TypeOK, Control,
           ControlOk, Held, Carries, Serves, Schedule, Threads
    <2>2. CASE cur[t] # w
        BY <1>4, <2>2, QueueKept DEF CheckDead, Goto, sched, failures, TypeOK, Control,
           ControlOk, Held, Carries, Serves, Schedule, Threads
    <2>3. QED
        BY <2>1, <2>2
<1>5. ASSUME NEW t \in Threads, CheckDue(t) PROVE
          (enqueued[w] \/ Held(t, w)') /\ (Held(t, w) => Held(t, w)')
    BY <1>5, QueueKept DEF CheckDue, Goto, sched, failures, TypeOK, Control, ControlOk,
       Held, Carries, Serves, Schedule, Threads
<1>6. ASSUME NEW t \in Threads, Requeue(t) PROVE
          (enqueued[w] \/ Held(t, w)') /\ (Held(t, w) => Held(t, w)')
    <2>1. CASE cur[t] = w
        BY <1>6, <2>1, Pushed DEF Requeue, Goto, sched, failures, TypeOK, Control,
           ControlOk, Held, Carries, Serves, Schedule, Threads
    <2>2. CASE cur[t] # w
        BY <1>6, <2>2, Pushed DEF Requeue, Goto, sched, failures, TypeOK, Control,
           ControlOk, Held, Carries, Serves, Schedule, Threads
    <2>3. QED
        BY <2>1, <2>2
<1>7. ASSUME NEW t \in Threads, Acquire(t) PROVE
          (enqueued[w] \/ Held(t, w)') /\ (Held(t, w) => Held(t, w)')
    BY <1>7, QueueKept DEF Acquire, Goto, sched, failures, TypeOK, Control, ControlOk,
       Held, Carries, Serves, Schedule, Threads
<1>8. ASSUME NEW t \in Threads, GiveUp(t) PROVE
          (enqueued[w] \/ Held(t, w)') /\ (Held(t, w) => Held(t, w)')
    <2>1. CASE cur[t] = w
        BY <1>8, <2>1, QueueKept DEF GiveUp, Goto, sched, failures, TypeOK, Control,
           ControlOk, Held, Carries, Serves, Schedule, Threads
    <2>2. CASE cur[t] # w
        BY <1>8, <2>2, QueueKept DEF GiveUp, Goto, sched, failures, TypeOK, Control,
           ControlOk, Held, Carries, Serves, Schedule, Threads
    <2>3. QED
        BY <2>1, <2>2
<1>9. ASSUME NEW t \in Threads, Unlock(t) PROVE
          (enqueued[w] \/ Held(t, w)') /\ (Held(t, w) => Held(t, w)')
    <2>1. CASE cur[t] = w
        BY <1>9, <2>1, QueueKept DEF Unlock, Goto, sched, failures, TypeOK, Control,
           ControlOk, Held, Carries, Serves, Schedule, Threads
    <2>2. CASE cur[t] # w
        BY <1>9, <2>2, QueueKept DEF Unlock, Goto, sched, failures, TypeOK, Control,
           ControlOk, Held, Carries, Serves, Schedule, Threads
    <2>3. QED
        BY <2>1, <2>2
<1>10. ASSUME NEW t \in Threads, Write(t) PROVE
          (enqueued[w] \/ Held(t, w)') /\ (Held(t, w) => Held(t, w)')
    BY <1>10, QueueKept DEF Write, Goto, sched, failures, TypeOK, Control, ControlOk, Held,
       Carries, Serves, Schedule, Threads
<1>11. ASSUME NEW t \in Threads, Mark(t) PROVE
          (enqueued[w] \/ Held(t, w)') /\ (Held(t, w) => Held(t, w)')
    BY <1>11, QueueKept DEF Mark, Goto, sched, failures, TypeOK, Control, ControlOk, Held,
       Carries, Serves, Schedule, Threads
<1>12. ASSUME NEW t \in Threads, EnqueueCheck(t) PROVE
          (enqueued[w] \/ Held(t, w)') /\ (Held(t, w) => Held(t, w)')
    <2>1. CASE cur[t] = w
        BY <1>12, <2>1, QueueKept DEF EnqueueCheck, Return, Goto, sched, failures, TypeOK,
           Control, ControlOk, Held, Carries, Serves, Schedule, Threads
    <2>2. CASE cur[t] # w
        BY <1>12, <2>2, QueueKept DEF EnqueueCheck, Return, Goto, sched, failures, TypeOK,
           Control, ControlOk, Held, Carries, Serves, Schedule, Threads
    <2>3. QED
        BY <2>1, <2>2
<1>13. ASSUME NEW t \in Threads, EnqueueDue(t) PROVE
          (enqueued[w] \/ Held(t, w)') /\ (Held(t, w) => Held(t, w)')
    BY <1>13, QueueKept DEF EnqueueDue, Goto, sched, failures, TypeOK, Control, ControlOk,
       Held, Carries, Serves, Schedule, Threads
<1>14. ASSUME NEW t \in Threads, EnqueueFlag(t) PROVE
          (enqueued[w] \/ Held(t, w)') /\ (Held(t, w) => Held(t, w)')
    <2>1. CASE cur[t] = w
        BY <1>14, <2>1, QueueKept DEF EnqueueFlag, Return, Goto, sched, failures, TypeOK,
           Control, ControlOk, Held, Carries, Serves, Schedule, Threads
    <2>2. CASE cur[t] # w
        BY <1>14, <2>2, QueueKept DEF EnqueueFlag, Return, Goto, sched, failures, TypeOK,
           Control, ControlOk, Held, Carries, Serves, Schedule, Threads
    <2>3. QED
        BY <2>1, <2>2
<1>15. ASSUME NEW t \in Threads, EnqueuePush(t) PROVE
          (enqueued[w] \/ Held(t, w)') /\ (Held(t, w) => Held(t, w)')
    <2>1. CASE cur[t] = w
        BY <1>15, <2>1, Pushed DEF EnqueuePush, Return, Goto, sched, failures, TypeOK,
           Control, ControlOk, Held, Carries, Serves, Schedule, Threads
    <2>2. CASE cur[t] # w
        BY <1>15, <2>2, Pushed DEF EnqueuePush, Return, Goto, sched, failures, TypeOK,
           Control, ControlOk, Held, Carries, Serves, Schedule, Threads
    <2>3. QED
        BY <2>1, <2>2
<1>16. ASSUME NEW t \in Threads, Snapshot(t) PROVE
          (enqueued[w] \/ Held(t, w)') /\ (Held(t, w) => Held(t, w)')
    <2>1. CASE cur[t] = w
        BY <1>16, <2>1, QueueKept DEF Snapshot, Goto, sched, failures, TypeOK, Control,
           ControlOk, Held, Carries, Serves, Schedule, Threads
    <2>2. CASE cur[t] # w
        BY <1>16, <2>2, QueueKept DEF Snapshot, Goto, sched, failures, TypeOK, Control,
           ControlOk, Held, Carries, Serves, Schedule, Threads
    <2>3. QED
        BY <2>1, <2>2
<1>17. ASSUME NEW t \in Threads, CommitOk(t) PROVE
          (enqueued[w] \/ Held(t, w)') /\ (Held(t, w) => Held(t, w)')
    BY <1>17, QueueKept DEF CommitOk, Goto, sched, failures, TypeOK, Control, ControlOk,
       Held, Carries, Serves, Schedule, Threads
<1>18. ASSUME NEW t \in Threads, CommitFails(t) PROVE
          (enqueued[w] \/ Held(t, w)') /\ (Held(t, w) => Held(t, w)')
    BY <1>18, QueueKept DEF CommitFails, Goto, sched, failures, TypeOK, Control, ControlOk,
       Held, Carries, Serves, Schedule, Threads
<1>19. ASSUME NEW t \in Threads, Confirm(t) PROVE
          (enqueued[w] \/ Held(t, w)') /\ (Held(t, w) => Held(t, w)')
    BY <1>19, QueueKept DEF Confirm, Goto, sched, failures, TypeOK, Control, ControlOk,
       Held, Carries, Serves, Schedule, Threads
<1>20. ASSUME NEW t \in Threads, Unmark(t) PROVE
          (enqueued[w] \/ Held(t, w)') /\ (Held(t, w) => Held(t, w)')
    BY <1>20, QueueKept DEF Unmark, Goto, sched, failures, TypeOK, Control, ControlOk,
       Held, Carries, Serves, Schedule, Threads
<1>21. ASSUME NEW t \in Threads, Forgive(t) PROVE
          (enqueued[w] \/ Held(t, w)') /\ (Held(t, w) => Held(t, w)')
    BY <1>21, QueueKept DEF Forgive, Goto, sched, failures, TypeOK, Control, ControlOk,
       Held, Carries, Serves, Schedule, Threads
<1>22. ASSUME NEW t \in Threads, Absolve(t) PROVE
          (enqueued[w] \/ Held(t, w)') /\ (Held(t, w) => Held(t, w)')
    BY <1>22, QueueKept DEF Absolve, Goto, sched, failures, TypeOK, Control, ControlOk,
       Held, Carries, Serves, Schedule, Threads
<1>23. ASSUME NEW t \in Threads, Record(t) PROVE
          (enqueued[w] \/ Held(t, w)') /\ (Held(t, w) => Held(t, w)')
    BY <1>23, QueueKept DEF Record, Goto, sched, failures, TypeOK, Control, ControlOk,
       Held, Carries, Serves, Schedule, Threads
<1>24. ASSUME NEW t \in Threads, Bury(t) PROVE
          (enqueued[w] \/ Held(t, w)') /\ (Held(t, w) => Held(t, w)')
    BY <1>24, QueueKept DEF Bury, Goto, sched, failures, TypeOK, Control, ControlOk, Held,
       Carries, Serves, Schedule, Threads
<1>25. ASSUME NEW t \in Threads, ClearFlag(t) PROVE
          (enqueued[w] \/ Held(t, w)') /\ (Held(t, w) => Held(t, w)')
    <2>1. CASE cur[t] = w
        BY <1>25, <2>1, QueueKept DEF ClearFlag, Goto, sched, failures, TypeOK, Control,
           ControlOk, Held, Carries, Serves, Schedule, Threads
    <2>2. CASE cur[t] # w
        BY <1>25, <2>2, QueueKept DEF ClearFlag, Goto, sched, failures, TypeOK, Control,
           ControlOk, Held, Carries, Serves, Schedule, Threads
    <2>3. QED
        BY <2>1, <2>2
<1>26. ASSUME NEW t \in Threads, ClearDue(t) PROVE
          (enqueued[w] \/ Held(t, w)') /\ (Held(t, w) => Held(t, w)')
    <2>1. CASE cur[t] = w
        BY <1>26, <2>1, QueueKept DEF ClearDue, Return, Goto, sched, failures, TypeOK,
           Control, ControlOk, Held, Carries, Serves, Schedule, Threads
    <2>2. CASE cur[t] # w
        BY <1>26, <2>2, QueueKept DEF ClearDue, Return, Goto, sched, failures, TypeOK,
           Control, ControlOk, Held, Carries, Serves, Schedule, Threads
    <2>3. QED
        BY <2>1, <2>2
<1>27. ASSUME NEW t \in Threads, LookAgain(t) PROVE
          (enqueued[w] \/ Held(t, w)') /\ (Held(t, w) => Held(t, w)')
    BY <1>27, QueueKept DEF LookAgain, Goto, sched, failures, TypeOK, Control, ControlOk,
       Held, Carries, Serves, Schedule, Threads
<1>28. ASSUME NEW t \in Threads, Done(t) PROVE
          (enqueued[w] \/ Held(t, w)') /\ (Held(t, w) => Held(t, w)')
    BY <1>28, QueueKept DEF Done, Goto, sched, failures, TypeOK, Control, ControlOk, Held,
       Carries, Serves, Schedule, Threads
<1>29. ASSUME NEW v \in Workspaces, Tick(v) PROVE
          (Queued(w) \/ \E s \in Threads : cur[s] = w /\ Carries(s))'
    BY <1>29, QueueKept DEF Tick, failures, Tokens, Carries, Serves
<1>30. QED
    BY <1>1, <1>2, <1>3, <1>4, <1>5, <1>6, <1>7, <1>8, <1>9, <1>10, <1>11, <1>12, <1>13,
       <1>14, <1>15, <1>16, <1>17, <1>18, <1>19, <1>20, <1>21, <1>22, <1>23, <1>24, <1>25,
          <1>26, <1>27, <1>28, <1>29, AloneStep, TokenKept DEF Next, Start, Advance

\* The same for Wakeups.
LEMMA WakeupKept ==
    ASSUME Wakeups, NEW w \in Workspaces, NEW t \in Threads, Alone(t),
           (dirty[w] > 0 /\ ~buried[w]) \/ Awake(t, w)',
           Awake(t, w) => Awake(t, w)'
    PROVE  (enqueued[w] \/ Queued(w) \/ \E s \in Threads : cur[s] = w /\ Owes(s))'
<1>1. CASE Awake(t, w)'
    BY <1>1 DEF Awake
<1>2. CASE dirty[w] > 0 /\ ~buried[w] /\ ~Awake(t, w)
    <2>1. PICK s \in Threads : cur[s] = w /\ Owes(s)
        BY <1>2 DEF Awake, Wakeups
    <2>2. s # t
        BY <1>2, <2>1 DEF Awake
    <2>3. (cur[s] = w /\ Owes(s))'
        BY <2>1, <2>2 DEF Alone, Owes, Serves
    <2>4. QED
        BY <2>3
<1>3. QED
    BY <1>1, <1>2

\* Every step preserves Wakeups.
LEMMA WakeupsStep ==
    ASSUME TypeOK, Control, Burial, Wakeups, Next
    PROVE  Wakeups'
<1> SUFFICES ASSUME NEW w \in Workspaces, dirty'[w] > 0, ~buried'[w]
             PROVE  (enqueued[w] \/ Queued(w) \/ \E s \in Threads : cur[s] = w /\ Owes(s))'
    BY DEF Wakeups
<1> USE ThreadAssumption, LimitAssumption
<1>1. ASSUME NEW t \in Threads, NEW v \in Workspaces, StartEdit(t, v) PROVE
          /\ (dirty[w] > 0 /\ ~buried[w]) \/ Awake(t, w)'
          /\ Awake(t, w) => Awake(t, w)'
    BY <1>1, QueueKept DEF StartEdit, Goto, sched, failures, TypeOK, Control, ControlOk,
       Burial, Awake, Owes, Serves, Schedule, Threads
<1>2. ASSUME NEW t \in Threads, NEW v \in Workspaces, StartFlush(t, v) PROVE
          /\ (dirty[w] > 0 /\ ~buried[w]) \/ Awake(t, w)'
          /\ Awake(t, w) => Awake(t, w)'
    BY <1>2, QueueKept DEF StartFlush, Goto, sched, failures, TypeOK, Control, ControlOk,
       Burial, Awake, Owes, Serves, Schedule, Threads
<1>3. ASSUME NEW t \in Threads, Pop(t) PROVE
          /\ (dirty[w] > 0 /\ ~buried[w]) \/ Awake(t, w)'
          /\ Awake(t, w) => Awake(t, w)'
    <2>1. CASE cur[t] = w
        BY <1>3, <2>1, Popped DEF Pop, Goto, sched, failures, TypeOK, Control, ControlOk,
           Burial, Awake, Owes, Serves, Schedule, Threads
    <2>2. CASE cur[t] # w
        BY <1>3, <2>2, Popped DEF Pop, Goto, sched, failures, TypeOK, Control, ControlOk,
           Burial, Awake, Owes, Serves, Schedule, Threads
    <2>3. QED
        BY <2>1, <2>2
<1>4. ASSUME NEW t \in Threads, CheckDead(t) PROVE
          /\ (dirty[w] > 0 /\ ~buried[w]) \/ Awake(t, w)'
          /\ Awake(t, w) => Awake(t, w)'
    <2>1. CASE cur[t] = w
        BY <1>4, <2>1, QueueKept DEF CheckDead, Goto, sched, failures, TypeOK, Control,
           ControlOk, Burial, Awake, Owes, Serves, Schedule, Threads
    <2>2. CASE cur[t] # w
        BY <1>4, <2>2, QueueKept DEF CheckDead, Goto, sched, failures, TypeOK, Control,
           ControlOk, Burial, Awake, Owes, Serves, Schedule, Threads
    <2>3. QED
        BY <2>1, <2>2
<1>5. ASSUME NEW t \in Threads, CheckDue(t) PROVE
          /\ (dirty[w] > 0 /\ ~buried[w]) \/ Awake(t, w)'
          /\ Awake(t, w) => Awake(t, w)'
    BY <1>5, QueueKept DEF CheckDue, Goto, sched, failures, TypeOK, Control, ControlOk,
       Burial, Awake, Owes, Serves, Schedule, Threads
<1>6. ASSUME NEW t \in Threads, Requeue(t) PROVE
          /\ (dirty[w] > 0 /\ ~buried[w]) \/ Awake(t, w)'
          /\ Awake(t, w) => Awake(t, w)'
    <2>1. CASE cur[t] = w
        BY <1>6, <2>1, Pushed DEF Requeue, Goto, sched, failures, TypeOK, Control,
           ControlOk, Burial, Awake, Owes, Serves, Schedule, Threads
    <2>2. CASE cur[t] # w
        BY <1>6, <2>2, Pushed DEF Requeue, Goto, sched, failures, TypeOK, Control,
           ControlOk, Burial, Awake, Owes, Serves, Schedule, Threads
    <2>3. QED
        BY <2>1, <2>2
<1>7. ASSUME NEW t \in Threads, Acquire(t) PROVE
          /\ (dirty[w] > 0 /\ ~buried[w]) \/ Awake(t, w)'
          /\ Awake(t, w) => Awake(t, w)'
    BY <1>7, QueueKept DEF Acquire, Goto, sched, failures, TypeOK, Control, ControlOk,
       Burial, Awake, Owes, Serves, Schedule, Threads
<1>8. ASSUME NEW t \in Threads, GiveUp(t) PROVE
          /\ (dirty[w] > 0 /\ ~buried[w]) \/ Awake(t, w)'
          /\ Awake(t, w) => Awake(t, w)'
    <2>1. CASE cur[t] = w
        BY <1>8, <2>1, QueueKept DEF GiveUp, Goto, sched, failures, TypeOK, Control,
           ControlOk, Burial, Awake, Owes, Serves, Schedule, Threads
    <2>2. CASE cur[t] # w
        BY <1>8, <2>2, QueueKept DEF GiveUp, Goto, sched, failures, TypeOK, Control,
           ControlOk, Burial, Awake, Owes, Serves, Schedule, Threads
    <2>3. QED
        BY <2>1, <2>2
<1>9. ASSUME NEW t \in Threads, Unlock(t) PROVE
          /\ (dirty[w] > 0 /\ ~buried[w]) \/ Awake(t, w)'
          /\ Awake(t, w) => Awake(t, w)'
    <2>1. CASE cur[t] = w
        BY <1>9, <2>1, QueueKept DEF Unlock, Goto, sched, failures, TypeOK, Control,
           ControlOk, Burial, Awake, Owes, Serves, Schedule, Threads
    <2>2. CASE cur[t] # w
        BY <1>9, <2>2, QueueKept DEF Unlock, Goto, sched, failures, TypeOK, Control,
           ControlOk, Burial, Awake, Owes, Serves, Schedule, Threads
    <2>3. QED
        BY <2>1, <2>2
<1>10. ASSUME NEW t \in Threads, Write(t) PROVE
          /\ (dirty[w] > 0 /\ ~buried[w]) \/ Awake(t, w)'
          /\ Awake(t, w) => Awake(t, w)'
    BY <1>10, QueueKept DEF Write, Goto, sched, failures, TypeOK, Control, ControlOk,
       Burial, Awake, Owes, Serves, Schedule, Threads
<1>11. ASSUME NEW t \in Threads, Mark(t) PROVE
          /\ (dirty[w] > 0 /\ ~buried[w]) \/ Awake(t, w)'
          /\ Awake(t, w) => Awake(t, w)'
    BY <1>11, QueueKept DEF Mark, Goto, sched, failures, TypeOK, Control, ControlOk,
       Burial, Awake, Owes, Serves, Schedule, Threads
<1>12. ASSUME NEW t \in Threads, EnqueueCheck(t) PROVE
          /\ (dirty[w] > 0 /\ ~buried[w]) \/ Awake(t, w)'
          /\ Awake(t, w) => Awake(t, w)'
    <2>1. CASE cur[t] = w
        BY <1>12, <2>1, QueueKept DEF EnqueueCheck, Return, Goto, sched, failures, TypeOK,
           Control, ControlOk, Burial, Awake, Owes, Serves, Schedule, Threads
    <2>2. CASE cur[t] # w
        BY <1>12, <2>2, QueueKept DEF EnqueueCheck, Return, Goto, sched, failures, TypeOK,
           Control, ControlOk, Burial, Awake, Owes, Serves, Schedule, Threads
    <2>3. QED
        BY <2>1, <2>2
<1>13. ASSUME NEW t \in Threads, EnqueueDue(t) PROVE
          /\ (dirty[w] > 0 /\ ~buried[w]) \/ Awake(t, w)'
          /\ Awake(t, w) => Awake(t, w)'
    BY <1>13, QueueKept DEF EnqueueDue, Goto, sched, failures, TypeOK, Control, ControlOk,
       Burial, Awake, Owes, Serves, Schedule, Threads
<1>14. ASSUME NEW t \in Threads, EnqueueFlag(t) PROVE
          /\ (dirty[w] > 0 /\ ~buried[w]) \/ Awake(t, w)'
          /\ Awake(t, w) => Awake(t, w)'
    <2>1. CASE cur[t] = w
        BY <1>14, <2>1, QueueKept DEF EnqueueFlag, Return, Goto, sched, failures, TypeOK,
           Control, ControlOk, Burial, Awake, Owes, Serves, Schedule, Threads
    <2>2. CASE cur[t] # w
        BY <1>14, <2>2, QueueKept DEF EnqueueFlag, Return, Goto, sched, failures, TypeOK,
           Control, ControlOk, Burial, Awake, Owes, Serves, Schedule, Threads
    <2>3. QED
        BY <2>1, <2>2
<1>15. ASSUME NEW t \in Threads, EnqueuePush(t) PROVE
          /\ (dirty[w] > 0 /\ ~buried[w]) \/ Awake(t, w)'
          /\ Awake(t, w) => Awake(t, w)'
    <2>1. CASE cur[t] = w
        BY <1>15, <2>1, Pushed DEF EnqueuePush, Return, Goto, sched, failures, TypeOK,
           Control, ControlOk, Burial, Awake, Owes, Serves, Schedule, Threads
    <2>2. CASE cur[t] # w
        BY <1>15, <2>2, Pushed DEF EnqueuePush, Return, Goto, sched, failures, TypeOK,
           Control, ControlOk, Burial, Awake, Owes, Serves, Schedule, Threads
    <2>3. QED
        BY <2>1, <2>2
<1>16. ASSUME NEW t \in Threads, Snapshot(t) PROVE
          /\ (dirty[w] > 0 /\ ~buried[w]) \/ Awake(t, w)'
          /\ Awake(t, w) => Awake(t, w)'
    <2>1. CASE cur[t] = w
        BY <1>16, <2>1, QueueKept DEF Snapshot, Goto, sched, failures, TypeOK, Control,
           ControlOk, Burial, Awake, Owes, Serves, Schedule, Threads
    <2>2. CASE cur[t] # w
        BY <1>16, <2>2, QueueKept DEF Snapshot, Goto, sched, failures, TypeOK, Control,
           ControlOk, Burial, Awake, Owes, Serves, Schedule, Threads
    <2>3. QED
        BY <2>1, <2>2
<1>17. ASSUME NEW t \in Threads, CommitOk(t) PROVE
          /\ (dirty[w] > 0 /\ ~buried[w]) \/ Awake(t, w)'
          /\ Awake(t, w) => Awake(t, w)'
    BY <1>17, QueueKept DEF CommitOk, Goto, sched, failures, TypeOK, Control, ControlOk,
       Burial, Awake, Owes, Serves, Schedule, Threads
<1>18. ASSUME NEW t \in Threads, CommitFails(t) PROVE
          /\ (dirty[w] > 0 /\ ~buried[w]) \/ Awake(t, w)'
          /\ Awake(t, w) => Awake(t, w)'
    BY <1>18, QueueKept DEF CommitFails, Goto, sched, failures, TypeOK, Control, ControlOk,
       Burial, Awake, Owes, Serves, Schedule, Threads
<1>19. ASSUME NEW t \in Threads, Confirm(t) PROVE
          /\ (dirty[w] > 0 /\ ~buried[w]) \/ Awake(t, w)'
          /\ Awake(t, w) => Awake(t, w)'
    <2>1. CASE cur[t] = w
        BY <1>19, <2>1, QueueKept DEF Confirm, Goto, sched, failures, TypeOK, Control,
           ControlOk, Burial, Awake, Owes, Serves, Schedule, Threads
    <2>2. CASE cur[t] # w
        BY <1>19, <2>2, QueueKept DEF Confirm, Goto, sched, failures, TypeOK, Control,
           ControlOk, Burial, Awake, Owes, Serves, Schedule, Threads
    <2>3. QED
        BY <2>1, <2>2
<1>20. ASSUME NEW t \in Threads, Unmark(t) PROVE
          /\ (dirty[w] > 0 /\ ~buried[w]) \/ Awake(t, w)'
          /\ Awake(t, w) => Awake(t, w)'
    BY <1>20, QueueKept DEF Unmark, Goto, sched, failures, TypeOK, Control, ControlOk,
       Burial, Awake, Owes, Serves, Schedule, Threads
<1>21. ASSUME NEW t \in Threads, Forgive(t) PROVE
          /\ (dirty[w] > 0 /\ ~buried[w]) \/ Awake(t, w)'
          /\ Awake(t, w) => Awake(t, w)'
    BY <1>21, QueueKept DEF Forgive, Goto, sched, failures, TypeOK, Control, ControlOk,
       Burial, Awake, Owes, Serves, Schedule, Threads
<1>22. ASSUME NEW t \in Threads, Absolve(t) PROVE
          /\ (dirty[w] > 0 /\ ~buried[w]) \/ Awake(t, w)'
          /\ Awake(t, w) => Awake(t, w)'
    BY <1>22, QueueKept DEF Absolve, Goto, sched, failures, TypeOK, Control, ControlOk,
       Burial, Awake, Owes, Serves, Schedule, Threads
<1>23. ASSUME NEW t \in Threads, Record(t) PROVE
          /\ (dirty[w] > 0 /\ ~buried[w]) \/ Awake(t, w)'
          /\ Awake(t, w) => Awake(t, w)'
    <2>1. CASE cur[t] = w
        BY <1>23, <2>1, QueueKept DEF Record, Goto, sched, failures, TypeOK, Control,
           ControlOk, Burial, Awake, Owes, Serves, Schedule, Threads
    <2>2. CASE cur[t] # w
        BY <1>23, <2>2, QueueKept DEF Record, Goto, sched, failures, TypeOK, Control,
           ControlOk, Burial, Awake, Owes, Serves, Schedule, Threads
    <2>3. QED
        BY <2>1, <2>2
<1>24. ASSUME NEW t \in Threads, Bury(t) PROVE
          /\ (dirty[w] > 0 /\ ~buried[w]) \/ Awake(t, w)'
          /\ Awake(t, w) => Awake(t, w)'
    <2>1. CASE cur[t] = w
        BY <1>24, <2>1, QueueKept DEF Bury, Goto, sched, failures, TypeOK, Control,
           ControlOk, Burial, Awake, Owes, Serves, Schedule, Threads
    <2>2. CASE cur[t] # w
        BY <1>24, <2>2, QueueKept DEF Bury, Goto, sched, failures, TypeOK, Control,
           ControlOk, Burial, Awake, Owes, Serves, Schedule, Threads
    <2>3. QED
        BY <2>1, <2>2
<1>25. ASSUME NEW t \in Threads, ClearFlag(t) PROVE
          /\ (dirty[w] > 0 /\ ~buried[w]) \/ Awake(t, w)'
          /\ Awake(t, w) => Awake(t, w)'
    <2>1. CASE cur[t] = w
        BY <1>25, <2>1, QueueKept DEF ClearFlag, Goto, sched, failures, TypeOK, Control,
           ControlOk, Burial, Awake, Owes, Serves, Schedule, Threads
    <2>2. CASE cur[t] # w
        BY <1>25, <2>2, QueueKept DEF ClearFlag, Goto, sched, failures, TypeOK, Control,
           ControlOk, Burial, Awake, Owes, Serves, Schedule, Threads
    <2>3. QED
        BY <2>1, <2>2
<1>26. ASSUME NEW t \in Threads, ClearDue(t) PROVE
          /\ (dirty[w] > 0 /\ ~buried[w]) \/ Awake(t, w)'
          /\ Awake(t, w) => Awake(t, w)'
    <2>1. CASE cur[t] = w
        BY <1>26, <2>1, QueueKept DEF ClearDue, Return, Goto, sched, failures, TypeOK,
           Control, ControlOk, Burial, Awake, Owes, Serves, Schedule, Threads
    <2>2. CASE cur[t] # w
        BY <1>26, <2>2, QueueKept DEF ClearDue, Return, Goto, sched, failures, TypeOK,
           Control, ControlOk, Burial, Awake, Owes, Serves, Schedule, Threads
    <2>3. QED
        BY <2>1, <2>2
<1>27. ASSUME NEW t \in Threads, LookAgain(t) PROVE
          /\ (dirty[w] > 0 /\ ~buried[w]) \/ Awake(t, w)'
          /\ Awake(t, w) => Awake(t, w)'
    <2>1. CASE cur[t] = w
        BY <1>27, <2>1, QueueKept DEF LookAgain, Goto, sched, failures, TypeOK, Control,
           ControlOk, Burial, Awake, Owes, Serves, Schedule, Threads
    <2>2. CASE cur[t] # w
        BY <1>27, <2>2, QueueKept DEF LookAgain, Goto, sched, failures, TypeOK, Control,
           ControlOk, Burial, Awake, Owes, Serves, Schedule, Threads
    <2>3. QED
        BY <2>1, <2>2
<1>28. ASSUME NEW t \in Threads, Done(t) PROVE
          /\ (dirty[w] > 0 /\ ~buried[w]) \/ Awake(t, w)'
          /\ Awake(t, w) => Awake(t, w)'
    <2>1. CASE cur[t] = w
        BY <1>28, <2>1, QueueKept DEF Done, Goto, sched, failures, TypeOK, Control,
           ControlOk, Burial, Awake, Owes, Serves, Schedule, Threads
    <2>2. CASE cur[t] # w
        BY <1>28, <2>2, QueueKept DEF Done, Goto, sched, failures, TypeOK, Control,
           ControlOk, Burial, Awake, Owes, Serves, Schedule, Threads
    <2>3. QED
        BY <2>1, <2>2
<1>29. ASSUME NEW v \in Workspaces, Tick(v) PROVE
          (enqueued[w] \/ Queued(w) \/ \E s \in Threads : cur[s] = w /\ Owes(s))'
    BY <1>29, QueueKept DEF Tick, failures, Wakeups, Owes, Serves
<1>30. QED
    BY <1>1, <1>2, <1>3, <1>4, <1>5, <1>6, <1>7, <1>8, <1>9, <1>10, <1>11, <1>12, <1>13,
       <1>14, <1>15, <1>16, <1>17, <1>18, <1>19, <1>20, <1>21, <1>22, <1>23, <1>24, <1>25,
          <1>26, <1>27, <1>28, <1>29, AloneStep, WakeupKept DEF Next, Start, Advance

-----------------------------------------------------------------------------
(* The theorems.                                                            *)

\* The initial states satisfy the inductive invariant.
LEMMA InitIInv == Init => IInv
BY ThreadAssumption, LimitAssumption
   DEF Init, IInv, TypeOK, Labels, Returns, Control, ControlOk, Exclusion, InLock, Schedule,
       Markers, MarkerOk, Marking, Marked, Burial, Tokens, Wakeups

\* Every step, stuttering included, preserves it.
LEMMA StepIInv == IInv /\ [Next]_vars => IInv'
<1> SUFFICES ASSUME IInv, [Next]_vars PROVE IInv'
    OBVIOUS
<1>1. CASE Next
    BY <1>1, TypeStep, ControlStep, ExclusionStep, MarkersStep, MarkingStep, BurialStep,
       TokensStep, WakeupsStep DEF IInv
<1>2. CASE UNCHANGED vars
    BY <1>2 DEF vars, sched, failures, IInv, TypeOK, Control, ControlOk, Exclusion, InLock,
       Markers, MarkerOk, Marking, Marked, Marks, Burial, Tokens, Carries, Wakeups, Owes,
       Serves, Queued
<1>3. QED
    BY <1>1, <1>2

\* The inductive invariant holds in every reachable state.
LEMMA InvariantHolds == Spec => []IInv
BY InitIInv, StepIInv, PTL DEF Spec

\* The variables keep their types, whatever the numbers of workspaces and
\* threads, the batch size and the failure limit.
THEOREM TypeCorrect == Spec => []TypeOK
<1>1. IInv => TypeOK
    BY DEF IInv
<1>2. QED
    BY <1>1, InvariantHolds, PTL

\* The checkpoint schedule loses no wake-up: a dirty workspace that nobody is
\* working on and that was never dead-lettered has its token in the queue.
THEOREM NoWakeupIsLost == Spec => []NoLostWakeup
<1>1. IInv => NoLostWakeup
    BY DEF IInv, NoLostWakeup, Idle, Wakeups, Owes, Tokens, Carries, Serves, Schedule
<1>2. QED
    BY <1>1, InvariantHolds, PTL

\* The enqueued set is truthful: an enqueued workspace that nobody is working
\* on has its token in the queue.
THEOREM FlagsAreTrue == Spec => []FlagTruth
<1>1. IInv => FlagTruth
    BY DEF IInv, FlagTruth, Idle, Tokens, Carries, Serves
<1>2. QED
    BY <1>1, InvariantHolds, PTL

\* The set of dirty workspaces is exact whenever the workspace lock is free.
THEOREM DirtySetIsTrue == Spec => []DirtySetTruth
<1>1. IInv => DirtySetTruth
    <2> SUFFICES ASSUME IInv, NEW w \in Workspaces, lock[w] = NoOne
                 PROVE  marked[w] <=> dirty[w] > 0
        BY DEF DirtySetTruth
    <2>1. \A t \in Threads : ~Marks(t, w)
        BY ThreadAssumption DEF Marks
    <2>2. QED
        BY <2>1 DEF IInv, Marking, Marked
<1>2. QED
    BY <1>1, InvariantHolds, PTL
=============================================================================
