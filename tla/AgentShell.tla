----------------------------- MODULE AgentShell -----------------------------
(***************************************************************************)
(* The callers of a workspace: agents that run command chains              *)
(* (integrations/agent/shell.py), hosts that write files or switch the     *)
(* access mode (service_ops/file_api.py, integrations/agent/access_mode.py)*)
(* and the worker that stores the command log (service_ops/state.py).      *)
(*                                                                         *)
(* The access mode is checked before the workspace lock is taken. A chain  *)
(* holds the lock; every command of it saves what it changed. At its end   *)
(* the task guidance is brought up to date: the paths that were written,   *)
(* read back and removed, from which `status` and `verify` take what is    *)
(* still to be read back (integrations/agent/guidance.py).                 *)
(*                                                                         *)
(* With the local-memory store all threads share one mirror object. With   *)
(* Redis a chain works on a copy it loaded, its commands load and save     *)
(* copies of their own, and the chain's end loads a third one.             *)
(*                                                                         *)
(* A content is the number of the call that wrote it, 0 before any.        *)
(***************************************************************************)
EXTENDS Integers, Sequences, FiniteSets, SequencesExt

CONSTANTS
    Runtimes,     \* stores to consider, of "local" and "redis"
    Agents,       \* threads that run chains
    Hosts,        \* threads that write files and switch the mode
    Paths,        \* paths of files
    Seeded,       \* those that exist at first
    HostPaths,    \* those that hosts write
    Chains,       \* command chains that agents run
    MaxTracked,   \* MAX_TRACKED_PATHS
    QueueSize,    \* size of the log queue
    LogBatch,     \* rows inserted at once
    NoOne,        \* holder of a free lock
    MaxCalls,     \* bound on the calls
    MaxFaults     \* bound on the exceptions

Threads == Agents \cup Hosts
Modes == {"host", "agent"}

\* A command: what it does, to which path, and whether it follows a &&.
Commands ==
    [op : {"create", "overwrite", "edit", "cat", "verify", "rm", "xargs touch", "cd"},
     path : Paths, and : BOOLEAN]

ASSUME ShellAssumption ==
    /\ Runtimes \subseteq {"local", "redis"}
    /\ NoOne \notin Threads
    /\ Agents \cap Hosts = {}
    /\ Seeded \subseteq Paths /\ HostPaths \subseteq Paths
    /\ Chains \subseteq Seq(Commands)
    /\ {MaxTracked, QueueSize, LogBatch} \subseteq Nat \ {0}
    /\ {MaxCalls, MaxFaults} \subseteq Nat

VARIABLES
    runtime,   \* the store of this execution
    ws,        \* the runtime state: mode, cwd, files, guidance
    lock,      \* holder of the workspace lock
    th,        \* th[t]: the call of thread t
    calls,     \* calls begun
    logQueue, batch, log,  \* the queue, what the worker took, the table
    faults,
    hist       \* history, see below

vars == <<runtime, ws, lock, th, calls, logQueue, batch, log, faults, hist>>

Absent == -1
Idle == [pc |-> "idle"]
NoGuidance == [written |-> <<>>, verified |-> <<>>, removed |-> <<>>]

(* History: written: paths that some chain wrote; unread: those written    *)
(* since they were last read back; exempt: paths the guidance cannot keep  *)
(* track of; answered: calls of agents that were answered; dropped: those  *)
(* whose log entry was dropped; seen[t]: modes that were set while the     *)
(* call of t ran.                                                          *)
Init ==
    /\ runtime \in Runtimes
    /\ \E mode \in Modes :
          /\ ws = [mode |-> mode, cwd |-> "root", guidance |-> NoGuidance,
                   files |-> [p \in Paths |-> IF p \in Seeded THEN 0 ELSE Absent]]
          /\ hist = [written |-> {}, unread |-> {}, exempt |-> {},
                     answered |-> {}, dropped |-> {},
                     seen |-> [t \in Threads |-> {mode}]]
    /\ lock = NoOne
    /\ th = [t \in Threads |-> Idle]
    /\ calls = 0
    /\ logQueue = <<>> /\ batch = <<>> /\ log = <<>>
    /\ faults = 0

-----------------------------------------------------------------------------
(* Task guidance, as values.                                               *)

Member(seq, x) == \E i \in DOMAIN seq : seq[i] = x
\* The elements of seq that are in S, in order.
Keep(seq, S) == FoldLeft(LAMBDA kept, x : IF x \in S THEN Append(kept, x) ELSE kept, <<>>, seq)
AppendUnique(seq, x) == IF Member(seq, x) THEN seq ELSE Append(seq, x)

\* Mutant: the list only grows.
TrimNot(seq) == seq

Trim(seq) == IF Len(seq) <= MaxTracked THEN seq
             ELSE SubSeq(seq, Len(seq) - MaxTracked + 1, Len(seq))

\* Mutant: a path that is written again stays verified.
NoteStaleVerified(g, e) ==
    CASE e.kind = "write" -> [g EXCEPT !.written = AppendUnique(@, e.path)]
      [] e.kind = "remove" -> [g EXCEPT !.removed = AppendUnique(@, e.path)]
      [] e.kind = "read" ->
            IF Member(g.written, e.path) /\ ~Member(g.removed, e.path)
            THEN [g EXCEPT !.verified = AppendUnique(@, e.path)] ELSE g

\* What one event does to the tracked paths.
Note(g, e) ==
    CASE e.kind = "write" ->
            [g EXCEPT !.written = AppendUnique(@, e.path),
                      !.verified = Keep(@, Paths \ {e.path})]
      [] e.kind = "remove" -> [g EXCEPT !.removed = AppendUnique(@, e.path)]
      [] e.kind = "read" ->
            IF Member(g.written, e.path) /\ ~Member(g.removed, e.path)
            THEN [g EXCEPT !.verified = AppendUnique(@, e.path)] ELSE g

Apply(g, events) ==
    LET all == FoldLeft(Note, g, events)
    IN [all EXCEPT !.written = Trim(@), !.verified = Trim(@), !.removed = Trim(@)]

\* The paths that are still to be read back, in order.
Required(g) ==
    Keep(g.written, Paths \ (ToSet(g.removed) \cup ToSet(g.verified)))

-----------------------------------------------------------------------------
(* Commands.                                                               *)

Event(kind, path) == [kind |-> kind, path |-> path]
Outcome(files, exit, events) == [files |-> files, exit |-> exit, events |-> events]

\* What a command of call n may do: `pending` is what `verify` reads back. An
\* edit that does not find its text fails, and yet its result names the path
\* and counts as a write. What xargs runs is in no summary.
Outcomes(c, n, files, pending) ==
    LET there == files[c.path] # Absent
        Put == [files EXCEPT ![c.path] = n]
        Fail == Outcome(files, 1, <<>>)
    IN CASE c.op = "create" ->          \* > path
            {IF there THEN Fail ELSE Outcome(Put, 0, <<Event("write", c.path)>>)}
         [] c.op = "overwrite" ->       \* >| path
            {Outcome(Put, 0, <<Event("write", c.path)>>)}
         [] c.op = "edit" ->
            IF there THEN {Outcome(Put, 0, <<Event("write", c.path)>>),
                           Outcome(files, 1, <<Event("write", c.path)>>)}
            ELSE {Fail}
         [] c.op = "cat" ->
            {IF there THEN Outcome(files, 0, <<Event("read", c.path)>>) ELSE Fail}
         [] c.op = "verify" ->
            {IF \A i \in DOMAIN pending : files[pending[i]] # Absent
             THEN Outcome(files, 0, [i \in DOMAIN pending |-> Event("read", pending[i])])
             ELSE Fail}
         [] c.op = "rm" ->
            {IF there THEN Outcome([files EXCEPT ![c.path] = Absent], 0,
                                   <<Event("remove", c.path)>>)
             ELSE Fail}
         [] c.op = "xargs touch" ->
            {Outcome(IF there THEN files ELSE Put, 0, <<>>)}
         [] c.op = "cd" -> {Outcome(files, 0, <<>>)}

PathsOf(events, kind) == {e.path : e \in {x \in ToSet(events) : x.kind = kind}}

-----------------------------------------------------------------------------
(* Calls.                                                                  *)

\* A call ends: with an answer, or with an exception.
Return(t) == th' = [th EXCEPT ![t] = Idle]

Goto(t, pc) == th' = [th EXCEPT ![t].pc = pc]

\* A thread begins a call; ensure_virtual_workspace finds the runtime state.
Begin(t, call) ==
    /\ th[t] = Idle
    /\ calls < MaxCalls
    /\ calls' = calls + 1
    /\ th' = [th EXCEPT ![t] = call]
    /\ hist' = [hist EXCEPT !.seen[t] = {ws.mode}]
    /\ UNCHANGED <<runtime, ws, lock, logQueue, batch, log, faults>>

ModeFor(t) == IF t \in Agents THEN "agent" ELSE "host"

\* Mutant: only agents are held to their mode.
CheckModeOfAgents(t) ==
    /\ th[t].pc = "check"
    /\ IF ws.mode = ModeFor(t) \/ t \in Hosts
       THEN Goto(t, IF t \in Agents THEN "lock" ELSE "look") ELSE Return(t)
    /\ UNCHANGED <<runtime, ws, lock, calls, logQueue, batch, log, faults, hist>>

\* assert_workspace_access_mode, without the workspace lock.
CheckMode(t) ==
    /\ th[t].pc = "check"
    /\ IF ws.mode = ModeFor(t)
       THEN Goto(t, IF t \in Agents THEN "lock" ELSE "look") ELSE Return(t)
    /\ UNCHANGED <<runtime, ws, lock, calls, logQueue, batch, log, faults, hist>>

\* What a host write has to take the lock for.
Writes(t) == th[t].found = Absent \/ th[t].overwrite

\* Waiting for the Redis lock ends after five seconds.
TimesOut(t) ==
    /\ th[t].pc \in {"lock", "put", "switch"}
    /\ th[t].pc = "put" => Writes(t)
    /\ runtime = "redis" /\ lock # NoOne
    /\ Return(t)
    /\ UNCHANGED <<runtime, ws, lock, calls, logQueue, batch, log, faults, hist>>

-----------------------------------------------------------------------------
(* run_virtual_bash.                                                       *)

\* The chain takes the lock and loads the mirror.
Acquire(t) ==
    /\ th[t].pc = "lock"
    /\ lock = NoOne
    /\ lock' = t
    /\ th' = [th EXCEPT ![t] = [pc |-> "run", call |-> @.call, chain |-> @.chain,
                                mirror |-> ws, cwd |-> ws.cwd, exit |-> 0, events |-> <<>>]]
    /\ UNCHANGED <<runtime, ws, calls, logQueue, batch, log, faults, hist>>

\* The mirror object of the chain: the shared one, or its own copy.
Mirror(t) == IF runtime = "local" THEN ws ELSE th[t].mirror

\* `verify` finds an active mirror only with the local store.
PendingOf(t) == IF runtime = "local" THEN Required(ws.guidance) ELSE <<>>

\* The next command of the chain, after && only if the last one succeeded.
Step(t) ==
    LET c == Head(th[t].chain)
    IN /\ th[t].pc = "run"
       /\ th[t].chain # <<>>
       /\ IF c.and /\ th[t].exit # 0
          THEN /\ th' = [th EXCEPT ![t].chain = Tail(@)]
               /\ UNCHANGED <<ws, hist>>
          ELSE \E o \in Outcomes(c, th[t].call, ws.files, PendingOf(t)) :
               /\ ws' = [ws EXCEPT !.files = o.files,
                                   !.cwd = IF c.op = "cd" THEN c.path ELSE @]
               /\ th' = [th EXCEPT ![t].chain = Tail(@), ![t].exit = o.exit,
                                   ![t].cwd = IF c.op = "cd" THEN c.path ELSE @,
                                   ![t].events = @ \o o.events]
               /\ LET w == PathsOf(o.events, "write")
                  IN hist' = [hist EXCEPT
                        !.written = @ \cup w,
                        !.unread = (@ \cup w) \ PathsOf(o.events, "read"),
                        !.exempt = @ \cup PathsOf(o.events, "remove")]
       /\ UNCHANGED <<runtime, lock, calls, logQueue, batch, log, faults>>

\* A command raises: what ran before stays, the guidance never hears of it.
Raise(t) ==
    /\ th[t].pc = "run"
    /\ faults < MaxFaults
    /\ faults' = faults + 1
    /\ lock' = NoOne
    /\ th' = [th EXCEPT ![t] = Idle]
    /\ hist' = [hist EXCEPT !.exempt = @ \cup PathsOf(th[t].events, "write")]
    /\ UNCHANGED <<runtime, ws, calls, logQueue, batch, log>>

\* Mutant: the chain's own copy is saved.
FinishStale(t) ==
    /\ th[t].pc = "run"
    /\ th[t].chain = <<>>
    /\ ws' = [Mirror(t) EXCEPT !.guidance = Apply(@, th[t].events), !.cwd = th[t].cwd]
    /\ lock' = NoOne
    /\ Goto(t, "log")
    /\ UNCHANGED <<runtime, calls, logQueue, batch, log, faults, hist>>

\* The end of the chain. The guidance goes into the chain's mirror; what is
\* saved is that object with the local store, and with Redis a mirror that is
\* loaded again, of which only the working directory changes.
Finish(t) ==
    /\ th[t].pc = "run"
    /\ th[t].chain = <<>>
    /\ ws' = [ws EXCEPT !.cwd = th[t].cwd,
                        !.guidance = IF runtime = "redis" THEN @
                                     ELSE Apply(Mirror(t).guidance, th[t].events)]
    /\ lock' = NoOne
    /\ Goto(t, "log")
    /\ UNCHANGED <<runtime, calls, logQueue, batch, log, faults, hist>>

\* enqueue_virtual_command_log, which drops the entry when the queue is full;
\* then the call returns.
Log(t) ==
    /\ th[t].pc = "log"
    /\ th' = [th EXCEPT ![t] = Idle]
    /\ LET full == Len(logQueue) >= QueueSize
       IN /\ logQueue' = IF full THEN logQueue ELSE Append(logQueue, th[t].call)
          /\ hist' = [hist EXCEPT !.answered = @ \cup {th[t].call},
                                  !.dropped = IF full THEN @ \cup {th[t].call} ELSE @]
    /\ UNCHANGED <<runtime, ws, lock, calls, batch, log, faults>>

-----------------------------------------------------------------------------
(* write_workspace_file, set_workspace_access_mode.                        *)

\* seed_workspace_file resolves the path, without the lock.
Look(t) ==
    /\ th[t].pc = "look"
    /\ th' = [th EXCEPT ![t] = [pc |-> "put", call |-> @.call, path |-> @.path,
                                overwrite |-> @.overwrite, found |-> ws.files[@.path]]]
    /\ UNCHANGED <<runtime, ws, lock, calls, logQueue, batch, log, faults, hist>>

\* A file that was not found is created under the lock, unless it is there by
\* now; one that was found is overwritten, though it may be gone by now, or
\* reported as a conflict.
Put(t) ==
    LET p == th[t].path
    IN /\ th[t].pc = "put"
       /\ Writes(t) => lock = NoOne
       /\ ws' = IF Writes(t) /\ (th[t].found = Absent => ws.files[p] = Absent)
                THEN [ws EXCEPT !.files[p] = th[t].call] ELSE ws
       /\ Return(t)
       /\ UNCHANGED <<runtime, lock, calls, logQueue, batch, log, faults, hist>>

\* A host asks for a mode.
BeginSwitch(t, mode) ==
    /\ th[t] = Idle
    /\ calls < MaxCalls
    /\ calls' = calls + 1
    /\ th' = [th EXCEPT ![t] = [pc |-> "switch", call |-> calls + 1, mode |-> mode]]
    /\ UNCHANGED <<runtime, ws, lock, logQueue, batch, log, faults, hist>>

\* The mode changes under the lock. (So does the row object of the caller's
\* session, which is the caller's to commit.)
Switch(t) ==
    /\ th[t].pc = "switch"
    /\ lock = NoOne
    /\ ws' = [ws EXCEPT !.mode = th[t].mode]
    /\ th' = [th EXCEPT ![t] = Idle]
    /\ hist' = [hist EXCEPT !.seen = [u \in Threads |-> @[u] \cup {th[t].mode}]]
    /\ UNCHANGED <<runtime, lock, calls, logQueue, batch, log, faults>>

\* Writing the row raises: the mirror that all share has changed already, a
\* copy is thrown away.
SwitchRaises(t) ==
    /\ th[t].pc = "switch"
    /\ lock = NoOne
    /\ ws.mode # th[t].mode
    /\ faults < MaxFaults
    /\ faults' = faults + 1
    /\ ws' = IF runtime = "local" THEN [ws EXCEPT !.mode = th[t].mode] ELSE ws
    /\ th' = [th EXCEPT ![t] = Idle]
    /\ hist' = [hist EXCEPT !.seen = [u \in Threads |-> @[u] \cup {ws'.mode}]]
    /\ UNCHANGED <<runtime, lock, calls, logQueue, batch, log>>

-----------------------------------------------------------------------------
(* The log worker.                                                         *)

\* It takes entries until the queue is empty or the batch is full.
Fetch ==
    /\ logQueue # <<>>
    /\ Len(batch) < LogBatch
    /\ batch' = Append(batch, Head(logQueue))
    /\ logQueue' = Tail(logQueue)
    /\ UNCHANGED <<runtime, ws, lock, th, calls, log, faults, hist>>

\* Mutant: it waits for a full batch.
InsertFull ==
    /\ Len(batch) = LogBatch
    /\ log' = log \o batch
    /\ batch' = <<>>
    /\ UNCHANGED <<runtime, ws, lock, th, calls, logQueue, faults, hist>>

\* bulk_insert_command_logs.
Insert ==
    /\ batch # <<>>
    /\ logQueue = <<>> \/ Len(batch) = LogBatch
    /\ log' = log \o batch
    /\ batch' = <<>>
    /\ UNCHANGED <<runtime, ws, lock, th, calls, logQueue, faults, hist>>

\* The insert raises: the batch is lost.
InsertRaises ==
    /\ batch # <<>>
    /\ faults < MaxFaults
    /\ faults' = faults + 1
    /\ batch' = <<>>
    /\ hist' = [hist EXCEPT !.dropped = @ \cup ToSet(batch)]
    /\ UNCHANGED <<runtime, ws, lock, th, calls, logQueue, log>>

-----------------------------------------------------------------------------
\* The steps of a call that has begun.
Proceed(t) ==
    \/ CheckMode(t) \/ TimesOut(t)
    \/ Acquire(t) \/ Step(t) \/ Finish(t) \/ Log(t)
    \/ Look(t) \/ Put(t) \/ Switch(t)

Next ==
    \/ \E t \in Agents : \E c \in Chains :
          Begin(t, [pc |-> "check", call |-> calls + 1, chain |-> c])
    \/ \E t \in Hosts :
          \/ \E p \in HostPaths, o \in BOOLEAN :
                Begin(t, [pc |-> "check", call |-> calls + 1, path |-> p, overwrite |-> o])
          \/ \E mode \in Modes : BeginSwitch(t, mode)
          \/ SwitchRaises(t)
    \/ \E t \in Agents : Raise(t)
    \/ \E t \in Threads : Proceed(t)
    \/ Fetch \/ Insert \/ InsertRaises

Spec == Init /\ [][Next]_vars

(* Threads run, and the log worker is a daemon thread. A thread that waits  *)
(* for the local lock may wait for long, but the calls are finitely many.   *)
LiveSpec == Spec /\ (\A t \in Threads : WF_vars(Proceed(t))) /\ WF_vars(Fetch \/ Insert)

-----------------------------------------------------------------------------
(* Properties.                                                             *)

PathLists == UNION {[1..n -> Paths] : n \in 0..MaxTracked}

TypeOK ==
    /\ runtime \in Runtimes
    /\ ws.mode \in Modes
    /\ ws.files \in [Paths -> Absent..MaxCalls]
    /\ ws.guidance \in [written : PathLists, verified : PathLists, removed : PathLists]
    /\ lock \in Agents \cup {NoOne}
    /\ \A t \in Threads :
          /\ th[t].pc \in {"idle", "check", "lock", "run", "log", "look", "put", "switch"}
          /\ th[t].pc = "run" <=> lock = t
    /\ Len(logQueue) <= QueueSize /\ Len(batch) <= LogBatch

\* What chains wrote and did not read back since is asked for: `status`,
\* `verify` and the answer of every call list it. Exempt are paths that were
\* removed once, though they may have been written again, writes of chains
\* that raised, and everything when more paths than the guidance keeps were
\* written.
Asked == Cardinality(hist.written) <= MaxTracked =>
             hist.unread \ hist.exempt \subseteq ToSet(Required(ws.guidance))

\* With the local-memory store, whatever the calls of other threads do.
UnreadIsAsked == runtime = "local" /\ lock = NoOne => Asked

\* With either store (docs/api_integration.en.md:190, `verify` "automatically
\* reads back the current pending verification files").
PendingIsRemembered == lock = NoOne => Asked

\* The end of a chain, where a whole mirror is saved, takes nothing back of
\* what its commands or anyone else saved.
FinishKeepsWork ==
    [][lock # NoOne /\ lock' = NoOne =>
          /\ ws'.files = ws.files /\ ws'.mode = ws.mode]_vars

\* A call in whose whole duration the mode was the other one changes no file,
\* although the mode is checked without the lock
\* (docs/api_integration.en.md:350-351).
ModeIsRespected ==
    [][ws'.files # ws.files =>
          \A t \in Threads : th'[t] # th[t] => ModeFor(t) \in hist.seen[t]]_vars

\* No agent changes a file in host mode (docs/api_integration.en.md:350,
\* "`workspace.bash(...)` requires `agent` mode").
AgentModeOnly ==
    [][ws'.files # ws.files /\ lock # NoOne => ws.mode = "agent"]_vars

\* A chain that was answered is in the log in the end, and once, unless the
\* queue was full or the insert of its batch raised.
AnsweredIsLogged ==
    \A n \in 1..MaxCalls :
        n \in hist.answered ~>
            n \in hist.dropped \/ Cardinality({i \in DOMAIN log : log[i] = n}) = 1
=============================================================================
