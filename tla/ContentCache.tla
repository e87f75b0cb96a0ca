---------------------------- MODULE ContentCache ----------------------------
(***************************************************************************)
(* The write-behind cache of file contents (cache/ops.py, cache/worker.py) *)
(* that serves a workspace without a runtime mirror. Every process has its *)
(* own: entries, an LRU order, the set of dirty ids and a count of bytes,  *)
(* all under one lock, so a get or a write is one step. The flusher thread *)
(* of the process copies what is pending under the lock, updates the row   *)
(* without it, on condition that the row still has the version the entry   *)
(* was last flushed at, and takes the lock again to settle.                *)
(*                                                                         *)
(* A caller hands over a row object that its session read earlier, which   *)
(* need not be what the table holds by then. A content is an id and a      *)
(* size: id 0 is the initial content of every file, id n > 0 is what the   *)
(* n-th write wrote. Pending versions have distinct numbers, growing as    *)
(* they are appended, so that a set of them is as good as the list.        *)
(***************************************************************************)
EXTENDS Integers, SequencesExt

CONSTANTS
    Processes,  \* processes that share the database
    Files,      \* ids of the file rows
    Sizes,      \* sizes a content may have
    MaxBytes,   \* MEMORY_CACHE_MAX_BYTES
    MaxFiles,   \* MEMORY_CACHE_MAX_FILES
    FlushBatch, \* MEMORY_CACHE_FLUSH_BATCH
    MaxWrites,  \* bound on the number of writes
    MaxErrors   \* bound on the number of broken transactions

ASSUME CacheAssumption ==
    /\ IsFiniteSet(Files)
    /\ Sizes \subseteq Nat /\ Sizes # {}
    /\ {MaxBytes, MaxFiles, FlushBatch} \subseteq Nat \ {0}
    /\ {MaxWrites, MaxErrors} \subseteq Nat

VARIABLES
    row,        \* row[f]: version and content in virtual_file_nodes
    node,       \* node[p][f]: the row as a session of p read it last
    cache,      \* cache[p]: entries, lru, bytes
    dirtyIds,   \* dirtyIds[p]: mem_cache_dirty_ids
    job,        \* job[p]: the flusher: where it is, ids to do, what it copied
    parent,     \* history: parent[n] is the content the n-th write replaced
    dropped,    \* history: contents discarded at a counted conflict
    outgrown,   \* history: some file was larger than the whole cache
    errors      \* broken transactions so far

vars == <<row, node, cache, dirtyIds, job, parent, dropped, outgrown, errors>>

Version(ver, content) == [ver |-> ver, content |-> content]
Sleeping == [at |-> "sleep", todo |-> {}]

Init ==
    /\ \E size \in Sizes :
          row = [f \in Files |-> Version(1, [id |-> 0, size |-> size])]
    /\ node = [p \in Processes |-> row]
    /\ cache = [p \in Processes |-> [entries |-> <<>>, lru |-> <<>>, bytes |-> 0]]
    /\ dirtyIds = [p \in Processes |-> {}]
    /\ job = [p \in Processes |-> Sleeping]
    /\ parent = <<>>
    /\ dropped = {}
    /\ outgrown = \E f \in Files : row[f].content.size > MaxBytes
    /\ errors = 0

-----------------------------------------------------------------------------
(* The cache, as values.                                                   *)

Cached(c) == DOMAIN c.entries
\* The bytes of the entries fs, counted one by one.
Bytes(entries, fs) ==
    Cardinality(UNION {{f} \X (1..entries[f].content.size) : f \in fs})
\* The id moves to the end of the order, or enters it there.
Touch(lru, f) == Append(RemoveFirst(lru, f), f)
With(entries, f, e) ==
    [g \in DOMAIN entries \cup {f} |-> IF g = f THEN e ELSE entries[g]]

\* The cache without the first k ids of its LRU order.
Cut(c, k) ==
    LET gone == {c.lru[i] : i \in 1..k} \cap Cached(c)
    IN [entries |-> [f \in Cached(c) \ gone |-> c.entries[f]],
        lru |-> SubSeq(c.lru, k + 1, Len(c.lru)),
        bytes |-> c.bytes - Bytes(c.entries, gone)]

Over(c) == c.bytes > MaxBytes \/ Cardinality(Cached(c)) > MaxFiles
HeadIsDirty(c) ==
    c.lru # <<>> /\ Head(c.lru) \in Cached(c) /\ c.entries[Head(c.lru)].dirty

\* Mutant: dirty entries are evicted like the others.
EvictedDirtyToo(c) ==
    Cut(c, Min({k \in 0..Len(c.lru) : Cached(Cut(c, k)) = {} \/ ~Over(Cut(c, k))}))

\* The least recently used entries go until the cache is within its limits,
\* it is empty or the next one is dirty.
Stops(d) == Cached(d) = {} \/ ~Over(d) \/ HeadIsDirty(d)
Evicted(c) == Cut(c, Min({k \in 0..Len(c.lru) : Stops(Cut(c, k))}))

\* The entry made of a row object.
Fresh(r) == [content |-> r.content, ver |-> r.ver, flushed |-> r.ver,
             pending |-> {}, dirty |-> FALSE]

\* A hit moves the id to the end of the order, a miss enters the row and may
\* evict others, or the new entry itself.
Loaded(c, f, r) ==
    IF f \in Cached(c)
    THEN [c EXCEPT !.lru = Touch(@, f)]
    ELSE Evicted([entries |-> With(c.entries, f, Fresh(r)), lru |-> Touch(c.lru, f),
                  bytes |-> c.bytes + r.content.size])

\* The entry that a load gives its caller: it may be out of the cache again.
EntryOf(c, f, r) == IF f \in Cached(c) THEN c.entries[f] ELSE Fresh(r)

\* An entry with one more pending version.
Updated(e, content) ==
    [e EXCEPT !.content = content, !.ver = @ + 1, !.dirty = TRUE,
              !.pending = @ \cup {Version(e.ver + 1, content)}]

-----------------------------------------------------------------------------
(* Callers.                                                                *)

\* A session of p reads the row of f again.
Query(p, f) ==
    /\ node[p][f] # row[f]
    /\ node' = [node EXCEPT ![p][f] = row[f]]
    /\ UNCHANGED <<row, cache, dirtyIds, job, parent, dropped, outgrown, errors>>

\* get_node_content, get_node_version.
Get(p, f) ==
    /\ cache' = [cache EXCEPT ![p] = Loaded(@, f, node[p][f])]
    /\ UNCHANGED <<row, node, dirtyIds, job, parent, dropped, outgrown, errors>>

\* update_cache_after_write. It changes the entry that the load gave it even
\* when the load has evicted that entry.
Write(p, f, size) ==
    LET c == Loaded(cache[p], f, node[p][f])
        e == EntryOf(cache[p], f, node[p][f])
        content == [id |-> Len(parent) + 1, size |-> size]
        entries == IF f \in Cached(c) THEN With(c.entries, f, Updated(e, content))
                   ELSE c.entries
    IN /\ Len(parent) < MaxWrites
       /\ parent' = Append(parent, e.content.id)
       /\ outgrown' = (outgrown \/ size > MaxBytes)
       /\ cache' = [cache EXCEPT ![p] =
             Evicted([entries |-> entries, lru |-> Touch(c.lru, f),
                      bytes |-> c.bytes - e.content.size + size])]
       /\ dirtyIds' = [dirtyIds EXCEPT ![p] = @ \cup {f}]
       /\ UNCHANGED <<row, node, job, dropped, errors>>

-----------------------------------------------------------------------------
(* The flusher of a process.                                               *)

Goto(p, at) == job' = [job EXCEPT ![p].at = at]

\* On to the ids that are left of the round, or to sleep.
Continue(p, todo) ==
    job' = [job EXCEPT ![p] = IF todo = {} THEN Sleeping ELSE [at |-> "take", todo |-> todo]]

\* It wakes up and copies a batch of the dirty ids.
Wake(p) ==
    /\ job[p].at = "sleep"
    /\ dirtyIds[p] # {}
    /\ \E batch \in kSubset(Min({FlushBatch, Cardinality(dirtyIds[p])}), dirtyIds[p]) :
          job' = [job EXCEPT ![p] = [at |-> "take", todo |-> batch]]
    /\ UNCHANGED <<row, node, cache, dirtyIds, parent, dropped, outgrown, errors>>

Newest(pending) == CHOOSE v \in pending : \A w \in pending : w.ver <= v.ver
HasPending(p, f) == f \in Cached(cache[p]) /\ cache[p].entries[f].pending # {}

\* It takes one of them: an id with nothing pending leaves the set, what is
\* pending is copied.
Take(p, f) ==
    /\ job[p].at = "take"
    /\ f \in job[p].todo
    /\ LET rest == job[p].todo \ {f}
           e == cache[p].entries[f]
       IN IF HasPending(p, f)
          THEN /\ job' = [job EXCEPT ![p] =
                     [at |-> "sql", todo |-> rest, file |-> f, expected |-> e.flushed,
                      final |-> Newest(e.pending)]]
               /\ UNCHANGED dirtyIds
          ELSE /\ Continue(p, rest)
               /\ dirtyIds' = [dirtyIds EXCEPT ![p] = @ \ {f}]
    /\ UNCHANGED <<row, node, cache, parent, dropped, outgrown, errors>>

\* Mutant: the row is updated whatever its version is.
UpdateBlindly(p) ==
    /\ job[p].at = "sql"
    /\ row' = [row EXCEPT ![job[p].file] = job[p].final]
    /\ Goto(p, "settle")
    /\ UNCHANGED <<node, cache, dirtyIds, parent, dropped, outgrown, errors>>

\* UPDATE ... WHERE version_no = expected changes one row, and is committed.
Update(p) ==
    /\ job[p].at = "sql"
    /\ row[job[p].file].ver = job[p].expected
    /\ row' = [row EXCEPT ![job[p].file] = job[p].final]
    /\ Goto(p, "settle")
    /\ UNCHANGED <<node, cache, dirtyIds, parent, dropped, outgrown, errors>>

\* The UPDATE changes no row: a conflict is counted.
Conflict(p) ==
    /\ job[p].at = "sql"
    /\ row[job[p].file].ver # job[p].expected
    /\ Goto(p, "drop")
    /\ UNCHANGED <<row, node, cache, dirtyIds, parent, dropped, outgrown, errors>>

\* The transaction raises, before or after the server has committed it.
Break(p) ==
    /\ job[p].at = "sql"
    /\ errors < MaxErrors
    /\ errors' = errors + 1
    /\ \/ UNCHANGED row
       \/ /\ row[job[p].file].ver = job[p].expected
          /\ row' = [row EXCEPT ![job[p].file] = job[p].final]
    /\ Continue(p, job[p].todo)
    /\ UNCHANGED <<node, cache, dirtyIds, parent, dropped, outgrown>>

\* Mutant: everything pending counts as flushed.
SettleAll(p) ==
    /\ job[p].at = "settle"
    /\ LET f == job[p].file
       IN IF f \in Cached(cache[p])
          THEN /\ cache' = [cache EXCEPT ![p].entries[f].flushed = job[p].final.ver,
                                         ![p].entries[f].pending = {},
                                         ![p].entries[f].dirty = FALSE]
               /\ dirtyIds' = [dirtyIds EXCEPT ![p] = @ \ {f}]
          ELSE /\ dirtyIds' = [dirtyIds EXCEPT ![p] = @ \ {f}]
               /\ UNCHANGED cache
    /\ Continue(p, job[p].todo)
    /\ UNCHANGED <<row, node, parent, dropped, outgrown, errors>>

\* Mutant: the id leaves the set although a write came in meanwhile.
SettleForgets(p) ==
    /\ job[p].at = "settle"
    /\ LET f == job[p].file
           e == cache[p].entries[f]
           left == {v \in e.pending : v.ver > job[p].final.ver}
       IN /\ f \in Cached(cache[p])
          /\ cache' = [cache EXCEPT ![p].entries[f] =
                [e EXCEPT !.flushed = Max({@, job[p].final.ver}),
                          !.pending = left, !.dirty = left # {}]]
          /\ dirtyIds' = [dirtyIds EXCEPT ![p] = @ \ {f}]
    /\ Continue(p, job[p].todo)
    /\ UNCHANGED <<row, node, parent, dropped, outgrown, errors>>

\* The versions that were written are no longer pending; the entry is clean,
\* and its id leaves the set, unless a write came in meanwhile.
Settle(p) ==
    /\ job[p].at = "settle"
    /\ LET f == job[p].file
           e == cache[p].entries[f]
           left == {v \in e.pending : v.ver > job[p].final.ver}
       IN IF f \in Cached(cache[p])
          THEN /\ cache' = [cache EXCEPT ![p].entries[f] =
                     [e EXCEPT !.flushed = Max({@, job[p].final.ver}),
                               !.pending = left, !.dirty = left # {}]]
               /\ dirtyIds' = IF left # {} THEN dirtyIds
                              ELSE [dirtyIds EXCEPT ![p] = @ \ {f}]
          ELSE /\ dirtyIds' = [dirtyIds EXCEPT ![p] = @ \ {f}]
               /\ UNCHANGED cache
    /\ Continue(p, job[p].todo)
    /\ UNCHANGED <<row, node, parent, dropped, outgrown, errors>>

\* After a conflict everything pending is discarded, late writes included.
Drop(p) ==
    /\ job[p].at = "drop"
    /\ LET f == job[p].file
       IN IF f \in Cached(cache[p])
          THEN /\ cache' = [cache EXCEPT ![p].entries[f] =
                     [@ EXCEPT !.pending = {}, !.dirty = FALSE]]
               /\ dirtyIds' = [dirtyIds EXCEPT ![p] = @ \ {f}]
               /\ dropped' = dropped \cup {v.content.id : v \in cache[p].entries[f].pending}
          ELSE UNCHANGED <<cache, dirtyIds, dropped>>
    /\ Continue(p, job[p].todo)
    /\ UNCHANGED <<row, node, parent, outgrown, errors>>

-----------------------------------------------------------------------------
Flush(p) ==
    \/ Wake(p) \/ Update(p) \/ Conflict(p) \/ Settle(p) \/ Drop(p)
    \/ \E f \in Files : Take(p, f)

Next ==
    \E p \in Processes :
        \/ \E f \in Files : Query(p, f) \/ Get(p, f) \/ \E s \in Sizes : Write(p, f, s)
        \/ Flush(p)
        \/ Break(p)

Spec == Init /\ [][Next]_vars

(* The flusher is a daemon thread: it runs for as long as its process does. *)
LiveSpec == Spec /\ \A p \in Processes : WF_vars(Flush(p))

-----------------------------------------------------------------------------
(* Properties.                                                             *)

Writes == 1..Len(parent)

\* Content n was written over content m, directly or not, or is m: it is in
\* every set that has m and what was written over its members.
Descends(n, m) ==
    \A S \in SUBSET (0..Len(parent)) :
        m \in S /\ (\A k \in Writes : parent[k] \in S => k \in S) => n \in S

Pending(p, f) ==
    IF f \in Cached(cache[p]) THEN {v.content.id : v \in cache[p].entries[f].pending}
    ELSE {}
Durable(n) == \E f \in Files : Descends(row[f].content.id, n)

Contents == [id : 0..MaxWrites, size : Sizes]
Versions == [ver : 1..(MaxWrites + 1), content : Contents]

TypeOK ==
    /\ row \in [Files -> Versions]
    /\ node \in [Processes -> [Files -> Versions]]
    /\ \A p \in Processes :
          /\ Cached(cache[p]) \subseteq Range(cache[p].lru)
          /\ Range(cache[p].lru) \subseteq Files
          /\ dirtyIds[p] \subseteq Files
          /\ job[p].at \in {"sleep", "take", "sql", "settle", "drop"}
          /\ job[p].todo \subseteq Files
    /\ dropped \subseteq Writes

\* A write that was acknowledged is in the row, or under what is in the row,
\* or still pending in its process, or was discarded at a conflict that the
\* metric flush_conflict counted (cache/worker.py:73): no interleaving of
\* writes, evictions and flushes loses one silently.
Accounted(n) ==
    \/ n \in dropped
    \/ Durable(n)
    \/ \E p \in Processes, f \in Files : n \in Pending(p, f)

NoSilentLoss == outgrown \/ \A n \in Writes : Accounted(n)

\* A clean entry shows a content that is in the row or was there before, or
\* one that a counted conflict discarded.
CleanIsCommitted ==
    \A p \in Processes : \A f \in Cached(cache[p]) :
        LET e == cache[p].entries[f]
        IN e.dirty \/ e.content.id \in dropped \/ Descends(row[f].content.id, e.content.id)

\* A flush replaces only content that its writer had seen: what a row gets was
\* written over what the row had (the version test of cache/worker.py:60).
NoBlindOverwrite ==
    [][\A f \in Files : Descends(row'[f].content.id, row[f].content.id)]_row

\* Every write becomes durable, or is discarded at a conflict, while the
\* flusher runs: its id does not leave the dirty set too early.
EventuallyFlushed ==
    \A n \in 1..MaxWrites :
        n \in Writes ~> (outgrown \/ n \in dropped \/ Durable(n))
=============================================================================
