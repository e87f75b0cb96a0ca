-------------------------- MODULE Bootstrap_proofs --------------------------
(* Proofs about Bootstrap, for all numbers of callers, files, calls and     *)
(* restarts, whatever each caller seeds, and for both stores.               *)
EXTENDS Bootstrap, TLAPS

-----------------------------------------------------------------------------
(* The invariants.                                                         *)

Contents == [Paths -> Nat]
Mirrors == [root : Nat, files : Contents, real : SUBSET Paths, mode : Modes \cup {NoMode},
            dirty : SUBSET Paths, dirtyMode : BOOLEAN, ghosts : BOOLEAN]
Sessions == [by : Callers \cup {NoOne}, root : Nat, new : Contents,
             mode : Modes \cup {NoMode}, locked : BOOLEAN, shown : BOOLEAN]
Ops == {"ensure", "refresh", "write", "host", "agent", "flush"}
Places == {"look", "root", "seed", "build", "install", "current", "compare", "act", "flush",
           "return", "raised"}
Calls == [at : Places, by : Callers, op : Ops, path : Paths, text : Nat \ {0},
          todo : SUBSET Paths, cur : Mirrors \cup {NoMirror}, new : Mirrors \cup {NoMirror},
          fresh : BOOLEAN, raced : BOOLEAN, known : BOOLEAN]
Flushes == [at : {"taken", "stored", "loaded"}, paths : SUBSET Paths, files : Contents,
            real : SUBSET Paths, root : Nat, mode : Modes \cup {NoMode}, dirtyMode : BOOLEAN,
            cur : Mirrors \cup {NoMirror}]

\* A file that is there has a row, or is dirty; the marks are of files.
Sound(m) ==
    /\ m.dirty \cup m.real \subseteq {p \in Paths : m.files[p] # Absent}
    /\ {p \in Paths : m.files[p] # Absent} \subseteq m.real \cup m.dirty

Typed ==
    /\ store \in Stores
    /\ db \in [root : Nat, files : Contents, mode : Modes \cup {NoMode}]
    /\ tx \in Sessions
    /\ tx.by = NoOne <=> tx = NoTx
    /\ Mirrored => rt \in Mirrors /\ Sound(rt)
    /\ cached \in [Callers -> BOOLEAN]
    /\ obj \in [Callers -> Modes \cup {NoMode}]
    /\ call # Idle => call \in Calls
    /\ Building => call.new \in Mirrors /\ Sound(call.new)
    /\ lock \in Flushers \cup {NoOne}
    /\ DOMAIN fl = Flushers
    /\ \A f \in Flushers :
          /\ lock = f => fl[f] # Idle
          /\ fl[f] # Idle => lock = f \/ Astray(f)
          /\ fl[f] # Idle /\ Astray(f) => hist.strayed
          /\ fl[f] # Idle => fl[f] \in Flushes
          /\ fl[f] # Idle => \A p \in fl[f].paths : fl[f].files[p] # Absent
          /\ fl[f].at = "loaded" => fl[f].cur \in Mirrors /\ Sound(fl[f].cur)
          /\ store = "local" /\ fl[f].at = "loaded" => f \in stray.mirrors \/ Mirrored
          /\ f \in stray.mirrors => store = "local" /\ fl[f].at = "loaded"
    /\ stray \in [lock : BOOLEAN, mirrors : SUBSET Flushers]
    /\ stray.lock => store = "local" /\ lock # "worker"
    /\ count \in [calls : Nat, restarts : Nat, roots : Nat]
    /\ hist \in [raced : BOOLEAN, promised : Contents, orphaned : BOOLEAN,
                 unconfirmed : BOOLEAN, strayed : BOOLEAN]

\* A process that knew the workspace when its call began still does, and
\* prepares nothing. A flush has the lock, and what it saves is the mirror, unless
\* that was replaced under it.
Knowing ==
    call # Idle /\ call.op # "refresh" /\ call.known =>
        /\ cached[call.by] /\ Mirrored
        /\ call.at \in {"look", "act", "flush", "return", "raised"}

Loaded ==
    Mirrored /\ ~hist.raced =>
        \A f \in Flushers :
            /\ fl[f] # Idle => lock = f
            /\ fl[f].at = "loaded" =>
                  IF store = "local" THEN f \notin stray.mirrors ELSE fl[f].cur = rt

\* No content is newer than the call in progress.
Old(files) == \A p \in Paths : files[p] <= count.calls + 1

Numbered ==
    /\ Old(db.files) /\ Old(tx.new) /\ Old(hist.promised)
    /\ Mirrored => Old(rt.files)
    /\ Building => Old(call.new.files)
    /\ call # Idle => call.text = count.calls + 1
    /\ \A f \in Flushers : /\ fl[f] # Idle => Old(fl[f].files)
                           /\ fl[f].at = "loaded" => Old(fl[f].cur.files)

-----------------------------------------------------------------------------
(* Disciplined hosts.                                                      *)

\* The session of a host that is disciplined: empty when its call begins, shown
\* in a mirror when it ends.
Orderly ==
    /\ call # Idle => tx.by \in {NoOne, call.by}
    /\ call # Idle /\ call.op \notin {"ensure", "refresh"} => call.known
    /\ call # Idle /\ call.op \in {"ensure", "refresh"} => call.at \notin {"act", "flush"}
    /\ call.at \in {"look", "flush", "act", "current"} => tx = NoTx
    /\ call.at \in {"current", "compare"} => call.op = "refresh"
    /\ call # Idle /\ call.op = "refresh" =>
          /\ call.at \in {"current", "build", "compare", "install", "return"}
          /\ tx.mode = NoMode \/ tx.shown
    /\ tx.shown => call.at \in {"idle", "return"}

\* Nothing that the mirror is built from changes before it is installed, unless
\* a flush is noted.
BuiltIsCurrent == Building /\ ~call.raced => call.new = Built

\* What the rows are to the host that showed them in the mirror, or else to all.
Shown(p) == IF tx.shown THEN Row(p) ELSE db.files[p]
ShownMode == IF tx.shown THEN RowMode ELSE db.mode

Straight == Mirrored /\ ~hist.raced /\ ~hist.orphaned

\* What is not dirty is in the rows.
Follows ==
    Straight =>
        /\ \A p \in Paths \ rt.dirty : rt.files[p] = Shown(p)
        /\ ~rt.dirtyMode => rt.mode = ShownMode
        /\ \A p \in rt.real : Shown(p) # Absent

\* What the session still holds back when there is a mirror.
HeldBack ==
    Straight =>
        /\ ~tx.shown => tx.new = NoFiles
        /\ ~tx.shown /\ tx.mode # NoMode /\ call.at \notin {"build", "install"} =>
              tx.mode = rt.mode
        /\ tx.shown => ~Dirty(rt) /\ \A f \in Flushers : fl[f] = Idle

\* A flush stores the mirror as it is.
Snapped ==
    Straight =>
        \A f \in Flushers : fl[f] # Idle =>
            /\ fl[f].paths = rt.dirty /\ fl[f].files = rt.files /\ fl[f].real = rt.real
            /\ fl[f].mode = rt.mode /\ fl[f].dirtyMode = rt.dirtyMode

Stored ==
    Straight =>
        \A f \in Flushers : fl[f].at \in {"stored", "loaded"} =>
            /\ \A p \in fl[f].paths : db.files[p] = fl[f].files[p]
            /\ fl[f].dirtyMode => db.mode = fl[f].mode

Agreeing == Follows /\ HeldBack /\ Snapped /\ Stored

-----------------------------------------------------------------------------
(* What flushes have promised.                                             *)

\* Files that have a row, in the database or in the session that is shown.
Present == {p \in Paths : db.files[p] # Absent \/ (tx.shown /\ tx.new[p] # Absent)}

\* Files with an id have a row, unless it was rolled back.
RowsExist ==
    /\ Building => \A p \in call.new.real : Row(p) # Absent
    /\ Mirrored /\ ~hist.orphaned => rt.real \subseteq Present
    /\ ~hist.orphaned => \A f \in Flushers :
          /\ fl[f] # Idle => fl[f].real \subseteq Present
          /\ fl[f].at = "loaded" => fl[f].cur.real \subseteq Present
          /\ fl[f].at \in {"stored", "loaded"} => fl[f].paths \subseteq Present

\* The mirror of a flush is clean, or it is the one the flush has taken.
Same(m, s) == m.dirty = {} \/ (m.dirty = s.paths /\ m.files = s.files)

Alone ==
    /\ Building => call.new.dirty = {}
    /\ \A f \in Flushers : fl[f] # Idle =>
          /\ Mirrored => Same(rt, fl[f])
          /\ fl[f].at = "loaded" => Same(fl[f].cur, fl[f])

Kept ==
    /\ \A p \in Paths : hist.promised[p] <= db.files[p]
    /\ \A p \in Paths : tx.new[p] # Absent => hist.promised[p] = 0
    /\ Mirrored => \A p \in rt.dirty \cap rt.real : hist.promised[p] <= rt.files[p]
    /\ \A f \in Flushers : fl[f] # Idle =>
          \A p \in fl[f].paths \cap fl[f].real : hist.promised[p] <= fl[f].files[p]
    /\ fl["host"].at \in {"stored", "loaded"} /\ ~hist.orphaned =>
          \A p \in fl["host"].paths : fl["host"].files[p] <= db.files[p]

-----------------------------------------------------------------------------
(* Types.                                                                  *)

LEMMA Apart == NoMirror \notin Mirrors /\ Idle \notin Calls /\ Idle \notin Flushes
<1>1. ASSUME NoMirror \in Mirrors PROVE FALSE
    <2>1. "files" \in DOMAIN NoMirror
        BY <1>1 DEF Mirrors
    <2>2. QED
        BY <2>1 DEF NoMirror
<1>2. ASSUME Idle \in Calls PROVE FALSE
    BY <1>2 DEF Calls, Idle, Places
<1>3. ASSUME Idle \in Flushes PROVE FALSE
    BY <1>3 DEF Flushes, Idle
<1>4. QED
    BY <1>1, <1>2, <1>3

LEMMA NoFilesTyped == NoFiles \in Contents /\ \A p \in Paths : NoFiles[p] = 0
BY DEF NoFiles, Contents, Absent

LEMMA NoTxTyped ==
    /\ NoTx \in Sessions
    /\ NoTx.by = NoOne /\ NoTx.root = 0 /\ NoTx.new = NoFiles /\ NoTx.mode = NoMode
    /\ ~NoTx.locked /\ ~NoTx.shown
BY NoFilesTyped DEF NoTx, Sessions

\* The rows that a host reads.
LEMMA RowsTyped ==
    ASSUME Typed
    PROVE  /\ Root \in Nat
           /\ \A p \in Paths : Row(p) \in Nat
           /\ RowMode \in Modes \cup {NoMode}
<1>1. tx \in Sessions /\ db \in [root : Nat, files : Contents, mode : Modes \cup {NoMode}]
    BY DEF Typed
<1>2. tx.new \in Contents /\ db.files \in Contents
    BY <1>1 DEF Sessions
<1>3. QED
    BY <1>1, <1>2 DEF Sessions, Contents, Root, Row, RowMode

LEMMA BuiltTyped == Typed => Built \in Mirrors /\ Sound(Built)
<1>1. SUFFICES ASSUME Typed PROVE Built \in Mirrors /\ Sound(Built)
    OBVIOUS
<1>2. /\ Root \in Nat
      /\ \A p \in Paths : Row(p) \in Nat
      /\ RowMode \in Modes \cup {NoMode}
    BY <1>1, RowsTyped
<1>3. [p \in Paths |-> Row(p)] \in Contents
    BY <1>2 DEF Contents
<1>4. QED
    BY <1>2, <1>3 DEF Built, Mirrors, Sound, Absent

LEMMA BuiltFields ==
    /\ Built.root = Root /\ Built.files = [p \in Paths |-> Row(p)]
    /\ Built.real = {p \in Paths : Row(p) # Absent} /\ Built.mode = RowMode
    /\ Built.dirty = {} /\ Built.dirtyMode = FALSE /\ Built.ghosts = FALSE
BY DEF Built

LEMMA WithTyped ==
    ASSUME NEW m \in Mirrors, NEW p \in Paths, NEW text \in Nat
    PROVE  /\ With(m, p, text) \in Mirrors
           /\ With(m, p, text).files = [m.files EXCEPT ![p] = text]
           /\ With(m, p, text).dirty = m.dirty \cup {p}
           /\ With(m, p, text).real = m.real
           /\ With(m, p, text).mode = m.mode
           /\ With(m, p, text).dirtyMode = m.dirtyMode
           /\ With(m, p, text).ghosts = m.ghosts
           /\ Sound(m) /\ text # 0 => Sound(With(m, p, text))
<1>1. m.files \in Contents /\ m.dirty \in SUBSET Paths
    BY DEF Mirrors
<1>2. [m.files EXCEPT ![p] = text] \in Contents
    BY <1>1 DEF Contents
<1>3. m.dirty \cup {p} \in SUBSET Paths
    BY <1>1
<1>4. /\ With(m, p, text) \in Mirrors
      /\ With(m, p, text).files = [m.files EXCEPT ![p] = text]
      /\ With(m, p, text).dirty = m.dirty \cup {p}
      /\ With(m, p, text).real = m.real
      /\ With(m, p, text).mode = m.mode
      /\ With(m, p, text).dirtyMode = m.dirtyMode
      /\ With(m, p, text).ghosts = m.ghosts
    BY <1>2, <1>3 DEF With, Mirrors
<1>5. ASSUME Sound(m), text # 0 PROVE Sound(With(m, p, text))
    <2> DEFINE files == [m.files EXCEPT ![p] = text]
    <2>1. \A q \in Paths : files[q] # Absent <=> q = p \/ m.files[q] # Absent
        BY <1>1, <1>5 DEF Contents, Absent
    <2>2. {q \in Paths : files[q] # Absent} = {q \in Paths : m.files[q] # Absent} \cup {p}
        BY <2>1
    <2> HIDE DEF files
    <2>3. QED
        BY <1>4, <1>5, <2>2 DEF Sound, files
<1>6. QED
    BY <1>4, <1>5

LEMMA ConfirmedFields ==
    ASSUME NEW m \in Mirrors, NEW s \in Flushes
    PROVE  LET stored == {p \in s.paths : m.files[p] = s.files[p]}
               c == Confirmed(m, s)
           IN /\ c \in Mirrors
              /\ c.files = m.files /\ c.mode = m.mode
              /\ c.dirty = m.dirty \ stored
              /\ c.dirtyMode = (m.dirtyMode /\ ~(s.dirtyMode /\ m.mode = s.mode))
              /\ c.real = m.real \cup {p \in s.paths : m.files[p] # Absent}
              /\ c.ghosts = (m.ghosts \/ ~(stored \subseteq s.real))
<1>1. s.paths \in SUBSET Paths
    BY DEF Flushes
<1>2. m.real \in SUBSET Paths /\ m.dirty \in SUBSET Paths
    BY DEF Mirrors
<1>3. QED
    BY <1>1, <1>2 DEF Confirmed, Mirrors

LEMMA ConfirmedSound ==
    ASSUME NEW m \in Mirrors, NEW s \in Flushes, Sound(m),
           \A p \in s.paths : s.files[p] # Absent
    PROVE  Sound(Confirmed(m, s))
<1>1. s.paths \in SUBSET Paths
    BY DEF Flushes
<1> DEFINE c == Confirmed(m, s)
<1>2. /\ c.files = m.files
      /\ c.dirty = m.dirty \ {p \in s.paths : m.files[p] = s.files[p]}
      /\ c.real = m.real \cup {p \in s.paths : m.files[p] # Absent}
    BY ConfirmedFields
<1> HIDE DEF c
<1>3. Sound(c)
    BY <1>1, <1>2 DEF Sound
<1>4. QED
    BY <1>3 DEF c


LEMMA TypedInit == Init => Typed
<1>1. SUFFICES ASSUME Init PROVE Typed
    OBVIOUS
<1> USE <1>1 DEF Init
<1>2. db \in [root : Nat, files : Contents, mode : Modes \cup {NoMode}]
    BY NoFilesTyped
<1>3. tx \in Sessions /\ (tx.by = NoOne <=> tx = NoTx)
    BY NoTxTyped
<1>4. ~Mirrored /\ call = Idle /\ ~Building
    BY DEF Mirrored, Building, Idle
<1>5. hist \in [raced : BOOLEAN, promised : Contents, orphaned : BOOLEAN,
                unconfirmed : BOOLEAN, strayed : BOOLEAN]
    BY NoFilesTyped
<1>6. \A f \in Flushers : fl[f] = Idle /\ lock # f /\ fl[f].at # "loaded"
    BY BootstrapAssumption DEF Flushers, Idle
<1>7. stray \in [lock : BOOLEAN, mirrors : SUBSET Flushers] /\ ~stray.lock /\ stray.mirrors = {}
    OBVIOUS
<1>8. QED
    BY <1>2, <1>3, <1>4, <1>5, <1>6, <1>7 DEF Typed

\* A call that goes on to a place where it needs no mirror that was built.
LEMMA GoesOn ==
    ASSUME call \in Calls, NEW at \in Places \ {"compare", "install"},
           call' = [call EXCEPT !.at = at]
    PROVE  call' \in Calls /\ ~Building' /\ call'.at = at
BY DEF Calls, Building

\* At any place but those of an idle call there is a call.
LEMMA InCall ==
    ASSUME Typed, call.at # "idle"
    PROVE  call # Idle /\ call \in Calls
BY DEF Typed, Idle

LEMMA ReadyTyped ==
    ASSUME call \in Calls
    PROVE  /\ Ready \in {"return", "flush", "act"}
           /\ AfterFlush \in {"return", "act"}
BY DEF Ready, AfterFlush

\* Steps of a call that change nothing but where it is.
LEMMA PlaceTyped ==
    ASSUME Typed, NEW at \in Places \ {"compare", "install"}, call \in Calls,
           call' = [call EXCEPT !.at = at],
           UNCHANGED <<store, db, tx, rt, cached, obj, fl, lock, stray, count, hist>>
    PROVE  Typed'
<1>1. call' \in Calls /\ ~Building'
    BY GoesOn
<1>2. QED
    BY <1>1 DEF Typed, Mirrored, Astray

LEMMA CachingTyped ==
    ASSUME Typed, NEW b \in BOOLEAN
    PROVE  Caching(b) \in [Callers -> BOOLEAN]
BY DEF Typed, Caching

\* The flushes are not touched.
FlushesTyped ==
    /\ lock \in Flushers \cup {NoOne}
    /\ DOMAIN fl = Flushers
    /\ \A f \in Flushers :
          /\ lock = f => fl[f] # Idle
          /\ fl[f] # Idle => lock = f \/ Astray(f)
          /\ fl[f] # Idle /\ Astray(f) => hist.strayed
          /\ fl[f] # Idle => fl[f] \in Flushes
          /\ fl[f] # Idle => \A p \in fl[f].paths : fl[f].files[p] # Absent
          /\ fl[f].at = "loaded" => fl[f].cur \in Mirrors /\ Sound(fl[f].cur)
          /\ store = "local" /\ fl[f].at = "loaded" => f \in stray.mirrors \/ Mirrored
          /\ f \in stray.mirrors => store = "local" /\ fl[f].at = "loaded"
    /\ stray \in [lock : BOOLEAN, mirrors : SUBSET Flushers]
    /\ stray.lock => store = "local" /\ lock # "worker"
SessionTyped == tx \in Sessions /\ (tx.by = NoOne <=> tx = NoTx)
MirrorTyped == Mirrored => rt \in Mirrors /\ Sound(rt)
CallTyped ==
    /\ call # Idle => call \in Calls
    /\ Building => call.new \in Mirrors /\ Sound(call.new)
RestTyped ==
    /\ store \in Stores
    /\ db \in [root : Nat, files : Contents, mode : Modes \cup {NoMode}]
    /\ cached \in [Callers -> BOOLEAN]
    /\ obj \in [Callers -> Modes \cup {NoMode}]
    /\ count \in [calls : Nat, restarts : Nat, roots : Nat]
    /\ hist \in [raced : BOOLEAN, promised : Contents, orphaned : BOOLEAN,
                 unconfirmed : BOOLEAN, strayed : BOOLEAN]

LEMMA TypedParts ==
    FlushesTyped' /\ SessionTyped' /\ MirrorTyped' /\ CallTyped' /\ RestTyped' => Typed'
BY DEF Typed, FlushesTyped, SessionTyped, MirrorTyped, CallTyped, RestTyped

LEMMA FlushesStay ==
    Typed /\ UNCHANGED <<fl, lock, stray, store, hist>> /\ (rt' = rt \/ rt' \in Mirrors) =>
        FlushesTyped'
BY Apart DEF Typed, FlushesTyped, Astray, Mirrored
LEMMA SessionStays == Typed /\ UNCHANGED tx => SessionTyped'
BY DEF Typed, SessionTyped
LEMMA MirrorStays == Typed /\ UNCHANGED rt => MirrorTyped'
BY DEF Typed, MirrorTyped, Mirrored
LEMMA CallStays == Typed /\ UNCHANGED call => CallTyped'
BY DEF Typed, CallTyped, Building
LEMMA RestStays == Typed /\ UNCHANGED <<store, db, cached, obj, count, hist>> => RestTyped'
BY DEF Typed, RestTyped

\* The session of a host after one more write.
LEMMA SessionWritten ==
    ASSUME Typed, NEW c \in Callers, tx' \in Sessions, tx'.by = c
    PROVE  SessionTyped'
<1>1. tx' # NoTx
    BY BootstrapAssumption, NoTxTyped
<1>2. QED
    BY <1>1, BootstrapAssumption DEF SessionTyped


\* Only a call that flushes has a flush of its own.
HostFlushes == fl["host"] # Idle => call.at = "flush"

\* Where the mirror is dropped, only the flush of the worker may go on.
LEMMA DropTyped ==
    ASSUME Typed, HostFlushes, call.at # "flush", Drop, UNCHANGED <<store, fl>>
    PROVE  /\ FlushesTyped' /\ MirrorTyped'
           /\ cached' \in [Callers -> BOOLEAN]
           /\ hist' \in [raced : BOOLEAN, promised : Contents, orphaned : BOOLEAN,
                        unconfirmed : BOOLEAN, strayed : BOOLEAN]
<1>1. rt' = NoMirror /\ MirrorTyped' /\ cached' \in [Callers -> BOOLEAN]
    BY CachingTyped DEF Drop, MirrorTyped, Mirrored
<1>2. CASE store = "local" /\ Mirrored
    <2>1. PICK astray \in {TRUE, stray.lock \/ lock = "worker"} :
              /\ stray' = [lock |-> astray, mirrors |-> Loading]
              /\ lock' = NoOne
              /\ hist' = [hist EXCEPT !.strayed = @ \/ (astray /\ fl["worker"] # Idle)]
        BY <1>2 DEF Drop
    <2>2. astray \in BOOLEAN
        BY <2>1 DEF Typed
    <2>3. /\ stray' \in [lock : BOOLEAN, mirrors : SUBSET Flushers]
          /\ stray'.lock = astray /\ stray'.mirrors = Loading
        BY <2>1, <2>2 DEF Loading
    <2> DEFINE running == astray /\ fl["worker"] # Idle
    <2>4. running \in BOOLEAN /\ hist' = [hist EXCEPT !.strayed = @ \/ running]
        BY <2>1, <2>2
    <2> HIDE DEF running
    <2>5. /\ hist' \in [raced : BOOLEAN, promised : Contents, orphaned : BOOLEAN,
                       unconfirmed : BOOLEAN, strayed : BOOLEAN]
          /\ hist'.strayed = (hist.strayed \/ running)
        BY <2>4 DEF Typed
    <2>6. \A f \in Flushers : fl[f] # Idle => f = "worker" /\ astray
        <3>1. SUFFICES ASSUME NEW f \in Flushers, fl[f] # Idle PROVE f = "worker" /\ astray
            OBVIOUS
        <3>2. f = "worker"
            BY <3>1 DEF HostFlushes, Flushers
        <3>3. lock = "worker" \/ stray.lock
            BY <3>1, <3>2 DEF Typed, Astray
        <3>4. QED
            BY <2>1, <3>2, <3>3
    <2>7. \A f : Astray(f)' <=> f = "worker" /\ astray
        BY <2>3 DEF Astray
    <2>8. \A f \in Flushers : fl[f] # Idle => hist'.strayed
        BY <2>5, <2>6 DEF running
    <2>9. lock' = NoOne /\ NoOne \notin Flushers /\ NoOne # "worker"
        BY <2>1, BootstrapAssumption DEF Flushers
    <2>10. \A f \in Flushers : f \in stray'.mirrors <=> fl[f].at = "loaded"
        BY <2>3 DEF Loading
    <2>11. FlushesTyped'
        BY <1>2, <2>3, <2>6, <2>7, <2>8, <2>9, <2>10 DEF Typed, FlushesTyped
    <2>12. QED
        BY <1>1, <2>5, <2>11
<1>3. CASE ~(store = "local" /\ Mirrored)
    <2>1. UNCHANGED <<lock, stray, hist>> /\ \A f : Astray(f)' = Astray(f)
        BY <1>3 DEF Drop, Astray
    <2>2. FlushesTyped'
        BY <1>3, <2>1 DEF Typed, FlushesTyped
    <2>3. QED
        BY <1>1, <2>1, <2>2 DEF Typed
<1>4. QED
    BY <1>2, <1>3

LEMMA TypedCallStep ==
    ASSUME Typed, HostFlushes, CallStep
    PROVE  Typed'
<1> USE DEF Goto
<1>1. CASE Look
    <2>1. call \in Calls
        BY <1>1, InCall DEF Look
    <2>2. QED
        BY <1>1, <2>1, ReadyTyped, PlaceTyped DEF Look, Places
<1>2. CASE MakeRoot
    <2>1. call \in Calls
        BY <1>2, InCall DEF MakeRoot
    <2>2. /\ tx \in Sessions /\ count \in [calls : Nat, restarts : Nat, roots : Nat]
          /\ call.by \in Callers
        BY <2>1 DEF Typed, Calls
    <2>3. SessionTyped'
        <3>1. CASE Root = 0
            <4>1. tx' = [tx EXCEPT !.by = call.by, !.root = count.roots + 1]
                BY <1>2, <3>1 DEF MakeRoot, NewRoot
            <4>0. count.roots + 1 \in Nat
                BY <2>2
            <4>2. tx' \in Sessions /\ tx'.by = call.by
                BY <2>2, <4>0, <4>1 DEF Sessions
            <4>3. QED
                BY <2>2, <4>2, SessionWritten
        <3>2. CASE Root # 0
            BY <1>2, <3>2, SessionStays DEF MakeRoot
        <3>3. QED
            BY <3>1, <3>2
    <2>4. CallTyped'
        <3>1. SeedsOf[call.by] \in SUBSET Paths
            BY <2>2, BootstrapAssumption
        <3>2. /\ call'.at \in {"raised", "seed"}
              /\ call' \in Calls
            <4>1. CASE call' = [call EXCEPT !.at = "raised"]
                BY <2>1, <4>1 DEF Calls, Places
            <4>2. ASSUME NEW b \in BOOLEAN,
                         call' = [call EXCEPT !.at = "seed", !.todo = SeedsOf[call.by],
                                              !.fresh = b]
                  PROVE  call'.at \in {"raised", "seed"} /\ call' \in Calls
                BY <2>1, <3>1, <4>2 DEF Calls, Places
            <4>3. QED
                BY <1>2, <4>1, <4>2 DEF MakeRoot
        <3>3. QED
            BY <3>2 DEF CallTyped, Building
    <2>5. RestTyped'
        BY <1>2, <2>2 DEF MakeRoot, Typed, RestTyped
    <2>6. QED
        BY <1>2, <2>3, <2>4, <2>5, TypedParts, FlushesStay, MirrorStays DEF MakeRoot
<1>3. ASSUME NEW p \in Paths, Seed(p) PROVE Typed'
    <2>1. call \in Calls
        BY <1>3, InCall DEF Seed
    <2>2. tx \in Sessions /\ call.by \in Callers
        BY <2>1 DEF Typed, Calls
    <2>3. CallTyped'
        <3>1. call' \in Calls /\ call'.at = "seed"
            BY <1>3, <2>1 DEF Seed, Calls
        <3>2. QED
            BY <3>1 DEF CallTyped, Building
    <2>4. SessionTyped'
        <3>1. CASE UNCHANGED tx
            BY <3>1, SessionStays
        <3>2. CASE tx' = [tx EXCEPT !.by = call.by, !.new[p] = SeedText,
                                    !.locked = @ \/ tx.mode # NoMode]
            <4>1. [tx.new EXCEPT ![p] = SeedText] \in Contents
                BY <2>2 DEF Sessions, Contents, SeedText
            <4>2. tx' \in Sessions /\ tx'.by = call.by
                BY <2>2, <3>2, <4>1 DEF Sessions
            <4>3. QED
                BY <2>2, <4>2, SessionWritten
        <3>3. QED
            BY <1>3, <3>1, <3>2 DEF Seed
    <2>5. MirrorTyped' /\ (rt' = rt \/ rt' \in Mirrors)
        <3>1. CASE rt' = rt
            BY <3>1, MirrorStays
        <3>2. CASE Mirrored /\ rt' = With(rt, p, SeedText)
            <4>1. rt \in Mirrors /\ Sound(rt)
                BY <3>2 DEF Typed
            <4>2. SeedText \in Nat \ {0}
                BY DEF SeedText
            <4>3. rt' \in Mirrors /\ Sound(rt')
                BY <3>2, <4>1, <4>2, WithTyped
            <4>4. QED
                BY <4>3 DEF MirrorTyped
        <3>3. QED
            BY <1>3, <3>1, <3>2 DEF Seed
    <2>6. QED
        BY <1>3, <2>3, <2>4, <2>5, TypedParts, FlushesStay, RestStays DEF Seed
<1>4. CASE Meta
    <2>1. call \in Calls
        BY <1>4, InCall DEF Meta
    <2>2. tx \in Sessions /\ call.by \in Callers /\ obj \in [Callers -> Modes \cup {NoMode}]
        BY <2>1 DEF Typed, Calls
    <2>3. call' \in Calls /\ ~Building'
        BY <1>4, <2>1, GoesOn DEF Meta, Places
    <2>4. SessionTyped' /\ obj' \in [Callers -> Modes \cup {NoMode}]
        <3>1. CASE obj[call.by] # NoMode
            BY <1>4, <2>2, <3>1, SessionStays DEF Meta
        <3>2. CASE obj[call.by] = NoMode
            <4>1. tx' = [tx EXCEPT !.by = call.by, !.mode = "host",
                                   !.locked = @ \/ call.fresh]
                BY <1>4, <3>2 DEF Meta
            <4>2. tx' \in Sessions /\ tx'.by = call.by
                BY <2>2, <4>1 DEF Sessions, Modes
            <4>3. obj' \in [Callers -> Modes \cup {NoMode}]
                BY <1>4, <2>2, <3>2 DEF Meta, Modes
            <4>4. QED
                BY <2>2, <4>2, <4>3, SessionWritten
        <3>3. QED
            BY <3>1, <3>2
    <2>5. RestTyped'
        BY <1>4, <2>4 DEF Meta, Typed, RestTyped
    <2>6. QED
        BY <1>4, <2>3, <2>4, <2>5, TypedParts, FlushesStay, MirrorStays DEF Meta, CallTyped
<1>5. CASE Build
    <2>1. call \in Calls
        BY <1>5, InCall DEF Build
    <2>2. Built \in Mirrors /\ Sound(Built)
        BY BuiltTyped
    <2>3. call' \in Calls /\ call'.new = Built
        BY <1>5, <2>1, <2>2 DEF Build, Calls, Places
    <2>4. CallTyped'
        BY <2>2, <2>3 DEF CallTyped
    <2>5. QED
        BY <1>5, <2>4, TypedParts, FlushesStay, SessionStays, MirrorStays, RestStays DEF Build
<1>6. CASE Install
    <2>1. call \in Calls
        BY <1>6, InCall DEF Install
    <2>2. call.raced \in BOOLEAN
        BY <2>1 DEF Calls
    <2>3. call' \in Calls /\ ~Building'
        BY <1>6, <2>1, ReadyTyped, GoesOn DEF Install, Places
    <2>4. MirrorTyped' /\ rt' \in Mirrors
        BY <1>6 DEF Install, Building, Typed, MirrorTyped
    <2>8. hist' \in [raced : BOOLEAN, promised : Contents, orphaned : BOOLEAN,
                     unconfirmed : BOOLEAN, strayed : BOOLEAN]
          /\ hist'.strayed = hist.strayed
        <3> DEFINE flushing == \E f \in Flushers : fl[f] # Idle
        <3>1. hist' = [hist EXCEPT !.raced = call.raced \/ flushing,
                                   !.orphaned = @ /\ flushing, !.unconfirmed = FALSE]
            BY <1>6 DEF Install
        <3>2. flushing \in BOOLEAN
            OBVIOUS
        <3> HIDE DEF flushing
        <3>3. QED
            BY <2>2, <3>1, <3>2 DEF Typed
    <2>9. FlushesTyped'
        <3>1. UNCHANGED <<store, fl, lock>>
              /\ stray' \in {stray, [stray EXCEPT !.mirrors = Loading]}
            BY <1>6 DEF Install
        <3>2. /\ stray' \in [lock : BOOLEAN, mirrors : SUBSET Flushers]
              /\ stray'.lock = stray.lock /\ stray'.mirrors \in {stray.mirrors, Loading}
            BY <3>1 DEF Typed, Loading
        <3>3. Mirrored' /\ \A f : Astray(f)' = Astray(f)
            BY <2>4, <3>2, Apart DEF Mirrored, Astray
        <3>4. \A f \in stray'.mirrors : store = "local" /\ fl[f].at = "loaded"
            BY <1>6, <3>2 DEF Typed, Loading, Install
        <3>5. QED
            BY <2>8, <3>1, <3>2, <3>3, <3>4 DEF Typed, FlushesTyped
    <2>5. RestTyped'
        BY <1>6, <2>8, CachingTyped DEF Install, Typed, RestTyped
    <2>6. SessionTyped'
        <3>1. CASE tx = NoTx
            BY <1>6, <3>1, SessionStays DEF Install
        <3>2. CASE tx # NoTx
            <4>1. tx' = [tx EXCEPT !.shown = TRUE]
                BY <1>6, <3>2 DEF Install
            <4>2. tx \in Sessions /\ tx.by # NoOne
                BY <3>2 DEF Typed
            <4>3. tx' \in Sessions /\ tx'.by \in Callers
                BY <4>1, <4>2 DEF Sessions
            <4>4. QED
                BY <4>3, SessionWritten
        <3>3. QED
            BY <3>1, <3>2
    <2>7. QED
        BY <1>6, <2>3, <2>4, <2>5, <2>6, <2>9, TypedParts DEF CallTyped
<1>7. CASE Current
    <2>1. call \in Calls /\ call.at = "current"
        BY <1>7, InCall DEF Current
    <2>2. /\ tx \in Sessions /\ count \in [calls : Nat, restarts : Nat, roots : Nat]
          /\ call.by \in Callers
        BY <2>1 DEF Typed, Calls
    <2>3. rt \in Mirrors \cup {NoMirror}
        BY DEF Typed, Mirrored
    <2>4. CASE Root # 0
        <3>1. call' = [call EXCEPT !.at = "build", !.cur = rt]
            BY <1>7, <2>4 DEF Current
        <3>2. call' \in Calls /\ call'.at = "build"
            BY <2>1, <2>3, <3>1 DEF Calls, Places
        <3>3. CallTyped'
            BY <3>2 DEF CallTyped, Building
        <3>4. QED
            BY <1>7, <2>4, <3>3, TypedParts, FlushesStay, SessionStays, MirrorStays, RestStays
            DEF Current
    <2>5. CASE Root = 0
        <3>1. /\ call' = [call EXCEPT !.at = "build", !.fresh = TRUE]
              /\ Drop /\ UNCHANGED <<store, db, obj, fl>>
              /\ count' = [count EXCEPT !.roots = @ + 1]
              /\ tx' = [tx EXCEPT !.by = call.by, !.root = count.roots + 1]
            BY <1>7, <2>5 DEF Current, NewRoot
        <3>2. call' \in Calls /\ call'.at = "build"
            BY <2>1, <3>1 DEF Calls, Places
        <3>3. CallTyped'
            BY <3>2 DEF CallTyped, Building
        <3>4. /\ FlushesTyped' /\ MirrorTyped' /\ cached' \in [Callers -> BOOLEAN]
              /\ hist' \in [raced : BOOLEAN, promised : Contents, orphaned : BOOLEAN,
                           unconfirmed : BOOLEAN, strayed : BOOLEAN]
            BY <2>1, <3>1, DropTyped
        <3>5. RestTyped'
            BY <2>2, <3>1, <3>4 DEF Typed, RestTyped
        <3>6. count.roots + 1 \in Nat
            BY <2>2
        <3>7. tx' \in Sessions /\ tx'.by = call.by
            BY <2>2, <3>1, <3>6 DEF Sessions
        <3>8. SessionTyped'
            BY <2>2, <3>7, SessionWritten
        <3>9. QED
            BY <3>3, <3>4, <3>5, <3>8, TypedParts
    <2>6. QED
        BY <2>4, <2>5
<1>8. CASE Compare
    <2>1. call \in Calls /\ call.at = "compare"
        BY <1>8, InCall DEF Compare
    <2>2. call' \in Calls /\ call'.new = call.new
        BY <1>8, <2>1 DEF Compare, Calls, Places
    <2>3. CallTyped'
        BY <1>8, <2>2 DEF CallTyped, Typed, Compare, Building
    <2>4. CASE UNCHANGED <<rt, lock, stray, hist>> /\ cached' = Caching(TRUE)
        <3>1. cached' \in [Callers -> BOOLEAN]
            BY <2>4, CachingTyped
        <3>2. RestTyped'
            BY <1>8, <2>4, <3>1 DEF Compare, Typed, RestTyped
        <3>3. QED
            BY <1>8, <2>3, <2>4, <3>2, TypedParts, FlushesStay, MirrorStays, SessionStays
            DEF Compare
    <2>5. CASE Drop
        <3>1. /\ FlushesTyped' /\ MirrorTyped' /\ cached' \in [Callers -> BOOLEAN]
              /\ hist' \in [raced : BOOLEAN, promised : Contents, orphaned : BOOLEAN,
                           unconfirmed : BOOLEAN, strayed : BOOLEAN]
            BY <1>8, <2>1, <2>5, DropTyped DEF Compare
        <3>2. RestTyped'
            BY <1>8, <3>1 DEF Compare, Typed, RestTyped
        <3>3. QED
            BY <1>8, <2>3, <3>1, <3>2, TypedParts, SessionStays DEF Compare
    <2>6. QED
        BY <1>8, <2>4, <2>5 DEF Compare
<1>9. CASE Write
    <2>1. call \in Calls
        BY <1>9, InCall DEF Write
    <2>2. call' \in Calls /\ ~Building'
        BY <1>9, <2>1, GoesOn DEF Write, Places
    <2>3. call.path \in Paths /\ call.text \in Nat \ {0} /\ rt \in Mirrors /\ Sound(rt)
        BY <1>9, <2>1 DEF Calls, Typed, Write
    <2>4. rt' \in Mirrors /\ Sound(rt')
        BY <1>9, <2>3, WithTyped DEF Write
    <2>5. QED
        BY <1>9, <2>2, <2>4, TypedParts, FlushesStay, SessionStays, RestStays
        DEF Write, CallTyped, MirrorTyped
<1>10. CASE SwitchMode
    <2>1. call \in Calls
        BY <1>10, InCall DEF SwitchMode
    <2>2. call' \in Calls /\ ~Building'
        BY <1>10, <2>1, GoesOn DEF SwitchMode, Places
    <2>3. /\ call.by \in Callers /\ call.op \in Modes /\ rt \in Mirrors /\ Sound(rt)
          /\ tx \in Sessions /\ obj \in [Callers -> Modes \cup {NoMode}]
        BY <1>10, <2>1 DEF Calls, Typed, SwitchMode
    <2>4. CASE Mode(rt) = call.op
        BY <1>10, <2>2, <2>4, TypedParts, FlushesStay, MirrorStays, SessionStays, RestStays
        DEF SwitchMode, CallTyped
    <2>5. CASE Mode(rt) # call.op
        <3>1. /\ rt' = [rt EXCEPT !.mode = call.op, !.dirtyMode = TRUE]
              /\ obj' = [obj EXCEPT ![call.by] = call.op]
              /\ tx' = [tx EXCEPT !.by = call.by, !.mode = call.op]
            BY <1>10, <2>5 DEF SwitchMode
        <3>2. rt' \in Mirrors /\ Sound(rt')
            BY <2>3, <3>1 DEF Mirrors, Sound
        <3>3. tx' \in Sessions /\ tx'.by = call.by
            BY <2>3, <3>1 DEF Sessions
        <3>4. obj' \in [Callers -> Modes \cup {NoMode}]
            BY <2>3, <3>1
        <3>5. RestTyped'
            BY <1>10, <3>4 DEF SwitchMode, Typed, RestTyped
        <3>6. SessionTyped'
            BY <2>3, <3>3, SessionWritten
        <3>7. QED
            BY <1>10, <2>2, <3>2, <3>5, <3>6, TypedParts, FlushesStay
            DEF SwitchMode, CallTyped, MirrorTyped
    <2>6. QED
        BY <2>4, <2>5
<1>11. CASE Return
    <2>1. CallTyped'
        BY <1>11 DEF Return, CallTyped, Building, Idle
    <2>2. QED
        BY <1>11, <2>1, TypedParts, FlushesStay, MirrorStays, SessionStays, RestStays DEF Return
<1>12. CASE TimesOut
    <2>1. call \in Calls
        BY <1>12, InCall DEF TimesOut
    <2>2. QED
        BY <1>12, <2>1, PlaceTyped DEF TimesOut, Places
<1>13. CASE SkipFlush
    <2>1. call \in Calls
        BY <1>13, InCall DEF SkipFlush
    <2>2. QED
        BY <1>13, <2>1, ReadyTyped, PlaceTyped DEF SkipFlush, Places
<1>14. QED
    BY <1>1, <1>2, <1>3, <1>4, <1>5, <1>6, <1>7, <1>8, <1>9, <1>10, <1>11, <1>12, <1>13
    DEF CallStep


\* A flush that is over.
LEMMA FinishedTyped ==
    ASSUME Typed, NEW f \in Flushers, fl[f] # Idle, NEW next, Finished(f, next),
           UNCHANGED store, hist'.strayed = hist.strayed,
           (rt' = rt /\ fl[f].at # "loaded") \/ rt' \in Mirrors
    PROVE  FlushesTyped'
<1> DEFINE mirrors == (IF f \in stray.mirrors THEN Loading ELSE stray.mirrors) \ {f}
           astray == stray.lock /\ ~Astray(f)
<1>1. DOMAIN fl = Flushers /\ stray \in [lock : BOOLEAN, mirrors : SUBSET Flushers]
      /\ (lock = f \/ Astray(f))
    BY DEF Typed
<1>2. /\ fl' = [fl EXCEPT ![f] = Idle] /\ lock' = IF Astray(f) THEN lock ELSE NoOne
      /\ stray' = [lock |-> astray, mirrors |-> mirrors]
    BY DEF Finished
<1>3. DOMAIN fl' = Flushers /\ fl'[f] = Idle /\ \A g \in Flushers \ {f} : fl'[g] = fl[g]
    BY <1>1, <1>2
<1>4. astray \in BOOLEAN /\ mirrors \in SUBSET Flushers
      /\ \A g \in mirrors : g # f /\ store = "local" /\ fl[g].at = "loaded"
    BY <1>1 DEF Loading, Astray, Typed
<1>5. ASSUME rt' = rt, fl[f].at # "loaded"
      PROVE  Mirrored' = Mirrored /\ mirrors = stray.mirrors \ {f}
    <2>1. f \notin stray.mirrors
        BY <1>5 DEF Typed
    <2>2. Mirrored' = Mirrored /\ mirrors = stray.mirrors \ {f}
        BY <1>5, <2>1 DEF Mirrored
    <2>3. QED
        BY <2>2
<1>6. (Mirrored' = Mirrored /\ mirrors = stray.mirrors \ {f}) \/ Mirrored'
    BY <1>5, Apart DEF Mirrored
<1> HIDE DEF mirrors, astray
<1>7. stray'.lock = astray /\ stray'.mirrors = mirrors
      /\ stray' \in [lock : BOOLEAN, mirrors : SUBSET Flushers]
    BY <1>2, <1>4
<1>8. \A g : Astray(g)' <=> g = "worker" /\ astray
    BY <1>7 DEF Astray
<1>9. NoOne \notin Flushers /\ NoOne # "worker" /\ lock' \in Flushers \cup {NoOne}
    BY <1>2, BootstrapAssumption DEF Flushers, Typed
<1>10. ASSUME NEW g \in Flushers
       PROVE  /\ lock' = g => fl'[g] # Idle
              /\ fl'[g] # Idle => lock' = g \/ Astray(g)'
              /\ fl'[g] # Idle /\ Astray(g)' => hist'.strayed
    <2>1. CASE g = f
        <3>1. lock' # f
            BY <1>1, <1>2, <1>9 DEF Typed, Astray
        <3>2. QED
            BY <1>3, <2>1, <3>1
    <2>2. CASE g # f
        <3>1. fl'[g] = fl[g]
            BY <1>3, <2>2
        <3>2. CASE Astray(f)
            BY <1>2, <1>8, <2>2, <3>1, <3>2 DEF Typed, Astray, astray
        <3>3. CASE ~Astray(f)
            <4>1. lock' = NoOne /\ lock = f /\ astray = stray.lock
                BY <1>1, <1>2, <3>3 DEF astray
            <4>2. QED
                BY <1>8, <1>9, <2>2, <3>1, <4>1 DEF Typed, Astray
        <3>4. QED
            BY <3>2, <3>3
    <2>3. QED
        BY <2>1, <2>2
<1>11. ASSUME NEW g \in Flushers
       PROVE  /\ fl'[g] # Idle => fl'[g] \in Flushes
              /\ fl'[g] # Idle => \A p \in fl'[g].paths : fl'[g].files[p] # Absent
              /\ fl'[g].at = "loaded" => fl'[g].cur \in Mirrors /\ Sound(fl'[g].cur)
              /\ store' = "local" /\ fl'[g].at = "loaded" => g \in stray'.mirrors \/ Mirrored'
              /\ g \in stray'.mirrors => store' = "local" /\ fl'[g].at = "loaded"
    <2>1. CASE g = f
        BY <1>3, <1>4, <1>7, <2>1 DEF Idle
    <2>2. CASE g # f
        <3>1. fl'[g] = fl[g]
            BY <1>3, <2>2
        <3>2. store' = "local" /\ fl'[g].at = "loaded" => g \in stray'.mirrors \/ Mirrored'
            BY <1>6, <1>7, <2>2, <3>1 DEF Typed
        <3>3. g \in stray'.mirrors => store' = "local" /\ fl'[g].at = "loaded"
            BY <1>4, <1>7, <3>1
        <3>4. QED
            BY <3>1, <3>2, <3>3 DEF Typed
    <2>3. QED
        BY <2>1, <2>2
<1>12. stray'.lock => store' = "local" /\ lock' # "worker"
    <2>1. SUFFICES ASSUME astray PROVE store = "local" /\ lock' # "worker"
        BY <1>7
    <2>2. stray.lock /\ ~Astray(f)
        BY <2>1 DEF astray
    <2>3. QED
        BY <1>2, <1>9, <2>2 DEF Typed
<1>13. QED
    BY <1>3, <1>7, <1>9, <1>10, <1>11, <1>12 DEF FlushesTyped

\* The call beside it.
LEMMA FinishedCall ==
    ASSUME Typed, NEW f \in Flushers, fl[f] # Idle, NEW next, Finished(f, next),
           f = "host" => call.at = "flush", next \in {call, Noted}
    PROVE  CallTyped'
<1>1. CASE call = Idle
    <2>1. f # "host" /\ next = call
        BY <1>1 DEF Idle, Noted, Building
    <2>2. call' = call
        BY <2>1 DEF Finished
    <2>3. QED
        BY <2>2, CallStays
<1>2. CASE call # Idle
    <2>1. call \in Calls
        BY <1>2 DEF Typed
    <2>2. next \in Calls /\ next.at = call.at /\ next.new = call.new
        <3>1. next = call \/ next = [call EXCEPT !.raced = TRUE]
            BY DEF Noted
        <3>2. CASE next = [call EXCEPT !.raced = TRUE]
            BY <2>1, <3>2 DEF Calls
        <3>3. QED
            BY <2>1, <3>1, <3>2
    <2>3. CASE f = "host"
        <3>1. call' = [next EXCEPT !.at = AfterFlush] /\ AfterFlush \in {"return", "act"}
            BY <2>1, <2>3, ReadyTyped DEF Finished
        <3>2. call' \in Calls /\ ~Building'
            BY <2>2, <3>1 DEF Calls, Places, Building
        <3>3. QED
            BY <3>2 DEF CallTyped
    <2>4. CASE f # "host"
        <3>1. call' = next
            BY <2>4 DEF Finished
        <3>2. QED
            BY <2>2, <3>1 DEF CallTyped, Building, Typed
    <2>5. QED
        BY <2>3, <2>4
<1>3. QED
    BY <1>1, <1>2

LEMMA NotedTyped ==
    ASSUME Typed
    PROVE  /\ call = Idle => Noted = Idle
           /\ call # Idle => Noted \in Calls /\ Noted.at = call.at /\ Noted.new = call.new
<1>1. call = Idle => Noted = Idle
    BY DEF Noted, Building, Idle
<1>2. call # Idle => Noted \in Calls /\ Noted.at = call.at /\ Noted.new = call.new
    BY DEF Typed, Noted, Calls
<1>3. QED
    BY <1>1, <1>2

LEMMA StoredRowsTyped ==
    ASSUME Typed, NEW s \in Flushes
    PROVE  StoredRows(s) \in Contents
<1>1. db.files \in Contents /\ s.files \in Contents
    BY DEF Typed, Flushes
<1>2. QED
    BY <1>1 DEF Contents, StoredRows

\* One flush changes, and keeps the lock.
LEMMA FlushChanged ==
    ASSUME Typed, NEW f \in Flushers, NEW s \in Flushes,
           fl' = [fl EXCEPT ![f] = s], UNCHANGED <<store, stray, rt>>,
           lock' = IF Astray(f) THEN lock ELSE f,
           ~Astray(f) => lock \in {f, NoOne},
           Astray(f) => hist'.strayed,
           hist.strayed => hist'.strayed,
           fl[f].at # "loaded",
           \A p \in s.paths : s.files[p] # Absent,
           s.at = "loaded" => s.cur \in Mirrors /\ Sound(s.cur) /\ Mirrored
    PROVE  FlushesTyped'
<1>1. s # Idle /\ Mirrored' = Mirrored /\ \A g : Astray(g)' = Astray(g)
    BY Apart DEF Mirrored, Astray
<1>2. DOMAIN fl' = Flushers /\ fl'[f] = s /\ \A g \in Flushers \ {f} : fl'[g] = fl[g]
    BY DEF Typed
<1>3. lock' \in Flushers \cup {NoOne} /\ NoOne \notin Flushers /\ f \notin stray.mirrors
    BY BootstrapAssumption DEF Typed, Flushers
<1>4. ASSUME NEW g \in Flushers
      PROVE  /\ lock' = g => fl'[g] # Idle
             /\ fl'[g] # Idle => lock' = g \/ Astray(g)
             /\ fl'[g] # Idle /\ Astray(g) => hist'.strayed
    <2>1. CASE g = f
        BY <1>1, <1>2, <2>1
    <2>2. CASE g # f
        <3>1. fl'[g] = fl[g]
            BY <1>2, <2>2
        <3>2. lock' = g => lock = g
            BY <2>2
        <3>3. fl[g] # Idle => lock' = g \/ Astray(g)
            BY <1>3, <2>2 DEF Typed
        <3>4. QED
            BY <3>1, <3>2, <3>3 DEF Typed
    <2>3. QED
        BY <2>1, <2>2
<1>5. ASSUME NEW g \in Flushers
      PROVE  /\ fl'[g] # Idle => fl'[g] \in Flushes
             /\ fl'[g] # Idle => \A p \in fl'[g].paths : fl'[g].files[p] # Absent
             /\ fl'[g].at = "loaded" => fl'[g].cur \in Mirrors /\ Sound(fl'[g].cur)
             /\ store = "local" /\ fl'[g].at = "loaded" => g \in stray.mirrors \/ Mirrored
             /\ g \in stray.mirrors => store = "local" /\ fl'[g].at = "loaded"
    <2>1. CASE g = f
        BY <1>2, <1>3, <2>1
    <2>2. CASE g # f
        BY <1>2, <2>2 DEF Typed
    <2>3. QED
        BY <2>1, <2>2
<1>6. stray.lock => store = "local" /\ lock' # "worker"
    BY DEF Typed, Astray
<1>7. stray \in [lock : BOOLEAN, mirrors : SUBSET Flushers]
    BY DEF Typed
<1>8. QED
    BY <1>1, <1>2, <1>3, <1>4, <1>5, <1>6, <1>7 DEF FlushesTyped

\* What a flush saves is a mirror.
LEMMA HeldTyped ==
    ASSUME Typed, NEW f \in Flushers, fl[f].at = "loaded"
    PROVE  Held(f) \in Mirrors /\ Sound(Held(f))
BY DEF Typed, Held

LEMMA TypedFlushStep ==
    ASSUME Typed, HostFlushes, NEW f \in Flushers, FlushStep(f)
    PROVE  Typed'
<1>1. DOMAIN fl = Flushers /\ (f = "host" /\ fl[f] # Idle => call.at = "flush")
    BY DEF Typed, HostFlushes
<1>2. fl[f] # Idle => fl[f] \in Flushes /\ \A p \in fl[f].paths : fl[f].files[p] # Absent
    BY DEF Typed
<1>3. CASE Take(f)
    <2> DEFINE s == [at |-> "taken", paths |-> rt.dirty, files |-> rt.files,
                     real |-> rt.real, root |-> rt.root, mode |-> rt.mode,
                     dirtyMode |-> rt.dirtyMode, cur |-> NoMirror]
    <2>1. rt \in Mirrors /\ Sound(rt)
        BY <1>3 DEF Take, Typed
    <2>2. s \in Flushes /\ s.at = "taken"
        BY <2>1 DEF Flushes, Mirrors
    <2>3. \A p \in s.paths : s.files[p] # Absent
        BY <2>1 DEF Sound
    <2> HIDE DEF s
    <2>4. /\ fl' = [fl EXCEPT ![f] = s] /\ fl[f].at # "loaded"
          /\ lock' = (IF Astray(f) THEN lock ELSE f) /\ (Astray(f) \/ lock = NoOne)
          /\ UNCHANGED <<store, db, tx, rt, cached, obj, call, stray, count>>
        BY <1>3 DEF Take, Idle, s
    <2>5. Astray(f) \in BOOLEAN
        BY DEF Astray, Typed
    <2>6. /\ hist' \in [raced : BOOLEAN, promised : Contents, orphaned : BOOLEAN,
                       unconfirmed : BOOLEAN, strayed : BOOLEAN]
          /\ hist'.strayed = (hist.strayed \/ Astray(f))
        BY <1>3, <2>5 DEF Take, Typed
    <2>7. FlushesTyped'
        BY <2>2, <2>3, <2>4, <2>6, FlushChanged
    <2>8. RestTyped'
        BY <2>4, <2>6 DEF Typed, RestTyped
    <2>9. QED
        BY <2>4, <2>7, <2>8, TypedParts, SessionStays, MirrorStays, CallStays
<1>0. CASE TurnBack(f)
    <2>1. /\ f = "worker" /\ fl[f] = Idle
          /\ stray' = [stray EXCEPT !.lock = FALSE]
          /\ UNCHANGED <<store, db, tx, rt, cached, obj, call, fl, lock, count, hist>>
        BY <1>0 DEF TurnBack, Astray
    <2>2. /\ stray' \in [lock : BOOLEAN, mirrors : SUBSET Flushers]
          /\ ~stray'.lock /\ stray'.mirrors = stray.mirrors
        BY <2>1 DEF Typed
    <2>3. Mirrored' = Mirrored /\ \A g \in Flushers : fl[g] # Idle => ~Astray(g) /\ ~Astray(g)'
        BY <2>1, <2>2 DEF Mirrored, Astray
    <2>4. FlushesTyped'
        BY <2>1, <2>2, <2>3 DEF FlushesTyped, Typed
    <2>5. QED
        BY <2>1, <2>4, TypedParts, SessionStays, MirrorStays, CallStays, RestStays
<1>4. CASE Store(f)
    <2>1. fl[f] # Idle /\ fl[f] \in Flushes /\ fl[f].at = "taken" /\ (lock = f \/ Astray(f))
          /\ (Astray(f) => hist.strayed)
        BY <1>2, <1>4 DEF Store, Idle, Typed
    <2>2. CASE UNCHANGED db /\ Finished(f, call)
        BY <1>1, <1>4, <2>1, <2>2, FinishedTyped, FinishedCall, TypedParts, SessionStays,
           MirrorStays, RestStays DEF Store
    <2>3. CASE /\ db' = [db EXCEPT !.files = StoredRows(fl[f]),
                                   !.mode = IF fl[f].dirtyMode THEN fl[f].mode ELSE @]
               /\ fl' = [fl EXCEPT ![f].at = "stored"]
               /\ call' = Noted
               /\ UNCHANGED <<lock, stray>>
        <3> DEFINE s == [fl[f] EXCEPT !.at = "stored"]
        <3>1. s \in Flushes /\ s.at = "stored" /\ s.paths = fl[f].paths /\ s.files = fl[f].files
            BY <2>1 DEF Flushes
        <3>2. fl' = [fl EXCEPT ![f] = s]
            BY <2>3
        <3> HIDE DEF s
        <3>3. FlushesTyped'
            <4>1. \A p \in s.paths : s.files[p] # Absent
                BY <1>2, <2>1, <3>1
            <4>2. UNCHANGED <<store, stray, rt, hist, lock>> /\ s.at # "loaded"
                BY <1>4, <2>3, <3>1 DEF Store
            <4>3. QED
                BY <2>1, <3>1, <3>2, <4>1, <4>2, FlushChanged
        <3>4. CallTyped'
            BY <2>3, NotedTyped DEF CallTyped, Building, Typed
        <3>5. db' \in [root : Nat, files : Contents, mode : Modes \cup {NoMode}]
            <4>1. StoredRows(fl[f]) \in Contents
                BY <2>1, StoredRowsTyped
            <4>2. /\ db \in [root : Nat, files : Contents, mode : Modes \cup {NoMode}]
                  /\ fl[f].mode \in Modes \cup {NoMode}
                BY <2>1 DEF Typed, Flushes
            <4>3. QED
                BY <2>3, <4>1, <4>2
        <3>6. RestTyped'
            BY <1>4, <3>5 DEF Store, Typed, RestTyped
        <3>7. QED
            BY <1>4, <3>3, <3>4, <3>6, TypedParts, SessionStays, MirrorStays DEF Store
    <2>4. QED
        BY <1>4, <2>2, <2>3, Zenon DEF Store
<1>5. CASE Load(f)
    <2>1. fl[f] # Idle /\ fl[f] \in Flushes /\ fl[f].at = "stored" /\ (lock = f \/ Astray(f))
          /\ (Astray(f) => hist.strayed)
        BY <1>2, <1>5 DEF Load, Idle, Typed
    <2>2. CASE ~Mirrored
        BY <1>1, <1>5, <2>1, <2>2, FinishedTyped, FinishedCall, TypedParts, SessionStays,
           MirrorStays, RestStays DEF Load
    <2>3. CASE Mirrored
        <3> DEFINE s == [fl[f] EXCEPT !.at = "loaded", !.cur = rt]
        <3>1. rt \in Mirrors /\ Sound(rt)
            BY <2>3 DEF Typed
        <3>2. /\ s \in Flushes /\ s.cur = rt
              /\ s.paths = fl[f].paths /\ s.files = fl[f].files
            BY <2>1, <3>1 DEF Flushes
        <3>3. /\ fl' = [fl EXCEPT ![f] = s]
              /\ UNCHANGED <<store, stray, rt, hist, lock, call>>
            BY <1>5, <2>3 DEF Load
        <3> HIDE DEF s
        <3>4. s.cur \in Mirrors /\ Sound(s.cur) /\ \A p \in s.paths : s.files[p] # Absent
            BY <1>2, <2>1, <3>1, <3>2
        <3>5. FlushesTyped'
            <4>1. s \in Flushes
                BY <3>2
            <4>2. QED
                BY <2>1, <2>3, <3>3, <3>4, <4>1, FlushChanged
        <3>6. QED
            BY <1>5, <3>3, <3>5, TypedParts, SessionStays, MirrorStays, CallStays, RestStays DEF Load
    <2>4. QED
        BY <2>2, <2>3
<1>6. CASE Save(f)
    <2>1. fl[f] # Idle /\ fl[f] \in Flushes /\ Held(f) \in Mirrors /\ Sound(Held(f))
        BY <1>2, <1>6, HeldTyped DEF Save, Idle, Typed
    <2>2. rt' \in Mirrors /\ Sound(rt')
        BY <1>2, <1>6, <2>1, ConfirmedFields, ConfirmedSound DEF Save
    <2>3. /\ hist' \in [raced : BOOLEAN, promised : Contents, orphaned : BOOLEAN,
                       unconfirmed : BOOLEAN, strayed : BOOLEAN]
          /\ hist'.strayed = hist.strayed
        <3> DEFINE promised == [p \in Paths |-> IF f = "host" /\ ~hist.orphaned /\ p \in fl[f].paths
                                                THEN fl[f].files[p] ELSE hist.promised[p]]
        <3>1. /\ hist \in [raced : BOOLEAN, promised : Contents, orphaned : BOOLEAN,
                           unconfirmed : BOOLEAN, strayed : BOOLEAN]
              /\ fl[f].files \in Contents
            BY <2>1 DEF Typed, Flushes
        <3>2. promised \in Contents
            BY <3>1 DEF Contents
        <3>3. hist' = [hist EXCEPT !.raced = @ \/ ~Mirrored, !.promised = promised]
            BY <1>6 DEF Save
        <3> HIDE DEF promised
        <3>4. QED
            BY <3>1, <3>2, <3>3 DEF Mirrored
    <2>4. FlushesTyped' /\ CallTyped'
        BY <1>1, <1>6, <2>1, <2>2, <2>3, FinishedTyped, FinishedCall DEF Save
    <2>5. RestTyped'
        BY <1>6, <2>3 DEF Save, Typed, RestTyped
    <2>6. QED
        BY <1>6, <2>2, <2>4, <2>5, TypedParts, SessionStays DEF Save, MirrorTyped
<1>7. QED
    BY <1>0, <1>3, <1>4, <1>5, <1>6 DEF FlushStep


LEMMA StartedTyped ==
    ASSUME Typed, NEW c \in Callers, Start(c)
    PROVE  Typed'
<1>1. count \in [calls : Nat, restarts : Nat, roots : Nat] /\ cached \in [Callers -> BOOLEAN]
    BY DEF Typed
<1>2. count' \in [calls : Nat, restarts : Nat, roots : Nat]
    BY <1>1 DEF Start
<1>3. PICK op \in Ops, p \in Paths :
          call' = [at |-> CASE op = "flush" -> "flush"
                            [] op = "refresh" -> "current"
                            [] OTHER -> "look",
                   by |-> c, op |-> op, path |-> p, text |-> count.calls + 2,
                   todo |-> {}, cur |-> NoMirror, new |-> NoMirror,
                   fresh |-> FALSE, raced |-> FALSE,
                   known |-> cached[c] /\ Mirrored]
    BY DEF Start, Ops
<1>4. call'.at \in {"flush", "current", "look"} /\ call'.at \in Places
    BY <1>3 DEF Places
<1>5. count.calls + 2 \in Nat \ {0}
    BY <1>1
<1>6. call' \in Calls
    BY <1>1, <1>3, <1>4, <1>5 DEF Calls, Mirrored
<1>7. CallTyped'
    BY <1>4, <1>6 DEF CallTyped, Building
<1>8. RestTyped'
    BY <1>2 DEF Start, Typed, RestTyped
<1>9. QED
    BY <1>7, <1>8, TypedParts, FlushesStay, SessionStays, MirrorStays DEF Start

\* The call that begins.
LEMMA StartedCall ==
    ASSUME NEW c \in Callers, Start(c)
    PROVE  /\ call' # Idle
           /\ call'.by = c /\ call'.known = (cached[c] /\ Mirrored)
           /\ call'.text = count.calls + 2 /\ ~call'.raced
           /\ call'.op \in Ops /\ call'.path \in Paths
           /\ call'.at \in {"flush", "current", "look"}
           /\ call'.at = "flush" <=> call'.op = "flush"
           /\ call'.at = "current" <=> call'.op = "refresh"
<1>1. PICK op \in Ops, p \in Paths :
          call' = [at |-> CASE op = "flush" -> "flush"
                            [] op = "refresh" -> "current"
                            [] OTHER -> "look",
                   by |-> c, op |-> op, path |-> p, text |-> count.calls + 2,
                   todo |-> {}, cur |-> NoMirror, new |-> NoMirror,
                   fresh |-> FALSE, raced |-> FALSE,
                   known |-> cached[c] /\ Mirrored]
    BY DEF Start, Ops
<1> DEFINE at == CASE op = "flush" -> "flush"
                   [] op = "refresh" -> "current"
                   [] OTHER -> "look"
<1>2. /\ at \in {"flush", "current", "look"}
      /\ at = "flush" <=> op = "flush"
      /\ at = "current" <=> op = "refresh"
    OBVIOUS
<1>3. /\ call'.at = at /\ call'.by = c /\ call'.op = op /\ call'.path = p
      /\ call'.text = count.calls + 2 /\ call'.raced = FALSE
      /\ call'.known = (cached[c] /\ Mirrored)
    BY <1>1
<1> HIDE DEF at
<1>4. call' # Idle
    BY <1>2, <1>3 DEF Idle
<1>5. QED
    BY <1>2, <1>3, <1>4

\* What a restart ends.
LEMMA RestartParts ==
    ASSUME Typed, NEW c \in Callers, Restart(c)
    PROVE  \E ends \in [Flushers -> BOOLEAN] :
              /\ store = "local" => ends["worker"] /\ ends["host"]
              /\ ends["host"] <=> store = "local" \/ (call # Idle /\ call.by = c)
              /\ fl' = [f \in Flushers |-> IF ends[f] THEN Idle ELSE fl[f]]
              /\ lock' = IF lock # NoOne /\ ends[lock] THEN NoOne ELSE lock
              /\ stray' = IF store = "local" THEN [lock |-> FALSE, mirrors |-> {}] ELSE stray
BY DEF Restart

LEMMA RestartedTyped ==
    ASSUME Typed, NEW c \in Callers, Restart(c)
    PROVE  Typed'
<1>0. PICK ends \in [Flushers -> BOOLEAN] :
          /\ store = "local" => ends["worker"] /\ ends["host"]
          /\ fl' = [f \in Flushers |-> IF ends[f] THEN Idle ELSE fl[f]]
          /\ lock' = IF lock # NoOne /\ ends[lock] THEN NoOne ELSE lock
          /\ stray' = IF store = "local" THEN [lock |-> FALSE, mirrors |-> {}] ELSE stray
    BY RestartParts
<1>7. hist' \in [raced : BOOLEAN, promised : Contents, orphaned : BOOLEAN,
                unconfirmed : BOOLEAN, strayed : BOOLEAN]
      /\ hist'.strayed = hist.strayed
    <2> DEFINE dead == \E f \in Flushers : fl[f].at \in {"stored", "loaded"} /\ fl'[f] = Idle
               lost == (tx # NoTx /\ tx.by \in SameProcess(c)) /\ tx.shown
    <2>1. tx.shown \in BOOLEAN
        BY DEF Typed, Sessions
    <2>2. dead \in BOOLEAN /\ lost \in BOOLEAN
        BY <2>1
    <2>3. hist' = [hist EXCEPT !.unconfirmed = @ \/ dead, !.orphaned = @ \/ lost]
        BY DEF Restart
    <2> HIDE DEF dead, lost
    <2>4. QED
        BY <2>2, <2>3 DEF Typed
<1>1. FlushesTyped'
    <2>1. /\ DOMAIN fl' = Flushers
          /\ \A f \in Flushers : fl'[f] = Idle \/ (fl'[f] = fl[f] /\ ~ends[f])
          /\ \A f \in Flushers : ends[f] => fl'[f] = Idle
        BY <1>0
    <2>2. lock' \in Flushers \cup {NoOne} /\ store' = store
        BY <1>0 DEF Typed, Restart
    <2>3. CASE store = "local"
        <3>1. \A f \in Flushers : fl'[f] = Idle /\ lock' # f
            BY <1>0, <2>1, <2>3, BootstrapAssumption DEF Flushers, Typed
        <3>2. stray' = [lock |-> FALSE, mirrors |-> {}]
            BY <1>0, <2>3
        <3>3. QED
            BY <2>1, <2>2, <3>1, <3>2 DEF FlushesTyped, Idle, Astray
    <2>4. CASE store # "local"
        <3>1. stray' = stray /\ rt' = rt /\ ~stray.lock /\ \A f : Astray(f)' = Astray(f)
            BY <1>0, <2>4 DEF Restart, Typed, Astray
        <3>2. ASSUME NEW f \in Flushers
              PROVE  /\ lock' = f => fl'[f] # Idle
                     /\ fl'[f] # Idle => lock' = f
                     /\ f \notin stray.mirrors /\ ~Astray(f)
            <4>1. (fl[f] # Idle <=> lock = f) /\ f # NoOne /\ f \notin stray.mirrors /\ ~Astray(f)
                BY <2>4, <3>1, BootstrapAssumption DEF Typed, Flushers, Astray
            <4>2. QED
                BY <1>0, <2>1, <4>1
        <3>3. \A f \in Flushers :
                 /\ fl'[f] # Idle => fl'[f] \in Flushes
                 /\ fl'[f] # Idle => \A p \in fl'[f].paths : fl'[f].files[p] # Absent
                 /\ fl'[f].at = "loaded" => fl'[f].cur \in Mirrors /\ Sound(fl'[f].cur)
            BY <2>1 DEF Typed, Idle
        <3>4. stray \in [lock : BOOLEAN, mirrors : SUBSET Flushers]
            BY DEF Typed
        <3>5. QED
            BY <2>1, <2>2, <2>4, <3>1, <3>2, <3>3, <3>4 DEF FlushesTyped
    <2>5. QED
        BY <2>3, <2>4
<1>2. CallTyped'
    <2>1. call' = Idle \/ call' = call
        BY DEF Restart
    <2>2. CASE call' = Idle
        BY <2>2 DEF CallTyped, Building, Idle
    <2>3. QED
        BY <2>1, <2>2, CallStays
<1>3. MirrorTyped'
    BY DEF Restart, Typed, MirrorTyped, Mirrored
<1>4. SessionTyped'
    <2>1. tx' = NoTx \/ tx' = tx
        BY DEF Restart
    <2>2. CASE tx' = NoTx
        BY <2>2, NoTxTyped DEF SessionTyped
    <2>3. QED
        BY <2>1, <2>2, SessionStays
<1>5. RestTyped'
    <2>1. db.mode \in Modes \cup {NoMode} /\ tx.shown \in BOOLEAN
        BY DEF Typed, Sessions
    <2>2. /\ cached' \in [Callers -> BOOLEAN]
          /\ obj' \in [Callers -> Modes \cup {NoMode}]
        BY <2>1 DEF Restart, Typed
    <2>3. count' \in [calls : Nat, restarts : Nat, roots : Nat]
        BY DEF Restart, Typed
    <2>4. QED
        BY <1>7, <2>2, <2>3 DEF RestTyped, Restart, Typed
<1>6. QED
    BY <1>1, <1>2, <1>3, <1>4, <1>5, TypedParts

LEMMA CommittedTyped ==
    ASSUME Typed, HostCommit
    PROVE  Typed'
<1>1. [p \in Paths |-> Row(p)] \in Contents /\ Root \in Nat /\ RowMode \in Modes \cup {NoMode}
    BY RowsTyped DEF Contents
<1>2. db' \in [root : Nat, files : Contents, mode : Modes \cup {NoMode}]
    BY <1>1 DEF HostCommit
<1>3. RestTyped'
    BY <1>2 DEF HostCommit, RestTyped, Typed
<1>4. SessionTyped'
    BY NoTxTyped DEF HostCommit, SessionTyped
<1>5. QED
    BY <1>3, <1>4, TypedParts, FlushesStay, MirrorStays, CallStays DEF HostCommit

\* The host flushes in its calls only.
LEMMA HostFlushesStep ==
    ASSUME Typed, HostFlushes, [Next]_vars
    PROVE  HostFlushes'
<1>1. DOMAIN fl = Flushers /\ "host" \in Flushers
    BY DEF Typed, Flushers
<1>2. ASSUME UNCHANGED fl, call'.at = call.at PROVE HostFlushes'
    BY <1>2 DEF HostFlushes
<1>3. ASSUME UNCHANGED fl, call.at # "flush" PROVE HostFlushes'
    BY <1>3 DEF HostFlushes
<1>4. ASSUME CallStep PROVE HostFlushes'
    <2>1. CASE SkipFlush
        BY <2>1 DEF SkipFlush, HostFlushes
    <2>2. QED
        BY <1>3, <1>4, <2>1 DEF CallStep, Look, MakeRoot, Seed, Meta, Build, Install, Current,
           Compare, Write, SwitchMode, Return, TimesOut
<1>5. ASSUME NEW f \in Flushers, FlushStep(f) PROVE HostFlushes'
    <2>1. Noted.at = call.at
        <3>1. CASE call = Idle
            BY <3>1, NotedTyped
        <3>2. CASE call # Idle
            BY <3>2, NotedTyped
        <3>3. QED
            BY <3>1, <3>2
    <2>2. ASSUME NEW next, next.at = call.at, Finished(f, next), fl[f] # Idle PROVE HostFlushes'
        <3>1. fl'["host"] = Idle \/ (fl'["host"] = fl["host"] /\ f # "host")
            BY <1>1, <2>2 DEF Finished
        <3>2. CASE f # "host"
            BY <2>2, <3>1, <3>2 DEF Finished, HostFlushes
        <3>3. QED
            BY <3>1, <3>2 DEF HostFlushes
    <2>3. CASE Take(f)
        <3>1. f # "host" => fl'["host"] = fl["host"]
            BY <1>1, <2>3 DEF Take
        <3>2. QED
            BY <2>3, <3>1 DEF Take, HostFlushes
    <2>4. CASE Store(f)
        <3>1. fl[f] # Idle
            BY <2>4 DEF Store, Idle
        <3>2. CASE Finished(f, call)
            BY <2>2, <3>1, <3>2
        <3>3. CASE fl' = [fl EXCEPT ![f].at = "stored"] /\ call' = Noted
            <4>1. fl'["host"] # Idle => fl["host"] # Idle
                BY <1>1, <3>1, <3>3
            <4>2. QED
                BY <2>1, <3>3, <4>1 DEF HostFlushes
        <3>4. QED
            BY <2>4, <3>2, <3>3, Zenon DEF Store
    <2>5. CASE Load(f)
        <3>1. fl[f] # Idle
            BY <2>5 DEF Load, Idle
        <3>2. CASE Finished(f, call)
            BY <2>2, <3>1, <3>2
        <3>3. CASE fl' = [fl EXCEPT ![f].at = "loaded", ![f].cur = rt] /\ call' = call
            <4>1. fl'["host"] # Idle => fl["host"] # Idle
                BY <1>1, <3>1, <3>3
            <4>2. QED
                BY <3>3, <4>1 DEF HostFlushes
        <3>4. QED
            BY <2>5, <3>2, <3>3, Zenon DEF Load
    <2>6. CASE Save(f)
        <3>1. fl[f] # Idle
            BY <2>6 DEF Save, Idle
        <3>2. QED
            BY <2>1, <2>2, <2>6, <3>1 DEF Save
    <2>7. CASE TurnBack(f)
        BY <1>2, <2>7 DEF TurnBack
    <2>8. QED
        BY <1>5, <2>3, <2>4, <2>5, <2>6, <2>7 DEF FlushStep
<1>6. ASSUME NEW c \in Callers, Start(c) PROVE HostFlushes'
    BY <1>3, <1>6 DEF Start, Idle
<1>7. ASSUME NEW c \in Callers, Restart(c) PROVE HostFlushes'
    <2>1. PICK ends \in [Flushers -> BOOLEAN] :
              /\ ends["host"] <=> store = "local" \/ (call # Idle /\ call.by = c)
              /\ fl' = [f \in Flushers |-> IF ends[f] THEN Idle ELSE fl[f]]
        BY <1>7, RestartParts
    <2>2. CASE ends["host"]
        BY <1>1, <2>1, <2>2 DEF HostFlushes
    <2>3. CASE ~ends["host"]
        <3>1. store # "local" /\ ~(call # Idle /\ call.by = c)
            BY <2>1, <2>3
        <3>2. call' = call
            BY <1>7, <3>1 DEF Restart, SameProcess
        <3>3. fl'["host"] = fl["host"]
            BY <1>1, <2>1, <2>3
        <3>4. QED
            BY <3>2, <3>3 DEF HostFlushes
    <2>4. QED
        BY <2>2, <2>3
<1>8. CASE HostCommit
    BY <1>2, <1>8 DEF HostCommit
<1>9. CASE UNCHANGED vars
    BY <1>2, <1>9 DEF vars
<1>10. QED
    BY <1>4, <1>5, <1>6, <1>7, <1>8, <1>9 DEF Next

LEMMA TypedAlways == Spec => [](Typed /\ HostFlushes)
<1>1. Init => Typed /\ HostFlushes
    <2>1. Init => HostFlushes
        BY DEF Init, HostFlushes, Flushers
    <2>2. QED
        BY <2>1, TypedInit
<1>2. Typed /\ HostFlushes /\ [Next]_vars => Typed' /\ HostFlushes'
    <2>1. SUFFICES ASSUME Typed, HostFlushes, [Next]_vars PROVE Typed'
        BY HostFlushesStep
    <2>2. CASE UNCHANGED vars
        BY <2>1, <2>2, TypedParts, FlushesStay, SessionStays, MirrorStays, CallStays, RestStays DEF vars
    <2>3. QED
        <3>1. ASSUME CallStep PROVE Typed'
            BY <2>1, <3>1, TypedCallStep
        <3>2. ASSUME NEW f \in Flushers, FlushStep(f) PROVE Typed'
            BY <2>1, <3>2, TypedFlushStep
        <3>3. ASSUME NEW c \in Callers, Start(c) \/ Restart(c) PROVE Typed'
            BY <2>1, <3>3, StartedTyped, RestartedTyped
        <3>4. ASSUME HostCommit PROVE Typed'
            BY <2>1, <3>4, CommittedTyped
        <3>5. QED
            BY <2>1, <2>2, <3>1, <3>2, <3>3, <3>4 DEF Next
<1>3. QED
    BY <1>1, <1>2, PTL DEF Spec

\* The variables keep their types, and a flush that runs has the lock, but for a
\* worker's flush under which a refresh dropped the lock object of the local
\* store, for any number of callers, calls and restarts (bootstrap.py).
THEOREM TypesAreKept == Spec => []TypeOK
<1>1. Typed => TypeOK
    BY DEF Typed, TypeOK, Sound, Mirrors, Sessions, Contents, Loading
<1>2. QED
    BY <1>1, TypedAlways, PTL


-----------------------------------------------------------------------------
(* No call undoes what the mirror has.                                      *)

\* Steps of a flush change nothing of a call but where it is, and whether it
\* is raced.
LEMMA FlushCall ==
    ASSUME Typed, HostFlushes, NEW f \in Flushers, FlushStep(f)
    PROVE  /\ call = Idle => call' = Idle
           /\ call # Idle =>
                 /\ call' \in Calls
                 /\ call'.by = call.by /\ call'.op = call.op /\ call'.known = call.known
                 /\ call'.text = call.text /\ call'.path = call.path /\ call'.new = call.new
                 /\ call'.at = call.at
                    \/ (f = "host" /\ call.at = "flush" /\ call'.at \in {"return", "act"}
                        /\ (call'.at = "act" => call.op # "flush"))
<1>1. (f = "host" /\ fl[f] # Idle => call.at = "flush") /\ (call # Idle => call \in Calls)
    BY DEF Typed, HostFlushes
<1>2. AfterFlush \in {"return", "act"} /\ (AfterFlush = "act" => call.op # "flush")
    BY DEF AfterFlush
<1>3. ASSUME NEW next \in {call, Noted}, Finished(f, next), fl[f] # Idle
      PROVE  /\ call = Idle => call' = Idle
             /\ call # Idle =>
                   /\ call' \in Calls
                   /\ call'.by = call.by /\ call'.op = call.op /\ call'.known = call.known
                   /\ call'.text = call.text /\ call'.path = call.path /\ call'.new = call.new
                   /\ call'.at = call.at
                      \/ (f = "host" /\ call.at = "flush" /\ call'.at \in {"return", "act"}
                          /\ (call'.at = "act" => call.op # "flush"))
    <2>1. CASE call = Idle
        <3>1. f # "host" /\ next = Idle
            BY <1>1, <1>3, <2>1 DEF Noted, Building, Idle
        <3>2. QED
            BY <1>3, <2>1, <3>1 DEF Finished
    <2>2. CASE call # Idle
        <3>1. /\ next \in Calls /\ next.by = call.by /\ next.op = call.op
              /\ next.known = call.known /\ next.text = call.text /\ next.path = call.path
              /\ next.new = call.new /\ next.at = call.at
            <4>1. call \in Calls
                BY <1>1, <2>2
            <4>2. CASE next = call
                BY <4>1, <4>2
            <4>3. CASE next = [call EXCEPT !.raced = TRUE]
                BY <4>1, <4>3 DEF Calls
            <4>4. QED
                BY <1>3, <4>2, <4>3 DEF Noted
        <3>2. CASE f # "host"
            BY <1>3, <2>2, <3>1, <3>2 DEF Finished
        <3>3. CASE f = "host"
            <4>1. call' = [next EXCEPT !.at = AfterFlush]
                BY <1>3, <3>3 DEF Finished
            <4>2. QED
                BY <1>1, <1>2, <1>3, <2>2, <3>1, <3>3, <4>1 DEF Calls, Places
        <3>4. QED
            BY <3>2, <3>3
    <2>3. QED
        BY <2>1, <2>2
<1>4. CASE Take(f)
    BY <1>1, <1>4 DEF Take
<1>5. CASE Store(f)
    <2>1. fl[f] # Idle
        BY <1>5 DEF Store, Idle
    <2>2. CASE Finished(f, call)
        BY <1>3, <2>1, <2>2
    <2>3. CASE call' = Noted
        <3>1. CASE call = Idle
            BY <2>3, <3>1 DEF Noted, Building, Idle
        <3>2. CASE call # Idle
            BY <1>1, <2>3, <3>2 DEF Noted, Calls
        <3>3. QED
            BY <3>1, <3>2
    <2>4. QED
        BY <1>5, <2>2, <2>3, Zenon DEF Store
<1>6. CASE Load(f)
    <2>1. fl[f] # Idle
        BY <1>6 DEF Load, Idle
    <2>2. CASE Finished(f, call)
        BY <1>3, <2>1, <2>2
    <2>3. CASE call' = call
        BY <1>1, <2>3
    <2>4. QED
        BY <1>6, <2>2, <2>3, Zenon DEF Load
<1>7. CASE Save(f)
    <2>1. fl[f] # Idle
        BY <1>7 DEF Save, Idle
    <2>2. QED
        BY <1>3, <1>7, <2>1 DEF Save
<1>8. CASE TurnBack(f)
    BY <1>1, <1>8 DEF TurnBack
<1>9. QED
    BY <1>4, <1>5, <1>6, <1>7, <1>8 DEF FlushStep

\* A mirror stays through a flush.
LEMMA FlushKeepsMirror ==
    ASSUME Typed, NEW f \in Flushers, FlushStep(f)
    PROVE  Mirrored => Mirrored'
<1>1. CASE Save(f)
    <2>1. fl[f] \in Flushes /\ Held(f) \in Mirrors
        BY <1>1, HeldTyped DEF Save, Typed, Idle
    <2>2. rt' \in Mirrors
        BY <1>1, <2>1, ConfirmedFields DEF Save
    <2>3. QED
        BY <2>2, Apart DEF Mirrored
<1>2. QED
    BY <1>1 DEF FlushStep, Take, TurnBack, Store, Load, Mirrored

\* Restarts end the calls of their process.
LEMMA RestartCall ==
    ASSUME Typed, NEW c \in Callers, Restart(c), call' # Idle
    PROVE  /\ call' = call /\ call # Idle /\ store # "local"
           /\ call.by \in Callers /\ call.by # c
           /\ rt' = rt /\ cached'[call.by] = cached[call.by]
<1>1. call' = call /\ call # Idle /\ call.by \notin SameProcess(c)
    BY DEF Restart
<1>2. call.by \in Callers
    BY <1>1 DEF Typed, Calls
<1>3. store # "local" /\ call.by # c
    BY <1>1, <1>2 DEF SameProcess
<1>4. QED
    BY <1>1, <1>2, <1>3 DEF Restart, Typed

\* What making the root does to the call: it raises, or goes on to the seeds.
LEMMA MakeRootCall ==
    ASSUME call \in Calls, MakeRoot
    PROVE  /\ call'.op = call.op /\ call'.by = call.by /\ call'.known = call.known
           /\ call'.at \in {"raised", "seed"}
<1> DEFINE fresh == Root = 0 /\ ~Mirrored
           root == IF Root = 0 THEN count.roots + 1 ELSE Root
<1>1. CASE Mirrored /\ rt.root # root
    <2>1. call' = [call EXCEPT !.at = "raised"]
        BY <1>1 DEF MakeRoot
    <2>2. QED
        BY <2>1 DEF Calls
<1>2. CASE ~(Mirrored /\ rt.root # root)
    <2>1. call' = [call EXCEPT !.at = "seed", !.todo = SeedsOf[call.by], !.fresh = fresh]
        BY <1>2 DEF MakeRoot
    <2> HIDE DEF fresh
    <2>2. QED
        BY <2>1 DEF Calls
<1>3. QED
    BY <1>1, <1>2

\* What a step of a call does to the call.
LEMMA CallStepCall ==
    ASSUME Typed, HostFlushes, CallStep
    PROVE  /\ call # Idle /\ call \in Calls
           /\ call' = Idle
              \/ /\ call'.op = call.op /\ call'.by = call.by /\ call'.known = call.known
                 /\ call' \in Calls
           /\ fl' = fl /\ db' = db
<1>1. call.at # "idle"
    <2>1. Look \/ (\E p \in Paths : Seed(p)) \/ Meta => call.at # "idle"
        BY DEF Look, Seed, Meta
    <2>2. Build \/ Install \/ Current \/ Compare => call.at # "idle"
        BY DEF Build, Install, Current, Compare
    <2>3. Write \/ SwitchMode \/ Return => call.at # "idle"
        BY DEF Write, SwitchMode, Return
    <2>4. TimesOut \/ SkipFlush => call.at # "idle"
        BY DEF TimesOut, SkipFlush
    <2>5. MakeRoot => call.at # "idle"
        BY Zenon DEF MakeRoot
    <2>6. QED
        BY <2>1, <2>2, <2>3, <2>4, <2>5 DEF CallStep
<1>2. call # Idle /\ call \in Calls
    BY <1>1, InCall
<1>3. call' # Idle => call' \in Calls
    BY TypedCallStep DEF Typed
<1> DEFINE SameCall == call'.op = call.op /\ call'.by = call.by /\ call'.known = call.known
<1>4. call' = Idle \/ SameCall
    <2>1. ASSUME NEW at, Goto(at) PROVE SameCall
        BY <1>2, <2>1 DEF Goto, Calls
    <2>2. CASE Look
        BY <2>1, <2>2 DEF Look
    <2>3. CASE MakeRoot
        BY <1>2, <2>3, MakeRootCall
    <2>4. CASE \E p \in Paths : Seed(p)
        <3>1. PICK p \in Paths : Seed(p)
            BY <2>4
        <3>2. call' = [call EXCEPT !.todo = @ \ {p}]
            BY <3>1 DEF Seed
        <3>3. QED
            BY <1>2, <3>2 DEF Calls
    <2>5. CASE Meta
        BY <2>1, <2>5 DEF Meta
    <2>6. CASE Build
        <3> DEFINE at == IF call.op = "refresh" /\ ~call.fresh THEN "compare" ELSE "install"
        <3>1. call' = [call EXCEPT !.new = Built, !.at = at]
            BY <2>6 DEF Build
        <3> HIDE DEF at
        <3>2. QED
            BY <1>2, <3>1 DEF Calls
    <2>7. CASE Install
        BY <2>1, <2>7 DEF Install
    <2>8. CASE Current
        <3>1. \/ call' = [call EXCEPT !.at = "build", !.cur = rt]
              \/ call' = [call EXCEPT !.at = "build", !.fresh = TRUE]
            BY <2>8 DEF Current
        <3>2. CASE call' = [call EXCEPT !.at = "build", !.cur = rt]
            BY <1>2, <3>2 DEF Calls
        <3>3. CASE call' = [call EXCEPT !.at = "build", !.fresh = TRUE]
            BY <1>2, <3>3 DEF Calls
        <3>4. QED
            BY <3>1, <3>2, <3>3
    <2>9. CASE Compare
        BY <2>1, <2>9 DEF Compare
    <2>10. CASE Write
        BY <2>1, <2>10 DEF Write
    <2>11. CASE SwitchMode
        BY <2>1, <2>11 DEF SwitchMode
    <2>12. CASE TimesOut
        BY <2>1, <2>12 DEF TimesOut
    <2>13. CASE SkipFlush
        BY <2>1, <2>13 DEF SkipFlush
    <2>14. CASE Return
        BY <2>14 DEF Return
    <2>15. QED
        BY <2>2, <2>3, <2>4, <2>5, <2>6, <2>7, <2>8, <2>9, <2>10, <2>11, <2>12, <2>13, <2>14 DEF CallStep
<1>5. fl' = fl /\ db' = db
    <2>1. Look \/ (\E p \in Paths : Seed(p)) \/ Meta => fl' = fl /\ db' = db
        BY DEF Look, Seed, Meta
    <2>2. Build \/ Install \/ Current \/ Compare => fl' = fl /\ db' = db
        BY DEF Build, Install, Current, Compare
    <2>3. Write \/ SwitchMode \/ Return => fl' = fl /\ db' = db
        BY DEF Write, SwitchMode, Return
    <2>4. TimesOut \/ SkipFlush => fl' = fl /\ db' = db
        BY DEF TimesOut, SkipFlush
    <2>5. MakeRoot => fl' = fl /\ db' = db
        BY Zenon DEF MakeRoot
    <2>6. QED
        BY <2>1, <2>2, <2>3, <2>4, <2>5 DEF CallStep
<1>6. call' # Idle => call' \in Calls /\ call'.op = call.op /\ call'.by = call.by
                      /\ call'.known = call.known
    BY <1>3, <1>4
<1>7. QED
    BY <1>2, <1>5, <1>6

LEMMA KnowingStep ==
    ASSUME Typed, HostFlushes, Knowing, [Next]_vars
    PROVE  Knowing'
<1> SUFFICES ASSUME call' # Idle, call'.op # "refresh", call'.known
             PROVE  /\ cached'[call'.by] /\ Mirrored'
                    /\ call'.at \in {"look", "act", "flush", "return", "raised"}
    BY DEF Knowing
<1>1. CASE CallStep
    <2>1. call # Idle /\ call \in Calls
        BY <1>1, CallStepCall
    <2>2. call'.op = call.op /\ call'.by = call.by /\ call'.known = call.known
        BY <1>1, CallStepCall
    <2>3. /\ cached[call.by] /\ Mirrored
          /\ call.at \in {"look", "act", "flush", "return", "raised"}
        BY <2>1, <2>2 DEF Knowing
    <2>4. CASE Look
        BY <2>1, <2>2, <2>3, <2>4, ReadyTyped DEF Look, Goto, Calls, Mirrored
    <2>5. CASE Write
        <3>1. rt \in Mirrors /\ call.path \in Paths /\ call.text \in Nat
            BY <2>1, <2>3 DEF Typed, Calls
        <3>2. rt' \in Mirrors
            BY <2>5, <3>1, WithTyped DEF Write
        <3>3. QED
            BY <2>1, <2>2, <2>3, <2>5, <3>2, Apart DEF Write, Goto, Calls, Mirrored
    <2>6. CASE SwitchMode
        <3>1. rt \in Mirrors /\ call.op \in Modes
            BY <2>3, <2>6 DEF Typed, SwitchMode
        <3>2. rt' \in Mirrors
            BY <2>6, <3>1 DEF SwitchMode, Mirrors
        <3>3. QED
            BY <2>1, <2>2, <2>3, <2>6, <3>2, Apart DEF SwitchMode, Goto, Calls, Mirrored
    <2>7. CASE TimesOut
        BY <2>1, <2>2, <2>3, <2>7 DEF TimesOut, Goto, Calls, Mirrored
    <2>8. CASE SkipFlush
        BY <2>1, <2>2, <2>3, <2>8, ReadyTyped DEF SkipFlush, Goto, Calls, Mirrored
    <2>9. QED
        BY <1>1, <2>3, <2>4, <2>5, <2>6, <2>7, <2>8
        DEF CallStep, MakeRoot, Seed, Meta, Build, Install, Current, Compare, Return, Building
<1>2. CASE \E f \in Flushers : FlushStep(f)
    <2>1. PICK f \in Flushers : FlushStep(f)
        BY <1>2
    <2>2. /\ call # Idle /\ call'.by = call.by /\ call'.op = call.op /\ call'.known = call.known
          /\ call'.at = call.at \/ call'.at \in {"return", "act"}
        BY <2>1, FlushCall
    <2>3. /\ cached[call.by] /\ Mirrored
          /\ call.at \in {"look", "act", "flush", "return", "raised"}
        BY <2>2 DEF Knowing
    <2>4. cached' = cached
        BY <2>1 DEF FlushStep, Take, TurnBack, Store, Load, Save
    <2>5. Mirrored'
        BY <2>1, <2>3, FlushKeepsMirror
    <2>6. QED
        BY <2>2, <2>3, <2>4, <2>5
<1>3. CASE \E c \in Callers : Start(c)
    <2>1. PICK c \in Callers : Start(c)
        BY <1>3
    <2>2. /\ call'.by = c /\ call'.known = (cached[c] /\ Mirrored)
          /\ call'.at \in {"look", "flush"}
        BY <2>1, StartedCall
    <2>3. QED
        BY <2>1, <2>2 DEF Start, Mirrored
<1>4. CASE \E c \in Callers : Restart(c)
    <2>1. PICK c \in Callers : Restart(c)
        BY <1>4
    <2>2. /\ call' = call /\ call # Idle
          /\ rt' = rt /\ cached'[call.by] = cached[call.by]
        BY <2>1, RestartCall
    <2>3. QED
        BY <2>2 DEF Knowing, Mirrored
<1>5. CASE HostCommit \/ UNCHANGED vars
    BY <1>5 DEF HostCommit, vars, Knowing, Mirrored
<1>6. QED
    BY <1>1, <1>2, <1>3, <1>4, <1>5 DEF Next


LEMMA LoadedStep ==
    ASSUME Typed, HostFlushes, Loaded, [Next]_vars
    PROVE  Loaded'
<1>0. store' = store /\ stray \in [lock : BOOLEAN, mirrors : SUBSET Flushers]
      /\ hist.raced \in BOOLEAN
    BY DEF Typed, Next, vars, CallStep, Look, MakeRoot, Seed, Meta, Build, Install, Current,
           Compare, Write, SwitchMode, Return, TimesOut, SkipFlush, FlushStep, Take, TurnBack,
           Store, Load, Save, Start, Restart, HostCommit
<1> SUFFICES ASSUME Mirrored', ~hist'.raced, NEW f \in Flushers
             PROVE  /\ fl'[f] # Idle => lock' = f
                    /\ fl'[f].at = "loaded" =>
                          IF store = "local" THEN f \notin stray'.mirrors ELSE fl'[f].cur = rt'
    BY <1>0 DEF Loaded
<1>1. DOMAIN fl = Flushers /\ f # NoOne /\ \A g \in Flushers : fl[g] # Idle => fl[g] \in Flushes
    BY BootstrapAssumption DEF Typed, Flushers
<1>2. ASSUME UNCHANGED <<rt, hist, lock>>, stray'.mirrors \subseteq stray.mirrors, fl'[f] = fl[f]
      PROVE  /\ fl'[f] # Idle => lock' = f
             /\ fl'[f].at = "loaded" =>
                   IF store = "local" THEN f \notin stray'.mirrors ELSE fl'[f].cur = rt'
    BY <1>2 DEF Loaded, Mirrored
<1>3. CASE fl'[f] = Idle
    BY <1>3 DEF Idle
<1>4. CASE CallStep
    <2>1. SUFFICES ASSUME fl'[f] # Idle
                   PROVE  /\ lock' = f
                          /\ fl'[f].at = "loaded" =>
                                IF store = "local" THEN f \notin stray'.mirrors
                                ELSE fl'[f].cur = rt'
        BY <1>3
    <2>2. fl' = fl
        BY <1>4, CallStepCall
    <2>3. ~Install
        <3>1. SUFFICES ASSUME Install PROVE FALSE
            OBVIOUS
        <3>2. \E g \in Flushers : fl[g] # Idle
            BY <2>1, <2>2
        <3>3. hist'.raced
            BY <3>1, <3>2 DEF Install, Typed
        <3>4. QED
            BY <3>3
    <2>4. ~Drop
        BY DEF Drop, Mirrored
    <2>5. UNCHANGED <<lock, stray, hist>>
        BY <1>4, <2>3, <2>4
        DEF CallStep, Look, MakeRoot, Seed, Meta, Build, Current, Compare, Write, SwitchMode,
            Return, TimesOut, SkipFlush
    <2>6. Mirrored
        BY <1>4, <2>3, <2>4
        DEF CallStep, Look, MakeRoot, Seed, Meta, Build, Current, Compare, Write, SwitchMode,
            Return, TimesOut, SkipFlush, Mirrored
    <2>7. lock = f
        BY <2>1, <2>2, <2>5, <2>6 DEF Loaded
    <2>8. rt' = rt
        BY <1>1, <1>4, <2>3, <2>4, <2>7
        DEF CallStep, Look, MakeRoot, Seed, Meta, Build, Current, Compare, Write, SwitchMode,
            Return, TimesOut, SkipFlush
    <2>9. QED
        BY <1>2, <2>1, <2>2, <2>5, <2>8
<1>5. CASE \E g \in Flushers : FlushStep(g)
    <2>1. PICK g \in Flushers : FlushStep(g)
        BY <1>5
    <2>2. Mirrored /\ ~hist.raced
        <3>1. ~Save(g) => rt' = rt
            BY <2>1 DEF FlushStep, Take, TurnBack, Store, Load
        <3>2. Save(g) => Mirrored
            BY <1>0 DEF Save, Typed
        <3>3. hist.raced => hist'.raced
            <4>1. CASE Take(g)
                BY <1>0, <4>1 DEF Take, Typed
            <4>2. CASE Save(g)
                BY <1>0, <4>2 DEF Save, Typed
            <4>3. QED
                BY <2>1, <4>1, <4>2 DEF FlushStep, TurnBack, Store, Load
        <3>4. QED
            BY <3>1, <3>2, <3>3 DEF Mirrored
    <2>3. \A h \in Flushers : /\ fl[h] # Idle => lock = h
                              /\ fl[h].at = "loaded" =>
                                    IF store = "local" THEN h \notin stray.mirrors
                                    ELSE fl[h].cur = rt
        BY <2>2 DEF Loaded
    <2>4. CASE Take(g)
        <3>1. ~Astray(g)
            BY <1>0, <2>4 DEF Take, Typed
        <3>2. /\ lock = NoOne /\ lock' = g /\ fl'[g].at = "taken"
              /\ f # g => fl'[f] = fl[f]
            BY <1>1, <2>4, <3>1 DEF Take
        <3>3. CASE f = g
            BY <3>2, <3>3
        <3>4. CASE f # g
            BY <1>1, <1>3, <2>3, <3>2, <3>4
        <3>5. QED
            BY <3>3, <3>4
    <2>5. CASE TurnBack(g)
        BY <1>0, <1>2, <2>5 DEF TurnBack
    <2>6. ASSUME NEW next, Finished(g, next), fl[g] # Idle PROVE fl'[f] = Idle
        BY <1>1, <2>3, <2>6 DEF Finished
    <2>7. CASE Store(g)
        <3>1. fl[g] # Idle /\ fl[g] \in Flushes
            BY <1>1, <2>7 DEF Store, Idle
        <3>2. CASE Finished(g, call)
            BY <1>3, <2>6, <3>1, <3>2
        <3>3. CASE ~Finished(g, call)
            <4>1. fl' = [fl EXCEPT ![g].at = "stored"] /\ UNCHANGED <<lock, stray, rt, hist>>
                BY <2>7, <3>3, Zenon DEF Store
            <4>2. fl'[g].at = "stored" /\ (f # g => fl'[f] = fl[f])
                BY <1>1, <3>1, <4>1 DEF Flushes
            <4>3. QED
                BY <1>2, <2>3, <3>1, <4>1, <4>2
        <3>4. QED
            BY <3>2, <3>3
    <2>8. CASE Load(g)
        <3>1. fl[g] # Idle /\ fl[g] \in Flushes /\ g \notin stray.mirrors
            BY <1>1, <2>8 DEF Load, Idle, Typed
        <3>2. CASE Finished(g, call)
            BY <1>3, <2>6, <3>1, <3>2
        <3>3. CASE ~Finished(g, call)
            <4>1. fl' = [fl EXCEPT ![g].at = "loaded", ![g].cur = rt]
                  /\ UNCHANGED <<lock, stray, rt, hist>>
                BY <2>8, <3>3, Zenon DEF Load
            <4>2. fl'[g].cur = rt /\ (f # g => fl'[f] = fl[f])
                BY <1>1, <3>1, <4>1 DEF Flushes
            <4>3. QED
                BY <1>2, <2>3, <3>1, <4>1, <4>2
        <3>4. QED
            BY <3>2, <3>3
    <2>9. CASE Save(g)
        <3>1. fl[g] # Idle
            BY <2>9 DEF Save, Idle
        <3>2. QED
            BY <1>3, <2>6, <2>9, <3>1 DEF Save
    <2>10. QED
        BY <2>1, <2>4, <2>5, <2>7, <2>8, <2>9 DEF FlushStep
<1>6. CASE \E c \in Callers : Restart(c)
    <2>1. PICK c \in Callers : Restart(c)
        BY <1>6
    <2>2. PICK ends \in [Flushers -> BOOLEAN] :
              /\ fl' = [g \in Flushers |-> IF ends[g] THEN Idle ELSE fl[g]]
              /\ lock' = IF lock # NoOne /\ ends[lock] THEN NoOne ELSE lock
        BY <2>1, RestartParts
    <2>3. fl'[f] = Idle \/ (fl'[f] = fl[f] /\ ~ends[f])
        BY <2>2
    <2>4. rt' = rt /\ hist'.raced = hist.raced /\ store # "local"
        BY <2>1 DEF Restart, Mirrored, Typed
    <2>5. QED
        BY <1>3, <2>2, <2>3, <2>4 DEF Loaded, Mirrored
<1>7. CASE \E c \in Callers : Start(c)
    BY <1>2, <1>7 DEF Start
<1>8. CASE HostCommit \/ UNCHANGED vars
    BY <1>2, <1>8 DEF HostCommit, vars
<1>9. QED
    BY <1>4, <1>5, <1>6, <1>7, <1>8 DEF Next

\* What a flush saves over a mirror that was not replaced is that mirror.
LEMMA HeldIs ==
    ASSUME Typed, Loaded, Mirrored, ~hist.raced, NEW f \in Flushers, fl[f].at = "loaded"
    PROVE  Held(f) = rt
BY DEF Loaded, Held

\* What dropping a mirror leaves of the history.
LEMMA DropKeeps ==
    ASSUME Typed, Drop
    PROVE  /\ ~Mirrored' /\ (hist.strayed => hist'.strayed)
           /\ hist'.raced = hist.raced /\ hist'.promised = hist.promised
           /\ hist'.orphaned = hist.orphaned
<1>1. ~Mirrored'
    BY DEF Drop, Mirrored
<1>2. CASE hist' = hist
    BY <1>1, <1>2
<1>3. CASE hist' # hist
    <2>1. PICK b \in BOOLEAN : hist' = [hist EXCEPT !.strayed = @ \/ b]
        BY <1>3 DEF Drop
    <2>2. QED
        BY <1>1, <2>1 DEF Typed
<1>4. QED
    BY <1>2, <1>3

\* What taking a snapshot leaves of the history.
LEMMA TakeKeeps ==
    ASSUME Typed, NEW f \in Flushers, Take(f)
    PROVE  /\ hist'.strayed = (hist.strayed \/ Astray(f))
           /\ hist'.raced = (hist.raced \/ Astray(f)) /\ hist'.promised = hist.promised
           /\ hist'.orphaned = hist.orphaned
<1> DEFINE b == Astray(f)
<1>1. hist' = [hist EXCEPT !.strayed = @ \/ b, !.raced = @ \/ b]
    BY DEF Take
<1> HIDE DEF b
<1>2. /\ hist'.strayed = (hist.strayed \/ b) /\ hist'.raced = (hist.raced \/ b)
      /\ hist'.promised = hist.promised /\ hist'.orphaned = hist.orphaned
    BY <1>1 DEF Typed
<1>3. QED
    BY <1>2 DEF b

\* Contents by number.
UpTo(files, n) == \A p \in Paths : files[p] <= n

LEMMA OldIs == \A files : Old(files) <=> UpTo(files, count.calls + 1)
BY DEF Old, UpTo

LEMMA NumberedParts ==
    ASSUME NEW n, n = count'.calls + 1,
           UpTo(db'.files, n), UpTo(tx'.new, n), UpTo(hist'.promised, n),
           Mirrored' => UpTo(rt'.files, n),
           Building' => UpTo(call'.new.files, n),
           call' # Idle => call'.text = n,
           \A f \in Flushers : /\ fl'[f] # Idle => UpTo(fl'[f].files, n)
                               /\ fl'[f].at = "loaded" => UpTo(fl'[f].cur.files, n)
    PROVE  Numbered'
BY DEF Numbered, Old, UpTo

LEMMA NumberedIs ==
    ASSUME Numbered, NEW n, n = count.calls + 1
    PROVE  /\ UpTo(db.files, n) /\ UpTo(tx.new, n) /\ UpTo(hist.promised, n)
           /\ Mirrored => UpTo(rt.files, n)
           /\ Building => UpTo(call.new.files, n)
           /\ call # Idle => call.text = n
           /\ \A f \in Flushers : /\ fl[f] # Idle => UpTo(fl[f].files, n)
                                  /\ fl[f].at = "loaded" => UpTo(fl[f].cur.files, n)
BY DEF Numbered, Old, UpTo

LEMMA UpToWith ==
    ASSUME NEW m \in Mirrors, NEW p \in Paths, NEW text \in Nat, NEW n \in Nat,
           UpTo(m.files, n), text <= n
    PROVE  UpTo(With(m, p, text).files, n)
<1>1. With(m, p, text).files = [m.files EXCEPT ![p] = text] /\ m.files \in Contents
    BY WithTyped DEF Mirrors
<1>2. QED
    BY <1>1 DEF UpTo, Contents

LEMMA UpToRows ==
    ASSUME Typed, NEW n, UpTo(db.files, n), UpTo(tx.new, n)
    PROVE  UpTo([p \in Paths |-> Row(p)], n)
BY DEF UpTo, Row

LEMMA NumberedCallStep ==
    ASSUME Typed, Numbered, CallStep
    PROVE  Numbered'
<1> DEFINE n == count.calls + 1
<1>1. count \in [calls : Nat, restarts : Nat, roots : Nat]
    BY DEF Typed
<1>2. n \in Nat /\ 1 <= n /\ count'.calls + 1 = n
    <2>1. \/ count' = count
          \/ count' = [count EXCEPT !.roots = @ + 1]
          \/ count' = [count EXCEPT !.roots = IF Root = 0 THEN @ + 1 ELSE @]
        BY DEF CallStep, Look, MakeRoot, Seed, Meta, Build, Install, Current, Compare,
               Write, SwitchMode, Return, TimesOut, SkipFlush
    <2>2. count'.calls = count.calls
        BY <1>1, <2>1
    <2>3. QED
        BY <1>1, <2>2
<1>3. /\ UpTo(db.files, n) /\ UpTo(tx.new, n) /\ UpTo(hist.promised, n)
      /\ Mirrored => UpTo(rt.files, n)
      /\ Building => UpTo(call.new.files, n)
      /\ call # Idle => call.text = n
      /\ \A f \in Flushers : /\ fl[f] # Idle => UpTo(fl[f].files, n)
                             /\ fl[f].at = "loaded" => UpTo(fl[f].cur.files, n)
    BY NumberedIs
<1>4. call # Idle /\ call \in Calls
    <2>1. call.at # "idle"
        BY DEF CallStep, Look, MakeRoot, Seed, Meta, Build, Install, Current, Compare,
               Write, SwitchMode, Return, TimesOut, SkipFlush, Building, Goto, Idle
    <2>2. QED
        BY <2>1, InCall
<1> HIDE DEF n
<1>5. /\ db' = db /\ hist'.promised = hist.promised /\ fl' = fl
    <2>1. db' = db /\ fl' = fl
        BY DEF CallStep, Look, MakeRoot, Seed, Meta, Build, Install, Current, Compare,
               Write, SwitchMode, Return, TimesOut, SkipFlush
    <2>2. CASE Drop
        BY <2>1, <2>2, DropKeeps
    <2>3. CASE ~Drop
        BY <2>1, <2>3
        DEF CallStep, Look, MakeRoot, Seed, Meta, Build, Install, Current, Compare,
            Write, SwitchMode, Return, TimesOut, SkipFlush, Typed
    <2>4. QED
        BY <2>2, <2>3
<1>6. UpTo(tx'.new, n)
    <2>1. tx \in Sessions
        BY DEF Typed
    <2>2. ASSUME NEW p \in Paths, Seed(p) PROVE UpTo(tx'.new, n)
        <3>1. \/ tx' = tx
              \/ tx' = [tx EXCEPT !.by = call.by, !.new[p] = SeedText,
                                  !.locked = @ \/ tx.mode # NoMode]
            BY <2>2 DEF Seed
        <3>2. tx.new \in Contents
            BY <2>1 DEF Sessions
        <3>3. tx'.new = tx.new \/ tx'.new = [tx.new EXCEPT ![p] = SeedText]
            BY <2>1, <3>1 DEF Sessions
        <3>4. QED
            BY <1>2, <1>3, <3>2, <3>3 DEF UpTo, Contents, SeedText
    <2>3. ASSUME \A p \in Paths : ~Seed(p) PROVE tx'.new = tx.new
        BY <2>1, <2>3, NoTxTyped
        DEF CallStep, Look, MakeRoot, Meta, Build, Install, Current, Compare, NewRoot,
            Write, SwitchMode, Return, TimesOut, SkipFlush, Sessions
    <2>4. QED
        BY <1>3, <2>2, <2>3
<1>7. Mirrored' => UpTo(rt'.files, n)
    <2>1. ASSUME rt' = rt \/ rt' = NoMirror PROVE Mirrored' => UpTo(rt'.files, n)
        BY <1>3, <2>1 DEF Mirrored
    <2>2. ASSUME NEW p \in Paths, NEW text \in Nat, text <= n, Mirrored, rt' = With(rt, p, text)
          PROVE UpTo(rt'.files, n)
        BY <1>2, <1>3, <2>2, UpToWith DEF Typed
    <2>3. ASSUME NEW p \in Paths, Seed(p) PROVE Mirrored' => UpTo(rt'.files, n)
        <3>1. SeedText \in Nat /\ SeedText <= n
            BY <1>2 DEF SeedText
        <3>2. CASE rt' = rt
            BY <2>1, <3>2
        <3>3. CASE rt' # rt
            BY <2>2, <2>3, <3>1, <3>3 DEF Seed
        <3>4. QED
            BY <3>2, <3>3
    <2>4. CASE Install
        BY <1>3, <2>4 DEF Install, Building
    <2>5. CASE Write
        <3>1. call.path \in Paths /\ call.text \in Nat /\ call.text <= n
            BY <1>2, <1>3, <1>4 DEF Calls
        <3>2. QED
            BY <2>2, <2>5, <3>1 DEF Write
    <2>6. CASE SwitchMode
        <3>1. rt \in Mirrors
            BY <2>6 DEF SwitchMode, Typed
        <3>2. rt'.files = rt.files
            BY <2>6, <3>1 DEF SwitchMode, Mirrors
        <3>3. QED
            BY <1>3, <2>6, <3>2 DEF SwitchMode
    <2>7. CASE Drop
        BY <2>7, DropKeeps
    <2>8. QED
        BY <2>1, <2>3, <2>4, <2>5, <2>6, <2>7
        DEF CallStep, Look, MakeRoot, Meta, Build, Current, Compare, Return, TimesOut, SkipFlush
<1>8. Building' => UpTo(call'.new.files, n)
    <2>1. CASE Build
        <3>1. call'.new = Built
            BY <1>4, <2>1 DEF Build, Calls
        <3>2. QED
            BY <1>3, <3>1, BuiltFields, UpToRows
    <2>2. CASE Compare
        <3>1. call'.new = call.new
            BY <1>4, <2>2 DEF Compare, Goto, Calls
        <3>2. QED
            BY <1>3, <2>2, <3>1 DEF Compare, Building
    <2>3. ASSUME ~Build, ~Compare PROVE ~Building'
        <3>1. Ready \notin {"compare", "install"} /\ AfterFlush \notin {"compare", "install"}
            BY <1>4, ReadyTyped
        <3>2. ASSUME NEW p \in Paths, Seed(p) PROVE ~Building'
            BY <1>4, <3>2 DEF Seed, Calls, Building
        <3>3. CASE MakeRoot
            <4>1. call'.at \in {"raised", "seed"}
                BY <1>4, <3>3 DEF MakeRoot, Calls
            <4>2. QED
                BY <4>1 DEF Building
        <3>4. CASE Look \/ Meta \/ Install \/ SkipFlush
            <4>1. call' = [call EXCEPT !.at = call'.at]
                     /\ call'.at \notin {"compare", "install"}
                BY <1>4, <3>1, <3>4 DEF Look, Meta, Install, SkipFlush, Goto, Calls
            <4>2. QED
                BY <4>1 DEF Building
        <3>5. CASE Current \/ Write \/ SwitchMode \/ Return \/ TimesOut
            <4>1. call'.at \in {"build", "return", "raised", "idle"}
                <5>1. CASE Current
                    BY <1>4, <5>1 DEF Current, Calls
                <5>2. CASE Return
                    BY <5>2 DEF Return, Idle
                <5>3. CASE Write \/ SwitchMode \/ TimesOut
                    BY <1>4, <5>3 DEF Write, SwitchMode, TimesOut, Goto, Calls
                <5>4. QED
                    BY <3>5, <5>1, <5>2, <5>3
            <4>2. QED
                BY <4>1 DEF Building
        <3>6. QED
            BY <2>3, <3>2, <3>3, <3>4, <3>5 DEF CallStep
    <2>4. QED
        BY <2>1, <2>2, <2>3
<1>9. call' # Idle => call'.text = n
    <2>1. call' = Idle \/ call'.text = call.text
        BY <1>4
        DEF CallStep, Look, MakeRoot, Seed, Meta, Build, Install, Current, Compare,
            Write, SwitchMode, Return, TimesOut, SkipFlush, Goto, Calls
    <2>2. QED
        BY <1>3, <1>4, <2>1
<1>10. QED
    BY <1>2, <1>3, <1>5, <1>6, <1>7, <1>8, <1>9, NumberedParts


LEMMA NumberedFlushStep ==
    ASSUME Typed, HostFlushes, Numbered, NEW f \in Flushers, FlushStep(f)
    PROVE  Numbered'
<1> DEFINE n == count.calls + 1
<1>1. /\ UpTo(db.files, n) /\ UpTo(tx.new, n) /\ UpTo(hist.promised, n)
      /\ Mirrored => UpTo(rt.files, n)
      /\ Building => UpTo(call.new.files, n)
      /\ call # Idle => call.text = n
      /\ \A g \in Flushers : /\ fl[g] # Idle => UpTo(fl[g].files, n)
                             /\ fl[g].at = "loaded" => UpTo(fl[g].cur.files, n)
    BY NumberedIs
<1>2. count' = count /\ tx' = tx
    BY DEF FlushStep, Take, TurnBack, Store, Load, Save
<1> HIDE DEF n
<1>3. n = count'.calls + 1
    BY <1>2 DEF n
<1>4. DOMAIN fl = Flushers
    BY DEF Typed
<1>5. /\ call' # Idle => call'.text = n
      /\ Building' => UpTo(call'.new.files, n)
    <2>1. CASE call = Idle
        BY <2>1, FlushCall DEF Building, Idle
    <2>2. CASE call # Idle
        <3>1. /\ call'.text = call.text /\ call'.new = call.new
              /\ call'.at = call.at \/ call'.at \in {"return", "act"}
            BY <2>2, FlushCall
        <3>2. QED
            BY <1>1, <2>2, <3>1 DEF Building
    <2>3. QED
        BY <2>1, <2>2
\* Which files a flush reads and writes.
<1>6. ASSUME UpTo(db'.files, n), Mirrored' => UpTo(rt'.files, n), UpTo(hist'.promised, n),
             \A g \in Flushers : /\ fl'[g] # Idle => UpTo(fl'[g].files, n)
                                 /\ fl'[g].at = "loaded" => UpTo(fl'[g].cur.files, n)
      PROVE  Numbered'
    BY <1>1, <1>2, <1>3, <1>5, <1>6, NumberedParts
<1>7. ASSUME NEW s, fl' = [fl EXCEPT ![f] = s],
             s # Idle => UpTo(s.files, n),
             s.at = "loaded" => UpTo(s.cur.files, n)
      PROVE  \A g \in Flushers : /\ fl'[g] # Idle => UpTo(fl'[g].files, n)
                                 /\ fl'[g].at = "loaded" => UpTo(fl'[g].cur.files, n)
    BY <1>1, <1>4, <1>7
<1>8. ASSUME NEW next, Finished(f, next)
      PROVE  \A g \in Flushers : /\ fl'[g] # Idle => UpTo(fl'[g].files, n)
                                 /\ fl'[g].at = "loaded" => UpTo(fl'[g].cur.files, n)
    BY <1>7, <1>8 DEF Finished, Idle
<1>9. CASE Take(f)
    <2>1. /\ fl' = [fl EXCEPT ![f] = [at |-> "taken", paths |-> rt.dirty, files |-> rt.files,
                                      real |-> rt.real, root |-> rt.root, mode |-> rt.mode,
                                      dirtyMode |-> rt.dirtyMode, cur |-> NoMirror]]
          /\ db' = db /\ rt' = rt /\ hist'.promised = hist.promised /\ Mirrored
        BY <1>9, TakeKeeps DEF Take
    <2> DEFINE s == [at |-> "taken", paths |-> rt.dirty, files |-> rt.files,
                     real |-> rt.real, root |-> rt.root, mode |-> rt.mode,
                     dirtyMode |-> rt.dirtyMode, cur |-> NoMirror]
    <2>2. s.files = rt.files /\ s.at = "taken"
        OBVIOUS
    <2> HIDE DEF s
    <2>3. fl' = [fl EXCEPT ![f] = s]
        BY <2>1 DEF s
    <2>4. UpTo(s.files, n)
        BY <1>1, <2>1, <2>2
    <2>5. \A g \in Flushers : /\ fl'[g] # Idle => UpTo(fl'[g].files, n)
                              /\ fl'[g].at = "loaded" => UpTo(fl'[g].cur.files, n)
        BY <1>7, <2>2, <2>3, <2>4
    <2>6. QED
        BY <1>1, <1>6, <2>1, <2>5
<1>10. CASE Store(f)
    <2>1. fl[f] # Idle /\ fl[f] \in Flushes /\ rt' = rt /\ hist' = hist
        BY <1>10 DEF Store, Idle, Typed
    <2>2. CASE Finished(f, call) /\ UNCHANGED db
        BY <1>1, <1>6, <1>8, <2>1, <2>2 DEF Mirrored
    <2>3. CASE /\ db' = [db EXCEPT !.files = StoredRows(fl[f]),
                                   !.mode = IF fl[f].dirtyMode THEN fl[f].mode ELSE @]
               /\ fl' = [fl EXCEPT ![f].at = "stored"]
        <3> DEFINE s == [fl[f] EXCEPT !.at = "stored"]
        <3>1. s.files = fl[f].files /\ s.at = "stored"
            BY <2>1 DEF Flushes
        <3>2. fl' = [fl EXCEPT ![f] = s]
            BY <2>3
        <3> HIDE DEF s
        <3>3. UpTo(fl[f].files, n)
            BY <1>1, <2>1
        <3>4. UpTo(StoredRows(fl[f]), n)
            BY <1>1, <3>3 DEF UpTo, StoredRows
        <3>5. db'.files = StoredRows(fl[f])
            BY <2>3 DEF Typed
        <3>6. \A g \in Flushers : /\ fl'[g] # Idle => UpTo(fl'[g].files, n)
                                  /\ fl'[g].at = "loaded" => UpTo(fl'[g].cur.files, n)
            BY <1>7, <3>1, <3>2, <3>3
        <3>7. QED
            BY <1>1, <1>6, <2>1, <3>4, <3>5, <3>6 DEF Mirrored
    <2>4. QED
        BY <1>10, <2>2, <2>3, Zenon DEF Store
<1>11. CASE Load(f)
    <2>1. /\ fl[f] # Idle /\ fl[f] \in Flushes
          /\ rt' = rt /\ hist' = hist /\ db' = db
        BY <1>11 DEF Load, Idle, Typed
    <2>2. CASE ~Mirrored
        BY <1>1, <1>6, <1>8, <1>11, <2>1, <2>2 DEF Load, Mirrored
    <2>3. CASE Mirrored
        <3> DEFINE s == [fl[f] EXCEPT !.at = "loaded", !.cur = rt]
        <3>1. s.files = fl[f].files /\ s.cur = rt
            BY <2>1 DEF Flushes
        <3>2. fl' = [fl EXCEPT ![f] = s]
            BY <1>11, <2>3 DEF Load
        <3> HIDE DEF s
        <3>3. UpTo(s.files, n) /\ UpTo(s.cur.files, n)
            BY <1>1, <2>1, <2>3, <3>1
        <3>4. \A g \in Flushers : /\ fl'[g] # Idle => UpTo(fl'[g].files, n)
                                  /\ fl'[g].at = "loaded" => UpTo(fl'[g].cur.files, n)
            BY <1>7, <3>2, <3>3
        <3>5. QED
            BY <1>1, <1>6, <2>1, <3>4 DEF Mirrored
    <2>4. QED
        BY <2>2, <2>3
<1>12. CASE Save(f)
    <2>1. /\ fl[f] # Idle /\ fl[f] \in Flushes /\ Held(f) \in Mirrors
          /\ fl[f].at = "loaded" /\ db' = db
        BY <1>12, HeldTyped DEF Save, Idle, Typed
    <2>2. UpTo(fl[f].files, n) /\ UpTo(Held(f).files, n)
        BY <1>1, <2>1 DEF Held, Typed
    <2>3. rt'.files = Held(f).files
        BY <1>12, <2>1, ConfirmedFields DEF Save
    <2>4. hist'.promised = [p \in Paths |-> IF f = "host" /\ ~hist.orphaned /\ p \in fl[f].paths
                                            THEN fl[f].files[p] ELSE hist.promised[p]]
        BY <1>12 DEF Save, Typed
    <2>5. UpTo(hist'.promised, n)
        BY <1>1, <2>2, <2>4 DEF UpTo
    <2>6. QED
        BY <1>1, <1>6, <1>8, <1>12, <2>1, <2>2, <2>3, <2>5 DEF Save
<1>13. CASE TurnBack(f)
    BY <1>1, <1>6, <1>13 DEF TurnBack, Mirrored
<1>14. QED
    BY <1>9, <1>10, <1>11, <1>12, <1>13 DEF FlushStep

LEMMA NumberedStep ==
    ASSUME Typed, HostFlushes, Numbered, [Next]_vars
    PROVE  Numbered'
<1>1. count.calls \in Nat
    BY DEF Typed
<1>2. CASE UNCHANGED vars
    BY <1>2 DEF vars, Numbered, Old, Mirrored, Building
<1>3. CASE HostCommit
    <2>1. db'.files = [p \in Paths |-> Row(p)] /\ tx'.new = NoFiles
        BY <1>3, NoTxTyped DEF HostCommit
    <2>2. /\ UpTo(db.files, count.calls + 1) /\ UpTo(tx.new, count.calls + 1)
          /\ UpTo(NoFiles, count.calls + 1)
        BY <1>1, NumberedIs, NoFilesTyped DEF UpTo
    <2>3. UpTo(db'.files, count.calls + 1) /\ UpTo(tx'.new, count.calls + 1)
        BY <2>1, <2>2, UpToRows
    <2>4. QED
        BY <1>3, <2>3 DEF HostCommit, Numbered, Old, UpTo, Mirrored, Building
<1>4. ASSUME NEW c \in Callers, Start(c) PROVE Numbered'
    <2> DEFINE n == count.calls + 1
               m == count.calls + 2
    <2>1. count'.calls + 1 = m
        BY <1>1, <1>4 DEF Start, Typed
    <2>2. /\ UpTo(db.files, n) /\ UpTo(tx.new, n) /\ UpTo(hist.promised, n)
          /\ Mirrored => UpTo(rt.files, n)
          /\ \A f \in Flushers : /\ fl[f] # Idle => UpTo(fl[f].files, n)
                                 /\ fl[f].at = "loaded" => UpTo(fl[f].cur.files, n)
        BY NumberedIs
    <2>3. ASSUME NEW files \in Contents, UpTo(files, n) PROVE UpTo(files, m)
        BY <1>1, <2>3 DEF UpTo, Contents
    <2>4. /\ db.files \in Contents /\ tx.new \in Contents /\ hist.promised \in Contents
          /\ Mirrored => rt.files \in Contents
          /\ \A f \in Flushers : /\ fl[f] # Idle => fl[f].files \in Contents
                                 /\ fl[f].at = "loaded" => fl[f].cur.files \in Contents
        BY DEF Typed, Sessions, Mirrors, Flushes
    <2> HIDE DEF n, m
    <2>5. /\ UpTo(db.files, m) /\ UpTo(tx.new, m) /\ UpTo(hist.promised, m)
          /\ Mirrored => UpTo(rt.files, m)
          /\ \A f \in Flushers : /\ fl[f] # Idle => UpTo(fl[f].files, m)
                                 /\ fl[f].at = "loaded" => UpTo(fl[f].cur.files, m)
        BY <2>2, <2>3, <2>4
    <2>6. call'.text = m /\ ~Building'
        BY <1>4, StartedCall DEF m, Building
    <2>7. /\ db' = db /\ tx' = tx /\ hist' = hist /\ rt' = rt /\ fl' = fl
        BY <1>4 DEF Start
    <2>8. QED
        BY <2>1, <2>5, <2>6, <2>7, NumberedParts DEF Mirrored
<1>5. ASSUME NEW c \in Callers, Restart(c) PROVE Numbered'
    <2> DEFINE n == count.calls + 1
    <2>1. count'.calls + 1 = n
        BY <1>5 DEF Restart, Typed
    <2>2. /\ UpTo(db.files, n) /\ UpTo(tx.new, n) /\ UpTo(hist.promised, n)
          /\ Mirrored => UpTo(rt.files, n)
          /\ Building => UpTo(call.new.files, n)
          /\ call # Idle => call.text = n
          /\ \A f \in Flushers : /\ fl[f] # Idle => UpTo(fl[f].files, n)
                                 /\ fl[f].at = "loaded" => UpTo(fl[f].cur.files, n)
          /\ UpTo(NoFiles, n)
        BY <1>1, NumberedIs, NoFilesTyped DEF UpTo
    <2> HIDE DEF n
    <2>3. db' = db /\ hist'.promised = hist.promised /\ (rt' = rt \/ rt' = NoMirror)
        BY <1>5 DEF Restart, Typed
    <2>4. tx' = tx \/ tx'.new = NoFiles
        BY <1>5, NoTxTyped DEF Restart
    <2>5. call' = call \/ call' = Idle
        BY <1>5 DEF Restart
    <2>6. PICK ends \in [Flushers -> BOOLEAN] :
              fl' = [f \in Flushers |-> IF ends[f] THEN Idle ELSE fl[f]]
        BY <1>5, RestartParts
    <2>7. \A f \in Flushers : fl'[f] = fl[f] \/ fl'[f] = Idle
        BY <2>6
    <2>8. \A f \in Flushers : /\ fl'[f] # Idle => UpTo(fl'[f].files, n)
                              /\ fl'[f].at = "loaded" => UpTo(fl'[f].cur.files, n)
        BY <2>2, <2>7 DEF Idle
    <2>9. Building' => UpTo(call'.new.files, n)
        BY <2>2, <2>5 DEF Building, Idle
    <2>10. QED
        BY <2>1, <2>2, <2>3, <2>4, <2>5, <2>8, <2>9, NumberedParts DEF Mirrored
<1>6. QED
    BY <1>2, <1>3, <1>4, <1>5, NumberedCallStep, NumberedFlushStep DEF Next

LEMMA NumberedAlways == Spec => [](Typed /\ HostFlushes /\ Knowing /\ Loaded /\ Numbered)
<1>1. Init => Knowing /\ Loaded /\ Numbered
    <2>1. Init => Knowing
        BY DEF Init, Knowing
    <2>2. Init => Loaded
        BY DEF Init, Loaded, Mirrored
    <2>3. Init => Numbered
        BY NoFilesTyped, NoTxTyped DEF Init, Numbered, Old, Mirrored, Building, Idle
    <2>4. QED
        BY <2>1, <2>2, <2>3
<1>2. Typed /\ HostFlushes /\ Knowing /\ Loaded /\ Numbered /\ [Next]_vars =>
        Knowing' /\ Loaded' /\ Numbered'
    BY KnowingStep, LoadedStep, NumberedStep
<1>3. QED
    BY <1>1, <1>2, TypedAlways, PTL DEF Spec

\* An ensure that finds the workspace in its process undoes nothing: a call that
\* began where the workspace was known takes no file of the mirror back, flushed
\* or not, whatever others do meanwhile (bootstrap.py, ensure).
THEOREM NoWorkIsUndone == Spec => OwnWorkIsKept
<1>1. ASSUME Typed, HostFlushes, Knowing, Loaded, Numbered, [Next]_vars,
             call # Idle, call.op # "refresh", call.known, Mirrored, rt' # NoMirror, ~hist.raced,
             NEW p \in Paths
      PROVE  rt'.files[p] >= rt.files[p]
    <2>1. /\ call \in Calls /\ rt \in Mirrors /\ rt.files \in Contents
          /\ call.at \in {"look", "act", "flush", "return", "raised"}
        BY <1>1 DEF Typed, Mirrors, Knowing
    <2>2. rt.files[p] \in Nat
        BY <2>1 DEF Contents
    <2>3. CASE rt' = rt
        BY <2>2, <2>3
    <2>4. CASE Write
        <3>1. call.path \in Paths /\ call.text \in Nat /\ call.text = count.calls + 1
            BY <1>1, <2>1 DEF Calls, Numbered
        <3>2. rt'.files = [rt.files EXCEPT ![call.path] = call.text]
            BY <2>1, <2>4, <3>1, WithTyped DEF Write
        <3>3. rt.files[p] <= call.text
            BY <1>1, <3>1 DEF Numbered, Old
        <3>4. QED
            BY <2>1, <2>2, <3>1, <3>2, <3>3 DEF Contents
    <2>5. CASE SwitchMode
        <3>1. rt'.files = rt.files
            BY <2>1, <2>5 DEF SwitchMode, Mirrors
        <3>2. QED
            BY <2>2, <3>1
    <2>6. ASSUME NEW f \in Flushers, Save(f) PROVE rt'.files[p] >= rt.files[p]
        <3>1. fl[f] \in Flushes /\ fl[f].at = "loaded" /\ Held(f) = rt
            BY <1>1, <2>6, HeldIs DEF Typed, Save, Idle
        <3>2. rt'.files = rt.files
            BY <2>1, <2>6, <3>1, ConfirmedFields DEF Save
        <3>3. QED
            BY <2>2, <3>2
    <2>7. QED
        BY <1>1, <2>1, <2>3, <2>4, <2>5, <2>6
        DEF Next, vars, CallStep, Look, MakeRoot, Seed, Meta, Build, Install, Current, Compare,
            Return, TimesOut, SkipFlush, FlushStep, Take, TurnBack, Store, Load, Start, Restart,
            HostCommit, Building
<1>2. Typed /\ HostFlushes /\ Knowing /\ Loaded /\ Numbered /\ [Next]_vars =>
        [call # Idle /\ call.op # "refresh" /\ call.known /\ Mirrored /\ rt' # NoMirror
              /\ ~hist.raced =>
            \A p \in Paths : rt'.files[p] >= rt.files[p]]_vars
    BY <1>1
<1>3. QED
    BY <1>2, NumberedAlways, PTL DEF Spec, OwnWorkIsKept


-----------------------------------------------------------------------------
(* Disciplined hosts: what is clean in a mirror is what the rows are.        *)

\* The parts of Orderly, for the call that is made and the session of its host.
LEMMA OrderlyParts ==
    ASSUME call' = Idle \/ call' \in Calls,
           call' # Idle => tx'.by \in {NoOne, call'.by},
           call' # Idle /\ call'.op \notin {"ensure", "refresh"} => call'.known,
           call' # Idle /\ call'.op \in {"ensure", "refresh"} => call'.at \notin {"act", "flush"},
           call'.at \in {"look", "flush", "act", "current"} => tx' = NoTx,
           call'.at \in {"current", "compare"} => call'.op = "refresh",
           call' # Idle /\ call'.op = "refresh" =>
              /\ call'.at \in {"current", "build", "compare", "install", "return"}
              /\ tx'.mode = NoMode \/ tx'.shown,
           tx'.shown => call'.at \in {"idle", "return"}
    PROVE  Orderly'
BY DEF Orderly

\* A step of a call that leaves the session alone.
LEMMA OrderlyMove ==
    ASSUME Typed, Orderly, call \in Calls, call' \in Calls, tx' = tx,
           call'.op = call.op, call'.by = call.by, call'.known = call.known,
           call.op \in {"ensure", "refresh"} => call'.at \notin {"act", "flush"},
           call'.at \in {"look", "flush", "act", "current"} =>
              call.at \in {"look", "flush", "act", "current"},
           call'.at \in {"current", "compare"} => call.op = "refresh",
           call.op = "refresh" => call'.at \in {"current", "build", "compare", "install", "return"},
           tx.shown => call'.at = "return"
    PROVE  Orderly'
<1>1. call # Idle /\ call' # Idle
    BY Apart
<1>2. QED
    BY <1>1, OrderlyParts DEF Orderly

\* A step of a call whose host writes something that no mirror shows yet.
LEMMA OrderlyWrite ==
    ASSUME Typed, Orderly, call \in Calls, call' \in Calls, tx' \in Sessions,
           call'.op = call.op, call'.by = call.by, call'.known = call.known,
           tx'.by = call.by, ~tx'.shown,
           call.op = "refresh" => tx'.mode = NoMode /\ call'.at = "build",
           call'.at \notin {"look", "flush", "act", "current", "compare"}
    PROVE  Orderly'
<1>1. call # Idle /\ call' # Idle
    BY Apart
<1>2. QED
    BY <1>1, OrderlyParts DEF Orderly

LEMMA OrderlyCallStep ==
    ASSUME Typed, HostFlushes, Knowing, Orderly, CallStep
    PROVE  Orderly'
<1>1. /\ call # Idle /\ call \in Calls
      /\ call' = Idle
         \/ /\ call'.op = call.op /\ call'.by = call.by /\ call'.known = call.known
            /\ call' \in Calls
      /\ tx \in Sessions /\ call.by \in Callers
    <2>1. tx \in Sessions
        BY DEF Typed
    <2>2. QED
        BY <2>1, CallStepCall DEF Calls
\* Only ensure and refresh prepare the workspace.
<1>2. call.op \notin {"ensure", "refresh"} =>
          call.at \in {"look", "act", "flush", "return", "raised"}
    BY <1>1 DEF Orderly, Knowing
<1>3. call.op = "refresh" => call.at \in {"current", "build", "compare", "install", "return"}
    BY <1>1 DEF Orderly
<1>4. tx.shown => call.at = "return"
    BY <1>1 DEF Orderly, Calls, Places
<1>5. /\ call.op \in {"ensure", "refresh"} => Ready = "return"
      /\ Ready \in {"return", "flush", "act"}
    <2>1. ASSUME call.op \in {"ensure", "refresh"} PROVE Ready = "return"
        <3>1. call.op \notin Modes
            BY <2>1 DEF Modes
        <3>2. QED
            BY <2>1, <3>1, Zenon DEF Ready
    <2>2. QED
        BY <1>1, <2>1, ReadyTyped
<1>6. call.op \in {"ensure", "refresh"} => call.at \notin {"act", "flush"}
    BY <1>1 DEF Orderly
<1>7. CASE Look
    <2>1. call' \in Calls /\ tx' = tx /\ call.at = "look" /\ call'.at \in {Ready, "root"}
        BY <1>1, <1>5, <1>7 DEF Look, Goto, Calls, Places
    <2>2. call.op \notin {"ensure", "refresh"} => call'.at = Ready
        BY <1>1, <1>7 DEF Look, Goto, Calls, Orderly, Knowing
    <2>3. call.op # "refresh"
        BY <1>3, <2>1
    <2>4. call' # Idle
        BY <2>1, Apart
    <2>5. QED
        BY <1>1, <1>4, <1>5, <2>1, <2>2, <2>3, <2>4, OrderlyMove
<1>8. CASE MakeRoot
    <2>1. call.op = "ensure" /\ call.at = "root"
        BY <1>1, <1>2, <1>3, <1>8 DEF MakeRoot
    <2>2. call' \in Calls /\ call'.at \in {"raised", "seed"}
        <3>1. call'.at \in {"raised", "seed"}
            BY <1>1, <1>8, MakeRootCall
        <3>2. call' # Idle
            BY <3>1 DEF Idle
        <3>3. QED
            BY <1>1, <3>1, <3>2
    <2>3. call' # Idle
        BY <2>2, Apart
    <2>4. CASE tx' = tx
        BY <1>1, <1>4, <2>1, <2>2, <2>3, <2>4, OrderlyMove
    <2>5. CASE tx' = [tx EXCEPT !.by = call.by, !.root = count.roots + 1]
        <3>1. count.roots + 1 \in Nat
            BY DEF Typed
        <3>2. tx' \in Sessions /\ tx'.by = call.by /\ tx'.shown = tx.shown
            BY <1>1, <2>5, <3>1 DEF Sessions
        <3>3. QED
            BY <1>1, <1>4, <2>1, <2>2, <2>3, <3>2, OrderlyWrite
    <2>6. QED
        BY <1>8, <2>4, <2>5 DEF MakeRoot, NewRoot
<1>9. ASSUME NEW p \in Paths, Seed(p) PROVE Orderly'
    <2>1. call.op = "ensure" /\ call.at = "seed"
        BY <1>1, <1>2, <1>3, <1>9 DEF Seed
    <2>2. call' \in Calls /\ call'.at = "seed"
        BY <1>1, <1>9 DEF Seed, Calls
    <2>3. call' # Idle
        BY <2>2, Apart
    <2>4. CASE tx' = tx
        BY <1>1, <1>4, <2>1, <2>2, <2>3, <2>4, OrderlyMove
    <2>5. CASE tx' = [tx EXCEPT !.by = call.by, !.new[p] = SeedText,
                                !.locked = @ \/ tx.mode # NoMode]
        <3>1. [tx.new EXCEPT ![p] = SeedText] \in Contents
            BY <1>1 DEF Sessions, Contents, SeedText
        <3>2. tx' \in Sessions /\ tx'.by = call.by /\ tx'.shown = tx.shown
            BY <1>1, <2>5, <3>1 DEF Sessions
        <3>3. QED
            BY <1>1, <1>4, <2>1, <2>2, <2>3, <3>2, OrderlyWrite
    <2>6. QED
        BY <1>9, <2>4, <2>5 DEF Seed
<1>10. CASE Meta
    <2>1. call.op = "ensure" /\ call.at = "seed"
        BY <1>1, <1>2, <1>3, <1>10 DEF Meta
    <2>2. call' \in Calls /\ call'.at = "build"
        BY <1>1, <1>10 DEF Meta, Goto, Calls, Places
    <2>3. call' # Idle
        BY <2>2, Apart
    <2>4. CASE tx' = tx
        BY <1>1, <1>4, <2>1, <2>2, <2>3, <2>4, OrderlyMove
    <2>5. CASE tx' = [tx EXCEPT !.by = call.by, !.mode = "host", !.locked = @ \/ call.fresh]
        <3>1. tx' \in Sessions /\ tx'.by = call.by /\ tx'.shown = tx.shown
            BY <1>1, <2>5 DEF Sessions, Modes
        <3>2. QED
            BY <1>1, <1>4, <2>1, <2>2, <2>3, <3>1, OrderlyWrite
    <2>6. QED
        BY <1>10, <2>4, <2>5 DEF Meta
<1>11. CASE Build
    <2>1. call.op \in {"ensure", "refresh"} /\ call.at = "build" /\ tx' = tx
        BY <1>1, <1>2, <1>11 DEF Build
    <2>2. call'.at \in {"compare", "install"} /\ (call'.at = "compare" => call.op = "refresh")
        BY <1>1, <1>11 DEF Build, Calls
    <2>3. call' \in Calls
        BY <1>1, <2>2 DEF Idle
    <2>4. call' # Idle
        BY <2>3, Apart
    <2>5. QED
        BY <1>1, <1>4, <2>1, <2>2, <2>3, <2>4, OrderlyMove
<1>12. CASE Install
    <2>1. call.op \in {"ensure", "refresh"} /\ call.at = "install"
        BY <1>1, <1>2, <1>12 DEF Install
    <2>2. call' \in Calls /\ call'.at = "return"
        BY <1>1, <1>5, <1>12, <2>1 DEF Install, Goto, Calls, Places
    <2>3. call' # Idle
        BY <2>2, Apart
    <2>4. CASE tx = NoTx
        <3>1. tx' = NoTx
            BY <1>12, <2>4 DEF Install
        <3>2. QED
            BY <1>1, <2>1, <2>2, <2>3, <3>1, NoTxTyped, OrderlyParts
    <2>5. CASE tx # NoTx
        <3>1. tx' = [tx EXCEPT !.shown = TRUE]
            BY <1>12, <2>5 DEF Install
        <3>2. tx'.by = tx.by /\ tx'.shown
            BY <1>1, <3>1 DEF Sessions
        <3>3. tx.by \in {NoOne, call.by}
            BY <1>1 DEF Orderly
        <3>4. QED
            BY <1>1, <2>1, <2>2, <2>3, <3>2, <3>3, OrderlyParts
    <2>6. QED
        BY <2>4, <2>5
<1>13. CASE Current
    <2>1. call.op = "refresh" /\ call.at = "current"
        BY <1>1, <1>2, <1>13 DEF Current, Orderly
    <2>2. call'.at = "build"
        BY <1>1, <1>13 DEF Current, Calls
    <2>3. call' \in Calls
        BY <1>1, <2>2 DEF Idle
    <2>4. call' # Idle /\ tx = NoTx
        BY <2>1, <2>3, Apart DEF Orderly
    <2>5. CASE tx' = tx
        BY <1>1, <1>4, <2>1, <2>2, <2>3, <2>4, <2>5, OrderlyMove
    <2>6. CASE tx' = [tx EXCEPT !.by = call.by, !.root = count.roots + 1]
        <3>1. count.roots + 1 \in Nat
            BY DEF Typed
        <3>2. /\ tx' \in Sessions /\ tx'.by = call.by /\ tx'.shown = tx.shown
              /\ tx'.mode = tx.mode
            BY <1>1, <2>6, <3>1 DEF Sessions
        <3>3. tx.mode = NoMode
            BY <2>4, NoTxTyped
        <3>4. QED
            BY <1>1, <1>4, <2>1, <2>2, <2>3, <2>4, <3>2, <3>3, OrderlyWrite
    <2>7. QED
        BY <1>13, <2>5, <2>6 DEF Current, NewRoot
<1>14. CASE Compare
    <2>1. call.op = "refresh" /\ call.at = "compare" /\ tx' = tx
        BY <1>1, <1>14 DEF Compare, Orderly
    <2>2. call'.at \in {"return", "install"}
        BY <1>1, <1>14 DEF Compare, Goto, Calls
    <2>3. call' \in Calls
        BY <1>1, <2>2 DEF Idle
    <2>4. QED
        BY <1>1, <1>4, <2>1, <2>2, <2>3, OrderlyMove, Apart
<1>15. CASE Write
    <2>1. call.at = "act" /\ call' \in Calls /\ call'.at = "return" /\ tx' = tx
        BY <1>1, <1>15 DEF Write, Goto, Calls, Places
    <2>2. QED
        BY <1>1, <1>3, <1>4, <2>1, OrderlyMove, Apart
<1>16. CASE SwitchMode
    <2>1. call.at = "act" /\ call' \in Calls /\ call'.at = "return"
        BY <1>1, <1>16 DEF SwitchMode, Goto, Calls, Places
    <2>2. CASE tx' = tx
        BY <1>1, <1>3, <1>4, <2>1, <2>2, OrderlyMove, Apart
    <2>3. CASE tx' = [tx EXCEPT !.by = call.by, !.mode = call.op]
        <3>1. call.op \in Modes
            BY <1>16 DEF SwitchMode
        <3>2. tx' \in Sessions /\ tx'.by = call.by /\ tx'.shown = tx.shown
            BY <1>1, <2>3, <3>1 DEF Sessions
        <3>3. QED
            BY <1>1, <1>3, <1>4, <2>1, <3>2, OrderlyWrite, Apart
    <2>4. QED
        BY <1>16, <2>2, <2>3 DEF SwitchMode
<1>17. CASE Return
    <2>1. call' = Idle /\ tx' = tx
        BY <1>17 DEF Return
    <2>2. QED
        BY <2>1, OrderlyParts DEF Idle
<1>18. CASE TimesOut
    <2>1. /\ call.at \in {"act", "seed"} /\ call' \in Calls /\ call'.at = "raised" /\ tx' = tx
        BY <1>1, <1>18 DEF TimesOut, Goto, Calls, Places
    <2>2. QED
        BY <1>1, <1>3, <1>4, <2>1, OrderlyMove, Apart
<1>19. CASE SkipFlush
    <2>1. call.at = "flush" /\ call'.at \in {"return", "act"} /\ tx' = tx
        BY <1>1, <1>19, ReadyTyped DEF SkipFlush, Goto, Calls
    <2>2. call' \in Calls /\ call.op \notin {"ensure", "refresh"}
        BY <1>1, <1>6, <2>1 DEF Idle
    <2>3. QED
        BY <1>1, <1>3, <1>4, <2>1, <2>2, OrderlyMove, Apart
<1>20. QED
    BY <1>7, <1>8, <1>9, <1>10, <1>11, <1>12, <1>13, <1>14, <1>15, <1>16, <1>17, <1>18, <1>19
    DEF CallStep


LEMMA OrderlyStep ==
    ASSUME Typed, HostFlushes, Knowing, Orderly, Disciplined, [Next]_vars
    PROVE  Orderly'
<1>1. ASSUME NEW f \in Flushers, FlushStep(f) PROVE Orderly'
    <2>1. tx' = tx
        BY <1>1 DEF FlushStep, Take, TurnBack, Store, Load, Save
    <2>2. CASE call = Idle
        <3>1. call' = Idle
            BY <1>1, <2>2, FlushCall
        <3>2. tx'.shown => call'.at \in {"idle", "return"}
            BY <3>1 DEF Idle
        <3>3. QED
            BY <3>1, <3>2, OrderlyParts DEF Idle
    <2>3. CASE call # Idle
        <3>1. /\ call' \in Calls
              /\ call'.by = call.by /\ call'.op = call.op /\ call'.known = call.known
              /\ call'.at = call.at
                 \/ (call.at = "flush" /\ call'.at \in {"return", "act"})
            BY <1>1, <2>3, FlushCall
        <3>2. call \in Calls
            BY <2>3 DEF Typed
        <3>3. call' # Idle
            BY <3>1, Apart
        <3>4. CASE call'.at = call.at
            <4>1. tx.shown => call.at = "return"
                BY <3>2 DEF Orderly, Calls, Places
            <4>2. QED
                BY <2>1, <2>3, <3>1, <3>2, <3>4, <4>1, OrderlyMove DEF Orderly
        <3>5. CASE call.at = "flush" /\ call'.at \in {"return", "act"}
            <4>1. ~tx.shown /\ call.op \notin {"ensure", "refresh"}
                BY <2>3, <3>5 DEF Orderly
            <4>2. QED
                BY <2>1, <3>1, <3>2, <3>5, <4>1, OrderlyMove
        <3>6. QED
            BY <3>1, <3>4, <3>5
    <2>4. QED
        BY <2>2, <2>3
<1>2. ASSUME NEW c \in Callers, Start(c) PROVE Orderly'
    <2>1. /\ tx' = NoTx
          /\ call'.op # "ensure" => call'.known
        <3>1. tx = NoTx /\ tx' = tx
            BY <1>2 DEF Start
        <3>2. call'.op # "ensure" => cached[c] /\ Mirrored
            <4>1. PICK op \in Ops, p \in Paths :
                      /\ op # "ensure" => cached[c] /\ Mirrored
                      /\ call' = [at |-> CASE op = "flush" -> "flush"
                                           [] op = "refresh" -> "current"
                                           [] OTHER -> "look",
                                  by |-> c, op |-> op, path |-> p, text |-> count.calls + 2,
                                  todo |-> {}, cur |-> NoMirror, new |-> NoMirror,
                                  fresh |-> FALSE, raced |-> FALSE,
                                  known |-> cached[c] /\ Mirrored]
                BY <1>2 DEF Start, Ops
            <4>2. call'.op = op
                BY <4>1
            <4>3. QED
                BY <4>1, <4>2
        <3>3. call'.known = (cached[c] /\ Mirrored)
            BY <1>2, StartedCall
        <3>4. QED
            BY <3>1, <3>2, <3>3
    <2>2. call' \in Calls
        BY <1>2, StartedTyped, StartedCall DEF Typed
    <2>3. QED
        BY <1>2, <2>1, <2>2, StartedCall, NoTxTyped, OrderlyParts
<1>3. ASSUME NEW c \in Callers, Restart(c) PROVE Orderly'
    <2>1. tx' = tx \/ tx' = NoTx
        BY <1>3 DEF Restart
    <2>2. call' = call \/ call' = Idle
        BY <1>3 DEF Restart
    <2>3. CASE call' = Idle
        <3>1. tx'.shown => call'.at = "idle"
            BY <2>3 DEF Idle
        <3>2. QED
            BY <2>3, <3>1, OrderlyParts DEF Idle
    <2>4. CASE call' # Idle
        <3>1. call' = call /\ call # Idle
            BY <2>2, <2>4
        <3>2. call \in Calls
            BY <3>1 DEF Typed
        <3>3. tx' = tx
            <4>1. call.by \notin SameProcess(c)
                BY <1>3, <3>1 DEF Restart
            <4>2. tx.by = NoOne <=> tx = NoTx
                BY DEF Typed
            <4>3. tx # NoTx => tx.by = call.by
                BY <3>1, <4>2 DEF Orderly
            <4>4. QED
                BY <1>3, <4>1, <4>3 DEF Restart
        <3>4. QED
            BY <3>1, <3>3 DEF Orderly
    <2>5. QED
        BY <2>3, <2>4
<1>4. CASE HostCommit
    <2>1. call' = Idle
        BY <1>4 DEF HostCommit
    <2>2. tx'.shown => call'.at = "idle"
        BY <2>1 DEF Idle
    <2>3. QED
        BY <2>1, <2>2, OrderlyParts DEF Idle
<1>5. CASE UNCHANGED vars
    BY <1>5 DEF vars, Orderly
<1>6. CASE CallStep
    BY <1>6, OrderlyCallStep
<1>7. QED
    BY <1>1, <1>2, <1>3, <1>4, <1>5, <1>6 DEF Next

LEMMA BuiltStays == UNCHANGED <<tx, db>> => Built' = Built
BY DEF Built, Root, Row, RowMode

\* While something is built, the session stays as it is.
LEMMA BuildingStep ==
    ASSUME Typed, HostFlushes, Orderly, [Next]_vars, Building'
    PROVE  /\ tx' = tx
           /\ \/ Build /\ call'.new = Built /\ db' = db
              \/ Building /\ call'.new = call.new
                 /\ ((call'.raced = call.raced /\ db' = db) \/ \E f \in Flushers : FlushStep(f))
<1>2. call'.at \in {"compare", "install"} /\ call' # Idle
    BY DEF Building, Idle
<1>3. CASE CallStep
    <2>1. call \in Calls
        BY <1>3, CallStepCall
    <2>2. CASE Build
        BY <2>1, <2>2 DEF Build, Calls
    <2>3. CASE Compare
        BY <2>1, <2>3 DEF Compare, Goto, Calls, Building
    <2>4. CASE Look \/ Install \/ SkipFlush
        <3>1. call'.at \in {"return", "flush", "act", "root"}
            BY <2>1, <2>4, ReadyTyped DEF Look, Install, SkipFlush, Goto, Calls
        <3>2. QED
            BY <1>2, <3>1
    <2>5. CASE MakeRoot
        <3>1. call'.at \in {"raised", "seed"}
            BY <2>1, <2>5 DEF MakeRoot, Calls
        <3>2. QED
            BY <1>2, <3>1
    <2>6. ASSUME NEW p \in Paths, Seed(p) PROVE FALSE
        <3>1. call'.at = "seed"
            BY <2>1, <2>6 DEF Seed, Calls
        <3>2. QED
            BY <1>2, <3>1
    <2>7. CASE Current
        <3>1. call'.at = "build"
            BY <2>1, <2>7 DEF Current, Calls
        <3>2. QED
            BY <1>2, <3>1
    <2>8. CASE Meta \/ Write \/ SwitchMode \/ TimesOut
        <3>1. call'.at \in {"build", "return", "raised"}
            BY <2>1, <2>8 DEF Meta, Write, SwitchMode, TimesOut, Goto, Calls
        <3>2. QED
            BY <1>2, <3>1
    <2>9. CASE Return
        BY <1>2, <2>9 DEF Return, Idle
    <2>10. QED
        BY <1>3, <2>2, <2>3, <2>4, <2>5, <2>6, <2>7, <2>8, <2>9 DEF CallStep
<1>4. ASSUME NEW f \in Flushers, FlushStep(f)
      PROVE  tx' = tx /\ Building /\ call'.new = call.new
    <2>1. call # Idle
        BY <1>2, <1>4, FlushCall
    <2>2. call'.at = call.at /\ call'.new = call.new
        BY <1>2, <1>4, <2>1, FlushCall
    <2>3. tx' = tx
        BY <1>4 DEF FlushStep, Take, TurnBack, Store, Load, Save
    <2>4. QED
        BY <1>2, <2>2, <2>3 DEF Building
<1>5. ASSUME NEW c \in Callers, Start(c) PROVE FALSE
    BY <1>2, <1>5, StartedCall
<1>6. ASSUME NEW c \in Callers, Restart(c)
      PROVE  tx' = tx /\ Building /\ call' = call /\ db' = db
    <2>2. call' = call /\ call # Idle /\ db' = db
        BY <1>2, <1>6 DEF Restart
    <2>3. tx' = tx
        <3>1. call.by \notin SameProcess(c)
            BY <1>2, <1>6, <2>2 DEF Restart
        <3>2. tx.by = NoOne <=> tx = NoTx
            BY DEF Typed
        <3>3. tx # NoTx => tx.by = call.by
            BY <2>2, <3>2 DEF Orderly
        <3>4. QED
            BY <1>6, <3>1, <3>3 DEF Restart
    <2>4. QED
        BY <1>2, <2>2, <2>3 DEF Building
<1>7. CASE HostCommit
    BY <1>2, <1>7 DEF HostCommit
<1>8. CASE UNCHANGED vars
    BY <1>2, <1>8 DEF vars, Building
<1>9. QED
    BY <1>3, <1>4, <1>5, <1>6, <1>7, <1>8 DEF Next

LEMMA BuiltStep ==
    ASSUME Typed, HostFlushes, Orderly, BuiltIsCurrent, [Next]_vars
    PROVE  BuiltIsCurrent'
<1> SUFFICES ASSUME Building', ~call'.raced
             PROVE  call'.new = Built'
    BY DEF BuiltIsCurrent
<1>1. ASSUME UNCHANGED <<tx, db>>, call'.new = call.new, Building, ~call.raced
      PROVE  call'.new = Built'
    BY <1>1, BuiltStays DEF BuiltIsCurrent
<1>2. call'.at \in {"compare", "install"}
    BY DEF Building
<1>3. CASE Build /\ call'.new = Built /\ UNCHANGED <<tx, db>>
    BY <1>3, BuiltStays
<1>4. ASSUME NEW f \in Flushers, FlushStep(f) PROVE call'.new = Built'
    <2>1. call # Idle
        <3>1. call = Idle => call' = Idle
            BY <1>4, FlushCall
        <3>2. QED
            BY <1>2, <3>1 DEF Idle
    <2>2. call \in Calls /\ call'.new = call.new /\ Building
        <3>1. call'.at = call.at /\ call'.new = call.new
            BY <1>2, <1>4, <2>1, FlushCall
        <3>2. QED
            BY <1>2, <2>1, <3>1 DEF Typed, Building
    <2>3. Noted.raced
        BY <2>2 DEF Noted, Calls
    <2>4. CASE db' = db
        <3>1. ~call.raced
            <4>1. ASSUME call.raced PROVE FALSE
                <5>1. Noted \in Calls /\ Noted.raced
                    BY <2>1, <2>3, NotedTyped
                <5>2. ASSUME NEW next \in {call, Noted}, Finished(f, next) PROVE call'.raced
                    <6>1. next \in Calls /\ next.raced
                        BY <2>2, <4>1, <5>1, <5>2
                    <6>2. call' = next \/ call' = [next EXCEPT !.at = AfterFlush]
                        BY <5>2 DEF Finished
                    <6>3. QED
                        BY <6>1, <6>2 DEF Calls
                <5>3. call' = call \/ call' = Noted \/ Finished(f, call) \/ Finished(f, Noted)
                    BY <1>4, Zenon DEF FlushStep, Take, TurnBack, Store, Load, Save
                <5>4. QED
                    BY <4>1, <5>1, <5>2, <5>3
            <4>2. QED
                BY <4>1
        <3>2. tx' = tx
            BY <1>4 DEF FlushStep, Take, TurnBack, Store, Load, Save
        <3>3. QED
            BY <1>1, <2>2, <2>4, <3>1, <3>2
    <2>5. CASE db' # db
        <3>1. Store(f)
            BY <1>4, <2>5 DEF FlushStep, Take, TurnBack, Load, Save
        <3>2. call' = Noted
            BY <2>5, <3>1 DEF Store
        <3>3. QED
            BY <2>3, <3>2
    <2>6. QED
        BY <2>4, <2>5
<1>5. QED
    BY <1>1, <1>3, <1>4, BuildingStep


\* A mirror that agrees did so before, unless it was installed just now.
LEMMA StraightBefore ==
    ASSUME Typed, [Next]_vars, ~Install, Straight'
    PROVE  Straight
<1>1. hist.raced \in BOOLEAN /\ hist.orphaned \in BOOLEAN
      /\ hist \in [raced : BOOLEAN, promised : Contents, orphaned : BOOLEAN,
                   unconfirmed : BOOLEAN, strayed : BOOLEAN]
    BY DEF Typed
<1>2. CASE UNCHANGED <<rt, hist>>
    BY <1>2 DEF Straight, Mirrored
<1>3. ASSUME NEW f \in Flushers, Save(f) PROVE Straight
    BY <1>1, <1>3 DEF Save, Straight, Mirrored
<1>4. ASSUME NEW c \in Callers, Restart(c) PROVE Straight
    <2>1. rt' = rt
        BY <1>4 DEF Restart, Straight, Mirrored
    <2>2. hist'.raced = hist.raced /\ (hist.orphaned => hist'.orphaned)
        BY <1>1, <1>4 DEF Restart
    <2>3. QED
        BY <2>1, <2>2 DEF Straight, Mirrored
<1>5. CASE CallStep
    <2>1. ~Drop
        BY DropKeeps DEF Straight
    <2>2. hist' = hist
        BY <1>5, <2>1
        DEF CallStep, Look, MakeRoot, Seed, Meta, Build, Install, Current, Compare,
            Write, SwitchMode, Return, TimesOut, SkipFlush
    <2>3. ~Mirrored => ~Mirrored'
        BY <1>5, <2>1
        DEF CallStep, Look, MakeRoot, Seed, Meta, Build, Install, Current, Compare,
            Write, SwitchMode, Return, TimesOut, SkipFlush, Mirrored
    <2>4. QED
        BY <2>2, <2>3 DEF Straight
<1>6. ASSUME NEW f \in Flushers, Take(f) PROVE Straight
    <2>1. rt' = rt /\ (hist.raced => hist'.raced) /\ hist'.orphaned = hist.orphaned
        BY <1>6, TakeKeeps DEF Take
    <2>2. QED
        BY <2>1 DEF Straight, Mirrored
<1>7. QED
    BY <1>2, <1>3, <1>4, <1>5, <1>6
    DEF Next, vars, FlushStep, TurnBack, Store, Load, Start, HostCommit

\* What agreeing is, for a mirror that is straight.
LEMMA AgreeingIs ==
    ASSUME Agreeing, Straight
    PROVE  /\ \A p \in Paths \ rt.dirty : rt.files[p] = Shown(p)
           /\ ~rt.dirtyMode => rt.mode = ShownMode
           /\ \A p \in rt.real : Shown(p) # Absent
           /\ ~tx.shown => tx.new = NoFiles
           /\ ~tx.shown /\ tx.mode # NoMode /\ call.at \notin {"build", "install"} =>
                 tx.mode = rt.mode
           /\ tx.shown => ~Dirty(rt) /\ \A f \in Flushers : fl[f] = Idle
           /\ \A f \in Flushers : fl[f] # Idle =>
                 /\ fl[f].paths = rt.dirty /\ fl[f].files = rt.files /\ fl[f].real = rt.real
                 /\ fl[f].mode = rt.mode /\ fl[f].dirtyMode = rt.dirtyMode
           /\ \A f \in Flushers : fl[f].at \in {"stored", "loaded"} =>
                 /\ \A p \in fl[f].paths : db.files[p] = fl[f].files[p]
                 /\ fl[f].dirtyMode => db.mode = fl[f].mode
BY DEF Agreeing, Follows, HeldBack, Snapped, Stored

LEMMA AgreeingNext ==
    ASSUME Straight' =>
           /\ \A p \in Paths \ rt'.dirty : rt'.files[p] = Shown(p)'
           /\ ~rt'.dirtyMode => rt'.mode = ShownMode'
           /\ \A p \in rt'.real : Shown(p)' # Absent
           /\ ~tx'.shown => tx'.new = NoFiles
           /\ ~tx'.shown /\ tx'.mode # NoMode /\ call'.at \notin {"build", "install"} =>
                 tx'.mode = rt'.mode
           /\ tx'.shown => ~Dirty(rt)' /\ \A f \in Flushers : fl'[f] = Idle
           /\ \A f \in Flushers : fl'[f] # Idle =>
                 /\ fl'[f].paths = rt'.dirty /\ fl'[f].files = rt'.files /\ fl'[f].real = rt'.real
                 /\ fl'[f].mode = rt'.mode /\ fl'[f].dirtyMode = rt'.dirtyMode
           /\ \A f \in Flushers : fl'[f].at \in {"stored", "loaded"} =>
                 /\ \A p \in fl'[f].paths : db'.files[p] = fl'[f].files[p]
                 /\ fl'[f].dirtyMode => db'.mode = fl'[f].mode
    PROVE  Agreeing'
BY DEF Agreeing, Follows, HeldBack, Snapped, Stored

\* Steps that change neither mirror nor rows.
LEMMA AgreeingMove ==
    ASSUME Agreeing, Straight, UNCHANGED <<rt, db, tx, fl>>,
           call.at \notin {"build", "install"}
              \/ call'.at \in {"build", "install"} \/ tx.shown \/ tx.mode = NoMode
    PROVE  Agreeing'
<1>1. \A p : Shown(p)' = Shown(p)
    BY DEF Shown, Row
<1>2. ShownMode' = ShownMode /\ Dirty(rt)' = Dirty(rt)
    BY DEF ShownMode, RowMode, Dirty, Pending
<1>3. QED
    BY <1>1, <1>2, AgreeingIs, AgreeingNext

\* Installing what was built.
LEMMA AgreeingInstall ==
    ASSUME Typed, Orderly, BuiltIsCurrent, Install
    PROVE  Agreeing'
<1>1. SUFFICES ASSUME Straight' PROVE Agreeing'
    BY AgreeingNext
<1>2. call \in Calls /\ call.at = "install"
    BY InCall DEF Install
<1>3. /\ tx \in Sessions /\ db' = db /\ fl' = fl /\ DOMAIN fl = Flushers
      /\ hist \in [raced : BOOLEAN, promised : Contents, orphaned : BOOLEAN,
                   unconfirmed : BOOLEAN, strayed : BOOLEAN]
    BY DEF Typed, Install
<1>4. ~call.raced /\ \A f \in Flushers : fl[f] = Idle
    <2>1. hist'.raced = (call.raced \/ \E f \in Flushers : fl[f] # Idle)
        BY <1>3 DEF Install
    <2>2. QED
        BY <1>1, <2>1 DEF Straight
<1>5. rt' = Built
    BY <1>2, <1>4 DEF Install, BuiltIsCurrent, Building
<1>6. /\ \A p \in Paths : rt'.files[p] = Row(p)
      /\ rt'.real = {p \in Paths : Row(p) # Absent} /\ rt'.mode = RowMode
      /\ rt'.dirty = {} /\ ~rt'.dirtyMode /\ ~rt'.ghosts
    BY <1>5, BuiltFields
<1>7. /\ \A p \in Paths : Shown(p)' = Row(p)
      /\ ShownMode' = RowMode
      /\ tx'.shown \/ tx' = NoTx
    <2>1. CASE tx = NoTx
        <3>1. tx' = NoTx
            BY <2>1 DEF Install
        <3>2. \A p \in Paths : Row(p) = db.files[p]
            BY <2>1, NoTxTyped, NoFilesTyped DEF Row, Absent
        <3>3. RowMode = db.mode
            BY <2>1, NoTxTyped DEF RowMode
        <3>4. QED
            BY <1>3, <3>1, <3>2, <3>3, NoTxTyped DEF Shown, ShownMode
    <2>2. CASE tx # NoTx
        <3>1. tx' = [tx EXCEPT !.shown = TRUE]
            BY <2>2 DEF Install
        <3>2. tx'.shown /\ tx'.new = tx.new /\ tx'.mode = tx.mode
            BY <1>3, <3>1 DEF Sessions
        <3>3. QED
            BY <1>3, <3>2 DEF Shown, ShownMode, Row, RowMode
    <2>3. QED
        BY <2>1, <2>2
<1>8. ~Dirty(rt)'
    BY <1>6 DEF Dirty, Pending
<1>9. \A f \in Flushers : fl'[f] = Idle /\ fl'[f].at \notin {"stored", "loaded"}
    BY <1>3, <1>4 DEF Idle
<1>10. ~tx'.shown => tx'.new = NoFiles /\ tx'.mode = NoMode
    BY <1>7, NoTxTyped
<1> HIDE DEF Shown, ShownMode
<1>11. QED
    BY <1>6, <1>7, <1>8, <1>9, <1>10, AgreeingNext

\* A file of the mirror is written, or its mode is switched.
LEMMA AgreeingEdit ==
    ASSUME Typed, Loaded, Orderly, Agreeing, Straight, lock = NoOne, ~tx.shown, tx'.shown = tx.shown,
           tx'.new = tx.new, UNCHANGED <<db, fl>>,
           call.at \notin {"build", "install"},
           rt'.real = rt.real, rt.dirty \subseteq rt'.dirty,
           \A p \in Paths \ rt'.dirty : rt'.files[p] = rt.files[p],
           rt'.dirtyMode \/ (rt'.mode = rt.mode /\ rt'.dirtyMode = rt.dirtyMode),
           (tx'.mode = tx.mode /\ rt'.mode = rt.mode) \/ tx'.mode = rt'.mode
    PROVE  Agreeing'
<1>1. \A f \in Flushers : fl'[f] = Idle /\ fl'[f].at \notin {"stored", "loaded"}
    BY BootstrapAssumption DEF Loaded, Straight, Flushers, Idle
<1>2. \A p : Shown(p)' = Shown(p)
    BY DEF Shown
<1>3. ShownMode' = ShownMode
    BY DEF ShownMode
<1> HIDE DEF Shown, ShownMode
<1>4. QED
    BY <1>1, <1>2, <1>3, AgreeingIs, AgreeingNext

LEMMA AgreeingCallStep ==
    ASSUME Typed, HostFlushes, Knowing, Loaded, Orderly, BuiltIsCurrent, Agreeing, CallStep
    PROVE  Agreeing'
<1>1. call # Idle /\ call \in Calls /\ fl' = fl /\ db' = db /\ tx \in Sessions
    BY CallStepCall DEF Typed
<1>2. CASE Install
    BY <1>2, AgreeingInstall
<1>3. CASE ~Install
    <2>1. SUFFICES ASSUME Straight' PROVE Agreeing'
        BY AgreeingNext
    <2>2. Straight
        BY <1>3, <2>1, StraightBefore DEF Next
    <2>3. tx.shown => call.at = "return"
        BY <1>1 DEF Orderly, Calls, Places
    <2>4. rt \in Mirrors
        BY <2>2 DEF Straight, Typed
    <2>5. CASE Look \/ Return \/ TimesOut \/ SkipFlush
        <3>1. UNCHANGED <<rt, db, tx, fl>>
            BY <2>5 DEF Look, Return, TimesOut, SkipFlush
        <3>2. call.at \notin {"build", "install"}
            BY <2>5 DEF Look, Return, TimesOut, SkipFlush
        <3>3. QED
            BY <2>2, <3>1, <3>2, AgreeingMove
    <2>6. CASE Build
        <3>1. UNCHANGED <<rt, db, tx, fl>> /\ call'.at \in {"compare", "install"}
              /\ (call'.at = "compare" => call.op = "refresh")
            BY <1>1, <2>6 DEF Build, Calls
        <3>2. call.op = "refresh" => tx.mode = NoMode \/ tx.shown
            BY <1>1 DEF Orderly
        <3>3. QED
            BY <2>2, <3>1, <3>2, AgreeingMove
    <2>7. CASE Compare
        <3>1. UNCHANGED <<db, tx, fl>> /\ call.at = "compare" /\ (rt' = rt \/ rt' = NoMirror)
            BY <2>7 DEF Compare, Drop
        <3>2. rt' = rt
            BY <2>1, <3>1 DEF Straight, Mirrored
        <3>3. QED
            BY <2>2, <3>1, <3>2, AgreeingMove
    <2>8. CASE Current
        <3>1. UNCHANGED <<db, tx, fl>> /\ call.at = "current" /\ rt' = rt
            BY <2>1, <2>8 DEF Current, Drop, Straight, Mirrored
        <3>2. QED
            BY <2>2, <3>1, AgreeingMove
    <2>9. CASE MakeRoot
        <3>1. \/ tx' = tx
              \/ tx' = [tx EXCEPT !.by = call.by, !.root = count.roots + 1]
            BY <2>9 DEF MakeRoot, NewRoot
        <3>2. tx'.new = tx.new /\ tx'.mode = tx.mode /\ tx'.shown = tx.shown
            BY <1>1, <3>1 DEF Sessions
        <3>3. call.at = "root" /\ ~tx.shown /\ rt' = rt
            BY <2>3, <2>9 DEF MakeRoot
        <3>4. \A p : Shown(p)' = Shown(p)
            BY <1>1, <3>2, <3>3 DEF Shown
        <3>5. ShownMode' = ShownMode
            BY <1>1, <3>2, <3>3 DEF ShownMode
        <3> HIDE DEF Shown, ShownMode
        <3>6. QED
            BY <1>1, <2>2, <3>2, <3>3, <3>4, <3>5, AgreeingIs, AgreeingNext
    <2>10. CASE Meta
        <3>1. \/ tx' = tx
              \/ tx' = [tx EXCEPT !.by = call.by, !.mode = "host", !.locked = @ \/ call.fresh]
            BY <2>10 DEF Meta
        <3>2. tx'.new = tx.new /\ tx'.shown = tx.shown
            BY <1>1, <3>1 DEF Sessions
        <3>3. call.at = "seed" /\ call'.at = "build" /\ ~tx.shown /\ rt' = rt
            BY <1>1, <2>3, <2>10 DEF Meta, Goto, Calls
        <3>4. \A p : Shown(p)' = Shown(p)
            BY <1>1, <3>2, <3>3 DEF Shown
        <3>5. ShownMode' = ShownMode
            BY <1>1, <3>2, <3>3 DEF ShownMode
        <3> HIDE DEF Shown, ShownMode
        <3>6. QED
            BY <1>1, <2>2, <3>2, <3>3, <3>4, <3>5, AgreeingIs, AgreeingNext
    <2>11. ASSUME NEW p \in Paths, NEW text \in Nat, rt' = With(rt, p, text), lock = NoOne,
                  tx' = tx, call.at \in {"seed", "act"}
           PROVE  Agreeing'
        <3>1. /\ rt'.files = [rt.files EXCEPT ![p] = text]
              /\ rt'.dirty = rt.dirty \cup {p} /\ rt'.real = rt.real
              /\ rt'.mode = rt.mode /\ rt'.dirtyMode = rt.dirtyMode
            BY <2>4, <2>11, WithTyped
        <3>2. rt.files \in Contents
            BY <2>4 DEF Mirrors
        <3>3. \A q \in Paths \ rt'.dirty : rt'.files[q] = rt.files[q]
            BY <3>1, <3>2 DEF Contents
        <3>4. ~tx.shown
            BY <2>3, <2>11
        <3>5. QED
            BY <1>1, <2>2, <2>11, <3>1, <3>3, <3>4, AgreeingEdit
    <2>12. ASSUME NEW p \in Paths, Seed(p) PROVE Agreeing'
        <3>1. Mirrored /\ call.at = "seed" /\ SeedText \in Nat
            BY <2>2, <2>12 DEF Straight, Seed, SeedText
        <3>2. CASE rt' = rt
            BY <1>1, <2>2, <2>12, <3>1, <3>2, AgreeingMove DEF Seed
        <3>3. CASE rt' # rt
            BY <2>11, <2>12, <3>1, <3>3 DEF Seed
        <3>4. QED
            BY <3>2, <3>3
    <2>13. CASE Write
        <3>1. call.path \in Paths /\ call.text \in Nat
            BY <1>1 DEF Calls
        <3>2. QED
            BY <2>11, <2>13, <3>1 DEF Write
    <2>14. CASE SwitchMode
        <3>1. call.at = "act" /\ lock = NoOne /\ ~tx.shown /\ call.op \in Modes
            BY <2>3, <2>14 DEF SwitchMode
        <3>2. CASE Mode(rt) = call.op
            BY <1>1, <2>2, <2>14, <3>1, <3>2, AgreeingMove DEF SwitchMode
        <3>3. CASE Mode(rt) # call.op
            <4>1. /\ rt' = [rt EXCEPT !.mode = call.op, !.dirtyMode = TRUE]
                  /\ tx' = [tx EXCEPT !.by = call.by, !.mode = call.op]
                BY <2>14, <3>3 DEF SwitchMode
            <4>2. /\ rt'.mode = call.op /\ rt'.dirtyMode /\ rt'.real = rt.real
                  /\ rt'.dirty = rt.dirty /\ rt'.files = rt.files
                BY <2>4, <4>1 DEF Mirrors
            <4>3. tx'.mode = call.op /\ tx'.new = tx.new /\ tx'.shown = tx.shown
                BY <1>1, <4>1 DEF Sessions
            <4>4. QED
                BY <1>1, <2>2, <3>1, <4>2, <4>3, AgreeingEdit
        <3>4. QED
            BY <3>2, <3>3
    <2>15. QED
        BY <1>3, <2>5, <2>6, <2>7, <2>8, <2>9, <2>10, <2>12, <2>13, <2>14 DEF CallStep
<1>4. QED
    BY <1>2, <1>3


\* The end of a flush that stores nothing, and leaves the mirror.
LEMMA AgreeingFinish ==
    ASSUME Typed, Loaded, Agreeing, Straight, NEW f \in Flushers, fl[f] # Idle,
           fl' = [fl EXCEPT ![f] = Idle], UNCHANGED <<rt, db, tx>>,
           call.at \notin {"build", "install"} \/ call'.at \in {"build", "install"}
    PROVE  Agreeing'
<1>1. \A g \in Flushers : fl'[g] = Idle /\ fl'[g].at \notin {"stored", "loaded"}
    BY DEF Typed, Loaded, Straight, Idle
<1>2. \A p : Shown(p)' = Shown(p)
    BY DEF Shown, Row
<1>3. ShownMode' = ShownMode /\ Dirty(rt)' = Dirty(rt)
    BY DEF ShownMode, RowMode, Dirty, Pending
<1> HIDE DEF Shown, ShownMode
<1>4. QED
    BY <1>1, <1>2, <1>3, AgreeingIs, AgreeingNext

LEMMA AgreeingFlushStep ==
    ASSUME Typed, HostFlushes, Loaded, Agreeing, NEW f \in Flushers, FlushStep(f)
    PROVE  Agreeing'
<1>1. SUFFICES ASSUME Straight' PROVE Agreeing'
    BY AgreeingNext
<1>2. TurnBack(f) \/ ~Install
    <2>1. SUFFICES ASSUME ~TurnBack(f), Install PROVE FALSE
        OBVIOUS
    <2>2. fl' = fl
        BY <2>1 DEF Install
    <2>3. fl'[f] # fl[f]
        <3>1. DOMAIN fl = Flushers /\ (fl[f] # Idle => fl[f] \in Flushes)
            BY DEF Typed
        <3>2. CASE Take(f)
            <4>1. fl'[f].at = "taken"
                BY <3>1, <3>2 DEF Take
            <4>2. QED
                BY <3>2, <4>1 DEF Take, Idle
        <3>3. ASSUME NEW next, Finished(f, next), fl[f] # Idle PROVE fl'[f] # fl[f]
            BY <3>1, <3>3 DEF Finished
        <3>4. CASE Store(f)
            <4>1. fl[f].at = "taken" /\ fl[f] # Idle
                BY <3>4 DEF Store, Idle
            <4>2. CASE fl' = [fl EXCEPT ![f].at = "stored"]
                <5>1. fl'[f].at = "stored"
                    BY <3>1, <4>1, <4>2 DEF Flushes
                <5>2. QED
                    BY <4>1, <5>1
            <4>3. QED
                BY <3>3, <3>4, <4>1, <4>2, Zenon DEF Store
        <3>5. CASE Load(f)
            <4>1. fl[f].at = "stored" /\ fl[f] # Idle
                BY <3>5 DEF Load, Idle
            <4>2. CASE fl' = [fl EXCEPT ![f].at = "loaded", ![f].cur = rt]
                <5>1. fl'[f].at = "loaded"
                    BY <3>1, <4>1, <4>2 DEF Flushes
                <5>2. QED
                    BY <4>1, <5>1
            <4>3. QED
                BY <3>3, <3>5, <4>1, <4>2, Zenon DEF Load
        <3>6. CASE Save(f)
            <4>1. fl[f] # Idle
                BY <3>6 DEF Save, Idle
            <4>2. QED
                BY <3>3, <3>6, <4>1 DEF Save
        <3>7. QED
            BY <2>1, <3>2, <3>4, <3>5, <3>6 DEF FlushStep
    <2>4. QED
        BY <2>2, <2>3
<1>3. Straight
    <2>1. CASE TurnBack(f)
        BY <1>1, <2>1 DEF TurnBack, Straight, Mirrored
    <2>2. CASE ~Install
        BY <1>1, <2>2, StraightBefore DEF Next
    <2>3. QED
        BY <1>2, <2>1, <2>2
<1>4. call.at \notin {"build", "install"} \/ call'.at \in {"build", "install"}
    <2>1. CASE call = Idle
        BY <2>1 DEF Idle
    <2>2. CASE call # Idle
        <3>1. call'.at = call.at \/ call.at = "flush"
            BY <2>2, FlushCall
        <3>2. QED
            BY <3>1
    <2>3. QED
        BY <2>1, <2>2
<1>5. /\ DOMAIN fl = Flushers /\ tx' = tx /\ rt \in Mirrors /\ Sound(rt)
      /\ \A g \in Flushers : fl[g] # Idle => fl[g] \in Flushes /\ lock = g
    BY <1>3 DEF Straight, Loaded, Typed, FlushStep, Take, TurnBack, Store, Load, Save
<1>6. fl[f] # Idle => \A g \in Flushers \ {f} : fl[g] = Idle
    BY <1>5
<1>7. CASE Take(f)
    <2> DEFINE s == [at |-> "taken", paths |-> rt.dirty, files |-> rt.files,
                     real |-> rt.real, root |-> rt.root, mode |-> rt.mode,
                     dirtyMode |-> rt.dirtyMode, cur |-> NoMirror]
    <2>1. fl' = [fl EXCEPT ![f] = s] /\ UNCHANGED <<rt, db, tx, call>> /\ Dirty(rt) /\ lock = NoOne
        <3>1. ~Astray(f)
            BY <1>1, <1>7, TakeKeeps DEF Straight
        <3>2. QED
            BY <1>7, <3>1 DEF Take
    <2>2. /\ s.at = "taken" /\ s.paths = rt.dirty /\ s.files = rt.files /\ s.real = rt.real
          /\ s.mode = rt.mode /\ s.dirtyMode = rt.dirtyMode
        OBVIOUS
    <2> HIDE DEF s
    <2>3. \A g \in Flushers : fl'[g] # Idle => fl'[g] = s
        BY <1>5, <2>1, BootstrapAssumption DEF Flushers
    <2>4. ~tx.shown
        BY <1>3, <2>1, AgreeingIs
    <2>5. \A p : Shown(p)' = Shown(p)
        BY <2>1 DEF Shown, Row
    <2>6. ShownMode' = ShownMode
        BY <2>1 DEF ShownMode, RowMode
    <2>7. \A g \in Flushers : fl'[g].at \notin {"stored", "loaded"}
        BY <2>2, <2>3 DEF Idle
    <2>8. \A g \in Flushers : fl'[g] # Idle =>
              /\ fl'[g].paths = rt'.dirty /\ fl'[g].files = rt'.files /\ fl'[g].real = rt'.real
              /\ fl'[g].mode = rt'.mode /\ fl'[g].dirtyMode = rt'.dirtyMode
        BY <2>1, <2>2, <2>3
    <2> HIDE DEF Shown, ShownMode
    <2>9. QED
        BY <1>3, <2>1, <2>4, <2>5, <2>6, <2>7, <2>8, AgreeingIs, AgreeingNext
<1>8. CASE Store(f)
    <2> DEFINE s == fl[f]
    <2>1. s # Idle /\ s \in Flushes /\ rt' = rt
        BY <1>5, <1>8 DEF Store, Idle
    <2>2. ~tx.shown /\ tx.new = NoFiles
        BY <1>3, <2>1, AgreeingIs
    <2>3. /\ s.paths = rt.dirty /\ s.files = rt.files /\ s.real = rt.real
          /\ s.mode = rt.mode /\ s.dirtyMode = rt.dirtyMode
        BY <1>3, <2>1, AgreeingIs
    <2>4. CASE Finished(f, call) /\ UNCHANGED db
        BY <1>3, <1>4, <1>5, <2>1, <2>4, AgreeingFinish DEF Finished
    <2>5. CASE /\ db' = [db EXCEPT !.files = StoredRows(s),
                                   !.mode = IF s.dirtyMode THEN s.mode ELSE @]
               /\ fl' = [fl EXCEPT ![f].at = "stored"]
        <3>1. /\ db'.files = StoredRows(s)
              /\ db'.mode = IF s.dirtyMode THEN s.mode ELSE db.mode
            BY <2>5 DEF Typed
        <3>2. \A p \in Paths : Shown(p) = db.files[p] /\ Shown(p)' = db'.files[p]
            BY <1>5, <2>2 DEF Shown
        <3>3. ShownMode = db.mode /\ ShownMode' = db'.mode
            BY <1>5, <2>2 DEF ShownMode
        <3>4. \A p \in s.paths : p \in Paths /\ s.files[p] # Absent
            BY <2>1 DEF Typed, Flushes
        <3>5. \A p \in rt.real : db.files[p] # Absent /\ p \in Paths
            BY <1>3, <1>5, <3>2, AgreeingIs DEF Mirrors
        <3>6. \A p \in s.paths : db'.files[p] = s.files[p]
            BY <2>3, <3>1, <3>4, <3>5 DEF StoredRows
        <3>7. \A p \in Paths \ s.paths : db'.files[p] = db.files[p]
            BY <3>1 DEF StoredRows
        <3>8. /\ fl'[f].at = "stored" /\ fl'[f].paths = s.paths /\ fl'[f].files = s.files
              /\ fl'[f].real = s.real /\ fl'[f].mode = s.mode /\ fl'[f].dirtyMode = s.dirtyMode
              /\ \A g \in Flushers \ {f} : fl'[g] = Idle
            BY <1>5, <1>6, <2>1, <2>5 DEF Flushes
        <3> HIDE DEF s
        <3>9. \A p \in Paths \ rt'.dirty : rt'.files[p] = Shown(p)'
            BY <1>3, <2>1, <2>3, <3>2, <3>7, AgreeingIs
        <3>10. ~rt'.dirtyMode => rt'.mode = ShownMode'
            BY <1>3, <2>1, <2>3, <3>1, <3>3, AgreeingIs
        <3>11. \A p \in rt'.real : Shown(p)' # Absent
            BY <2>1, <3>2, <3>4, <3>5, <3>6, <3>7
        <3>12. \A g \in Flushers : fl'[g] # Idle =>
                  /\ fl'[g].paths = rt'.dirty /\ fl'[g].files = rt'.files /\ fl'[g].real = rt'.real
                  /\ fl'[g].mode = rt'.mode /\ fl'[g].dirtyMode = rt'.dirtyMode
            BY <2>1, <2>3, <3>8
        <3>13. \A g \in Flushers : fl'[g].at \in {"stored", "loaded"} =>
                  /\ \A p \in fl'[g].paths : db'.files[p] = fl'[g].files[p]
                  /\ fl'[g].dirtyMode => db'.mode = fl'[g].mode
            BY <3>1, <3>6, <3>8 DEF Idle
        <3>14. /\ ~tx'.shown /\ tx'.new = NoFiles
               /\ tx'.mode # NoMode /\ call'.at \notin {"build", "install"} => tx'.mode = rt'.mode
            BY <1>3, <1>4, <1>5, <2>1, <2>2, AgreeingIs
        <3> HIDE DEF Shown, ShownMode
        <3>15. QED
            BY <3>9, <3>10, <3>11, <3>12, <3>13, <3>14, AgreeingNext
    <2>6. QED
        BY <1>8, <2>4, <2>5, Zenon DEF Store
<1>9. CASE Load(f)
    <2>1. /\ fl[f] # Idle /\ fl[f] \in Flushes /\ fl[f].at = "stored" /\ Mirrored
          /\ UNCHANGED <<rt, db, tx>>
        BY <1>3, <1>5, <1>9 DEF Load, Idle, Straight
    <2>2. fl' = [fl EXCEPT ![f].at = "loaded", ![f].cur = rt]
        BY <1>9, <2>1 DEF Load
    <2>3. /\ fl'[f].at = "loaded" /\ fl'[f].paths = fl[f].paths /\ fl'[f].files = fl[f].files
          /\ fl'[f].real = fl[f].real /\ fl'[f].mode = fl[f].mode
          /\ fl'[f].dirtyMode = fl[f].dirtyMode
          /\ \A g \in Flushers \ {f} : fl'[g] = Idle
        BY <1>5, <1>6, <2>1, <2>2 DEF Flushes
    <2>4. \A p : Shown(p)' = Shown(p)
        BY <2>1 DEF Shown, Row
    <2>5. ShownMode' = ShownMode /\ ~tx'.shown
        BY <1>3, <2>1, AgreeingIs DEF ShownMode, RowMode
    <2>6. /\ fl[f].paths = rt.dirty /\ fl[f].files = rt.files /\ fl[f].real = rt.real
          /\ fl[f].mode = rt.mode /\ fl[f].dirtyMode = rt.dirtyMode
          /\ \A p \in fl[f].paths : db.files[p] = fl[f].files[p]
          /\ fl[f].dirtyMode => db.mode = fl[f].mode
        BY <1>3, <2>1, AgreeingIs
    <2>7. \A g \in Flushers : fl'[g] # Idle =>
              /\ fl'[g].paths = rt'.dirty /\ fl'[g].files = rt'.files /\ fl'[g].real = rt'.real
              /\ fl'[g].mode = rt'.mode /\ fl'[g].dirtyMode = rt'.dirtyMode
        BY <2>1, <2>3, <2>6
    <2>8. \A g \in Flushers : fl'[g].at \in {"stored", "loaded"} =>
              /\ \A p \in fl'[g].paths : db'.files[p] = fl'[g].files[p]
              /\ fl'[g].dirtyMode => db'.mode = fl'[g].mode
        BY <2>1, <2>3, <2>6 DEF Idle
    <2> HIDE DEF Shown, ShownMode
    <2>9. QED
        BY <1>3, <1>4, <2>1, <2>4, <2>5, <2>7, <2>8, AgreeingIs, AgreeingNext
<1>10. CASE Save(f)
    <2> DEFINE s == fl[f]
    <2>1. s # Idle /\ s \in Flushes /\ s.at = "loaded" /\ UNCHANGED <<db, tx>>
        BY <1>5, <1>10 DEF Save, Idle
    <2>2. Held(f) = rt
        BY <1>3, <2>1, HeldIs DEF Straight
    <2>3. /\ s.paths = rt.dirty /\ s.files = rt.files /\ s.real = rt.real
          /\ s.mode = rt.mode /\ s.dirtyMode = rt.dirtyMode
          /\ \A p \in s.paths : db.files[p] = s.files[p]
          /\ s.dirtyMode => db.mode = s.mode
          /\ ~tx.shown /\ tx.new = NoFiles
        BY <1>3, <2>1, AgreeingIs
    <2>4. rt' = Confirmed(rt, s)
        BY <1>10, <2>2 DEF Save
    <2>5. /\ rt'.files = rt.files /\ rt'.mode = rt.mode
          /\ rt'.dirty = {} /\ ~rt'.dirtyMode
          /\ rt'.real = rt.real \cup {p \in s.paths : rt.files[p] # Absent}
        <3>1. /\ rt'.files = rt.files /\ rt'.mode = rt.mode
              /\ rt'.dirty = rt.dirty \ {p \in s.paths : rt.files[p] = s.files[p]}
              /\ rt'.dirtyMode = (rt.dirtyMode /\ ~(s.dirtyMode /\ rt.mode = s.mode))
              /\ rt'.real = rt.real \cup {p \in s.paths : rt.files[p] # Absent}
            BY <1>5, <2>1, <2>4, ConfirmedFields
        <3>2. QED
            BY <2>3, <3>1
    <2>6. \A p \in Paths : Shown(p) = db.files[p] /\ Shown(p)' = db.files[p]
        BY <2>1, <2>3 DEF Shown
    <2>7. ShownMode = db.mode /\ ShownMode' = db.mode
        BY <2>1, <2>3 DEF ShownMode
    <2>8. \A g \in Flushers : fl'[g] = Idle /\ fl'[g].at \notin {"stored", "loaded"}
        BY <1>5, <1>6, <1>10, <2>1 DEF Save, Finished, Idle
    <2>9. \A p \in Paths : rt'.files[p] = Shown(p)'
        <3>1. SUFFICES ASSUME NEW p \in Paths PROVE rt'.files[p] = Shown(p)'
            OBVIOUS
        <3>2. CASE p \in rt.dirty
            BY <2>3, <2>5, <2>6, <3>2
        <3>3. CASE p \notin rt.dirty
            BY <1>3, <2>5, <2>6, <3>3, AgreeingIs
        <3>4. QED
            BY <3>2, <3>3
    <2>10. rt'.mode = ShownMode'
        BY <1>3, <2>3, <2>5, <2>7, AgreeingIs
    <2>11. \A p \in rt'.real : Shown(p)' # Absent
        <3>1. SUFFICES ASSUME NEW p \in rt'.real PROVE Shown(p)' # Absent
            OBVIOUS
        <3>2. CASE p \in rt.real
            <4>1. p \in Paths
                BY <1>5, <3>2 DEF Mirrors
            <4>2. QED
                BY <1>3, <2>6, <3>2, <4>1, AgreeingIs
        <3>3. CASE p \in s.paths /\ rt.files[p] # Absent
            <4>1. p \in Paths
                BY <2>1, <3>3 DEF Flushes
            <4>2. QED
                BY <2>3, <2>6, <3>3, <4>1
        <3>4. QED
            BY <2>5, <3>1, <3>2, <3>3
    <2>12. /\ ~tx'.shown /\ tx'.new = NoFiles
           /\ tx'.mode # NoMode /\ call'.at \notin {"build", "install"} => tx'.mode = rt'.mode
        BY <1>3, <1>4, <2>1, <2>3, <2>5, AgreeingIs
    <2> HIDE DEF Shown, ShownMode, s
    <2>13. QED
        BY <2>8, <2>9, <2>10, <2>11, <2>12, AgreeingNext
<1>11. CASE TurnBack(f)
    BY <1>3, <1>4, <1>11, AgreeingMove DEF TurnBack
<1>12. QED
    BY <1>7, <1>8, <1>9, <1>10, <1>11 DEF FlushStep

LEMMA AgreeingCommit ==
    ASSUME Typed, Agreeing, HostCommit
    PROVE  Agreeing'
<1>1. SUFFICES ASSUME Straight' PROVE Agreeing'
    BY AgreeingNext
<1>2. /\ Straight /\ UNCHANGED <<rt, fl, call>> /\ tx' = NoTx /\ call = Idle
      /\ db'.files = [p \in Paths |-> Row(p)] /\ db'.mode = RowMode
    BY <1>1 DEF HostCommit, Straight, Mirrored
<1>3. /\ \A p \in Paths : Shown(p)' = Row(p)
      /\ ShownMode' = RowMode
    BY <1>2, NoTxTyped DEF Shown, ShownMode
<1>4. rt \in Mirrors /\ \A f \in Flushers : fl[f] # Idle => fl[f] \in Flushes
    BY <1>2 DEF Straight, Typed
<1>5. CASE tx.shown
    <2>1. \A p \in Paths : Shown(p)' = Shown(p)
        BY <1>3, <1>5 DEF Shown
    <2>2. ShownMode' = ShownMode
        BY <1>3, <1>5 DEF ShownMode
    <2>3. \A f \in Flushers : fl'[f] = Idle /\ fl'[f].at \notin {"stored", "loaded"}
        BY <1>2, <1>5, AgreeingIs DEF Idle
    <2>4. rt.real \subseteq Paths
        BY <1>4 DEF Mirrors
    <2> HIDE DEF Shown, ShownMode
    <2>5. QED
        BY <1>2, <2>1, <2>2, <2>3, <2>4, NoTxTyped, AgreeingIs, AgreeingNext
<1>6. CASE ~tx.shown
    <2>1. tx.new = NoFiles /\ (tx.mode # NoMode => tx.mode = rt.mode)
        BY <1>2, <1>6, AgreeingIs DEF Idle
    <2>2. \A p \in Paths : Row(p) = db.files[p] /\ Shown(p) = db.files[p]
        BY <1>6, <2>1, NoFilesTyped DEF Row, Shown, Absent
    <2>3. ShownMode = db.mode /\ (RowMode = db.mode \/ RowMode = rt.mode)
        BY <1>6, <2>1 DEF ShownMode, RowMode
    <2>4. \A p \in Paths : db'.files[p] = db.files[p]
        BY <1>2, <2>2
    <2>5. \A f \in Flushers : fl'[f].at \in {"stored", "loaded"} =>
              /\ \A p \in fl'[f].paths : db'.files[p] = fl'[f].files[p]
              /\ fl'[f].dirtyMode => db'.mode = fl'[f].mode
        <3>1. SUFFICES ASSUME NEW f \in Flushers, fl[f].at \in {"stored", "loaded"}
                       PROVE  /\ \A p \in fl[f].paths : db'.files[p] = fl[f].files[p]
                              /\ fl[f].dirtyMode => db'.mode = fl[f].mode
            BY <1>2
        <3>2. fl[f] # Idle /\ fl[f].paths \subseteq Paths
            BY <1>4, <3>1 DEF Idle, Flushes
        <3>3. fl[f].mode = rt.mode
            BY <1>2, <3>2, AgreeingIs
        <3>4. /\ \A p \in fl[f].paths : db.files[p] = fl[f].files[p]
              /\ fl[f].dirtyMode => db.mode = fl[f].mode
            BY <1>2, <3>1, AgreeingIs
        <3>5. QED
            BY <1>2, <2>3, <2>4, <3>2, <3>3, <3>4
    <2>6. rt.real \subseteq Paths
        BY <1>4 DEF Mirrors
    <2>7. ~rt'.dirtyMode => rt'.mode = ShownMode'
        BY <1>2, <1>3, <2>3, AgreeingIs
    <2>8. /\ \A p \in Paths \ rt'.dirty : rt'.files[p] = Shown(p)'
          /\ \A p \in rt'.real : Shown(p)' # Absent
        BY <1>2, <1>3, <2>2, <2>6, AgreeingIs
    <2>9. \A f \in Flushers : fl'[f] # Idle =>
              /\ fl'[f].paths = rt'.dirty /\ fl'[f].files = rt'.files /\ fl'[f].real = rt'.real
              /\ fl'[f].mode = rt'.mode /\ fl'[f].dirtyMode = rt'.dirtyMode
        BY <1>2, AgreeingIs
    <2> HIDE DEF Shown, ShownMode
    <2>10. QED
        BY <1>2, <2>5, <2>7, <2>8, <2>9, NoTxTyped, AgreeingNext
<1>7. QED
    BY <1>5, <1>6

LEMMA AgreeingRestart ==
    ASSUME Typed, Orderly, Agreeing, NEW c \in Callers, Restart(c)
    PROVE  Agreeing'
<1>1. SUFFICES ASSUME Straight' PROVE Agreeing'
    BY AgreeingNext
<1>2. rt' = rt /\ db' = db /\ store # "local"
    BY <1>1 DEF Restart, Straight, Mirrored
<1>3. SameProcess(c) = {c}
    BY <1>2 DEF SameProcess
<1>4. Straight
    <2>1. ~Install
        <3>1. SUFFICES ASSUME Install PROVE FALSE
            OBVIOUS
        <3>2. count' = count /\ count'.restarts = count.restarts + 1 /\ count.restarts \in Nat
            BY <3>1 DEF Install, Restart, Typed
        <3>3. QED
            BY <3>2
    <2>2. QED
        BY <1>1, <2>1, StraightBefore DEF Next
<1>5. (tx' = tx \/ (tx' = NoTx /\ ~tx.shown))
    <2>1. hist'.orphaned = (hist.orphaned \/ ((tx # NoTx /\ tx.by \in SameProcess(c)) /\ tx.shown))
        BY DEF Restart, Typed
    <2>2. QED
        BY <1>1, <2>1 DEF Restart, Straight
<1>6. \A p : Shown(p)' = Shown(p)
    BY <1>2, <1>5, NoTxTyped DEF Shown, Row
<1>7. ShownMode' = ShownMode
    BY <1>2, <1>5, NoTxTyped DEF ShownMode, RowMode
<1>8. PICK ends \in [Flushers -> BOOLEAN] :
          fl' = [f \in Flushers |-> IF ends[f] THEN Idle ELSE fl[f]]
    BY RestartParts
<1>9. \A f \in Flushers : fl'[f] = fl[f] \/ (fl'[f] = Idle /\ fl'[f].at \notin {"stored", "loaded"})
    BY <1>8 DEF Idle
<1>10. /\ ~tx'.shown => tx'.new = NoFiles
       /\ ~tx'.shown /\ tx'.mode # NoMode /\ call'.at \notin {"build", "install"} =>
             tx'.mode = rt'.mode
    <2>1. CASE tx' = NoTx
        BY <2>1, NoTxTyped
    <2>2. CASE tx' = tx /\ tx # NoTx
        <3>1. tx.by \in Callers \ {c}
            BY <1>3, <2>2 DEF Restart, Typed, Sessions
        <3>2. call # Idle => call.by = tx.by
            BY <3>1, BootstrapAssumption DEF Orderly
        <3>3. call' = call
            BY <1>3, <3>1, <3>2 DEF Restart
        <3>4. QED
            BY <1>2, <1>4, <2>2, <3>3, AgreeingIs
    <2>3. QED
        BY <1>5, <2>1, <2>2
<1>11. tx'.shown => ~Dirty(rt)' /\ \A f \in Flushers : fl'[f] = Idle
    <2>1. tx'.shown => tx.shown
        BY <1>5, NoTxTyped
    <2>2. QED
        BY <1>2, <1>4, <1>9, <2>1, AgreeingIs DEF Dirty, Pending
<1>12. \A f \in Flushers : fl'[f] # Idle =>
           /\ fl'[f].paths = rt'.dirty /\ fl'[f].files = rt'.files /\ fl'[f].real = rt'.real
           /\ fl'[f].mode = rt'.mode /\ fl'[f].dirtyMode = rt'.dirtyMode
    BY <1>2, <1>4, <1>9, AgreeingIs
<1>13. \A f \in Flushers : fl'[f].at \in {"stored", "loaded"} =>
           /\ \A p \in fl'[f].paths : db'.files[p] = fl'[f].files[p]
           /\ fl'[f].dirtyMode => db'.mode = fl'[f].mode
    BY <1>2, <1>4, <1>9, AgreeingIs
<1> HIDE DEF Shown, ShownMode
<1>14. /\ \A p \in Paths \ rt'.dirty : rt'.files[p] = Shown(p)'
       /\ ~rt'.dirtyMode => rt'.mode = ShownMode'
       /\ \A p \in rt'.real : Shown(p)' # Absent
    BY <1>2, <1>4, <1>6, <1>7, AgreeingIs
<1>15. QED
    BY <1>10, <1>11, <1>12, <1>13, <1>14, AgreeingNext

LEMMA AgreeingStep ==
    ASSUME Typed, HostFlushes, Knowing, Loaded, Orderly, BuiltIsCurrent, Agreeing, [Next]_vars
    PROVE  Agreeing'
<1>1. ASSUME NEW c \in Callers, Start(c) PROVE Agreeing'
    <2>1. UNCHANGED <<rt, db, tx, fl, hist>> /\ call = Idle
        BY <1>1 DEF Start
    <2>2. CASE Straight
        BY <2>1, <2>2, AgreeingMove DEF Idle
    <2>3. CASE ~Straight
        <3>1. ~Straight'
            BY <2>1, <2>3 DEF Straight, Mirrored
        <3>2. QED
            BY <3>1, AgreeingNext
    <2>4. QED
        BY <2>2, <2>3
<1>2. CASE UNCHANGED vars
    BY <1>2 DEF vars, Agreeing, Follows, HeldBack, Snapped, Stored, Straight, Mirrored, Shown, Row,
                ShownMode, RowMode, Dirty, Pending
<1>3. ASSUME NEW c \in Callers, Restart(c) PROVE Agreeing'
    BY <1>3, AgreeingRestart
<1>4. ASSUME NEW f \in Flushers, FlushStep(f) PROVE Agreeing'
    BY <1>4, AgreeingFlushStep
<1>5. CASE CallStep
    BY <1>5, AgreeingCallStep
<1>6. CASE HostCommit
    BY <1>6, AgreeingCommit
<1>7. QED
    BY <1>1, <1>2, <1>3, <1>4, <1>5, <1>6 DEF Next

LEMMA AgreeingAlways ==
    ASSUME Disciplined
    PROVE  Spec => [](Orderly /\ BuiltIsCurrent /\ Agreeing)
<1>1. Init => Orderly /\ BuiltIsCurrent /\ Agreeing
    <2>1. SUFFICES ASSUME Init PROVE Orderly /\ BuiltIsCurrent /\ Agreeing
        OBVIOUS
    <2>2. Orderly
        BY <2>1, NoTxTyped DEF Init, Orderly, Idle
    <2>3. BuiltIsCurrent
        BY <2>1 DEF Init, BuiltIsCurrent, Building, Idle
    <2>4. ~Straight
        BY <2>1 DEF Init, Straight, Mirrored
    <2>5. QED
        BY <2>2, <2>3, <2>4 DEF Agreeing, Follows, HeldBack, Snapped, Stored
<1>2. Typed /\ HostFlushes /\ Knowing /\ Loaded /\ Orderly /\ BuiltIsCurrent /\ Agreeing
      /\ [Next]_vars => Orderly' /\ BuiltIsCurrent' /\ Agreeing'
    BY OrderlyStep, BuiltStep, AgreeingStep
<1>3. QED
    BY <1>1, <1>2, NumberedAlways, PTL DEF Spec

\* Where hosts commit after each call and ensure comes first, a mirror without
\* dirty marks has the files and the access mode of the database, whatever was
\* seeded, refreshed, flushed and restarted before (bootstrap.py, checkpoint.py).
THEOREM CleanMirrorsAreCurrent ==
    ASSUME Disciplined
    PROVE  Spec => []CleanIsCurrent
<1>1. ASSUME Typed, Agreeing PROVE CleanIsCurrent
    <2>1. SUFFICES ASSUME Mirrored, ~Pending(rt), Quiet, ~hist.raced, ~hist.orphaned
                   PROVE  rt.files = db.files /\ rt.mode = db.mode
        BY DEF CleanIsCurrent
    <2>2. Straight /\ ~tx.shown
        BY <2>1, NoTxTyped DEF Straight, Quiet
    <2>3. rt.dirty = {} /\ ~rt.dirtyMode
        BY <2>1 DEF Pending
    <2>4. \A p \in Paths : rt.files[p] = db.files[p]
        BY <1>1, <2>2, <2>3, AgreeingIs DEF Shown
    <2>5. rt.files \in [Paths -> Nat] /\ db.files \in [Paths -> Nat]
        BY <1>1, <2>1 DEF Typed, Mirrors, Contents
    <2>6. rt.mode = db.mode
        BY <1>1, <2>2, <2>3, AgreeingIs DEF ShownMode
    <2>7. QED
        BY <2>4, <2>5, <2>6
<1>2. Typed /\ Agreeing => CleanIsCurrent
    BY <1>1
<1>3. QED
    BY <1>2, TypedAlways, AgreeingAlways, PTL


-----------------------------------------------------------------------------
(* FlushIsDurable. How a step changes the mirror, the session and the rows.*)

\* A file of the mirror is edited under the lock: a new one, or by the call's text.
Edited ==
    /\ lock = NoOne /\ Mirrored /\ rt'.real = rt.real
    /\ \A p \in rt'.dirty \cap rt'.real :
          (p \in rt.dirty /\ rt'.files[p] = rt.files[p]) \/ rt'.files[p] = call.text
    /\ call # Idle /\ UNCHANGED <<fl, hist>>

LEMMA MirrorChanges ==
    ASSUME Typed, [Next]_vars
    PROVE  rt' = rt \/ ~Mirrored' \/ Install \/ Edited \/ \E f \in Flushers : Save(f)
<1>1. CASE \E p \in Paths : Seed(p)
    <2>1. PICK p \in Paths : Seed(p)
        BY <1>1
    <2>2. CASE Mirrored /\ rt.files[p] = Absent
        <3>1. rt' = With(rt, p, SeedText) /\ lock = NoOne /\ UNCHANGED <<fl, hist>>
            BY <2>1, <2>2 DEF Seed
        <3>2. rt \in Mirrors /\ Sound(rt) /\ p \notin rt.real
            BY <2>2 DEF Typed, Sound
        <3>3. /\ rt'.files = [rt.files EXCEPT ![p] = SeedText] /\ rt'.dirty = rt.dirty \cup {p}
              /\ rt'.real = rt.real
            BY <3>1, <3>2, WithTyped DEF SeedText
        <3>4. rt.files \in [Paths -> Nat] /\ rt.real \subseteq Paths
            BY <3>2 DEF Mirrors, Contents
        <3>5. call # Idle
            BY <2>1 DEF Seed, Idle
        <3>6. QED
            BY <2>2, <3>1, <3>2, <3>3, <3>4, <3>5 DEF Edited
    <2>3. CASE ~(Mirrored /\ rt.files[p] = Absent)
        BY <2>1, <2>3 DEF Seed
    <2>4. QED
        BY <2>2, <2>3
<1>2. CASE Write
    <2>1. /\ call \in Calls /\ call # Idle /\ rt \in Mirrors
          /\ rt' = With(rt, call.path, call.text)
          /\ lock = NoOne /\ Mirrored /\ UNCHANGED <<fl, hist>>
        BY <1>2, InCall DEF Write, Typed
    <2>2. call.path \in Paths /\ call.text \in Nat
        BY <2>1 DEF Calls
    <2>3. /\ rt'.files = [rt.files EXCEPT ![call.path] = call.text]
          /\ rt'.dirty = rt.dirty \cup {call.path} /\ rt'.real = rt.real
        BY <2>1, <2>2, WithTyped
    <2>4. rt.files \in [Paths -> Nat] /\ rt.real \subseteq Paths
        BY <2>1 DEF Mirrors, Contents
    <2>5. QED
        BY <2>1, <2>2, <2>3, <2>4 DEF Edited
<1>3. CASE SwitchMode
    <2>1. call # Idle /\ lock = NoOne /\ Mirrored /\ rt \in Mirrors /\ UNCHANGED <<fl, hist>>
        BY <1>3 DEF SwitchMode, Idle, Typed
    <2>2. rt' = rt \/ (rt'.real = rt.real /\ rt'.files = rt.files /\ rt'.dirty = rt.dirty)
        BY <1>3, <2>1 DEF SwitchMode, Mirrors
    <2>3. QED
        BY <2>1, <2>2 DEF Edited
<1>4. CASE Current \/ Compare
    BY <1>4 DEF Current, Compare, Drop, Mirrored
<1>5. CASE \E c \in Callers : Start(c) \/ Restart(c)
    BY <1>5 DEF Start, Restart, Mirrored
<1>6. QED
    BY <1>1, <1>2, <1>3, <1>4, <1>5
    DEF Next, CallStep, FlushStep, vars, Look, MakeRoot, Meta, Build, Return, TimesOut, SkipFlush,
        Take, TurnBack, Store, Load, HostCommit

\* The session of the host gets rows only where there are none, and only
\* while no flush of a host runs.
SessionGrows ==
    /\ call.at \in {"root", "seed", "current"} /\ tx'.shown = tx.shown
    /\ \A p \in Paths : tx'.new[p] = tx.new[p] \/ Row(p) = Absent
    /\ UNCHANGED <<db, hist, fl>> /\ ~Building'

LEMMA SessionChanges ==
    ASSUME Typed, [Next]_vars
    PROVE  \/ tx'.new = tx.new /\ (tx'.shown = tx.shown \/ Install)
           \/ tx' = NoTx /\ db' = db /\ \E c \in Callers : Restart(c)
           \/ HostCommit
           \/ SessionGrows
<1>0. tx \in Sessions /\ tx.new \in [Paths -> Nat]
    BY DEF Typed, Sessions, Contents
<1>1. CASE MakeRoot \/ Current
    <2>1. /\ tx'.new = tx.new /\ tx'.shown = tx.shown
        BY <1>0, <1>1 DEF MakeRoot, Current, NewRoot, Sessions
    <2>2. QED
        BY <2>1
<1>2. CASE \E p \in Paths : Seed(p)
    <2>1. PICK p \in Paths : Seed(p)
        BY <1>2
    <2>2. CASE ~Mirrored /\ Row(p) = Absent
        <3>1. tx' = [tx EXCEPT !.by = call.by, !.new[p] = SeedText,
                               !.locked = @ \/ tx.mode # NoMode]
            BY <2>1, <2>2 DEF Seed
        <3>2. tx'.new = [tx.new EXCEPT ![p] = SeedText] /\ tx'.shown = tx.shown
            BY <1>0, <3>1 DEF Sessions
        <3>3. call.at = "seed" /\ call \in Calls /\ call' = [call EXCEPT !.todo = @ \ {p}]
              /\ UNCHANGED <<db, hist, fl>>
            BY <2>1, InCall DEF Seed
        <3>4. ~Building'
            BY <3>3 DEF Building, Calls
        <3>5. \A q \in Paths : tx'.new[q] = tx.new[q] \/ Row(q) = Absent
            BY <1>0, <2>2, <3>2
        <3> HIDE DEF Row
        <3>6. QED
            BY <3>2, <3>3, <3>4, <3>5 DEF SessionGrows
    <2>3. CASE ~(~Mirrored /\ Row(p) = Absent)
        BY <2>1, <2>3 DEF Seed
    <2>4. QED
        BY <2>2, <2>3
<1>3. CASE Meta \/ SwitchMode
    BY <1>0, <1>3 DEF Meta, SwitchMode, Sessions
<1>4. CASE Install
    BY <1>0, <1>4 DEF Install, Sessions
<1>5. ASSUME NEW c \in Callers, Restart(c)
      PROVE  \/ tx'.new = tx.new /\ tx'.shown = tx.shown
             \/ tx' = NoTx /\ db' = db
    BY <1>5 DEF Restart
<1>6. QED
    BY <1>1, <1>2, <1>3, <1>4, <1>5
    DEF Next, CallStep, FlushStep, vars, Look, Build, Compare, Write, Return, TimesOut, SkipFlush,
        Take, TurnBack, Store, Load, Save, Start, HostCommit

LEMMA RowsChange ==
    ASSUME Typed, HostFlushes, [Next]_vars
    PROVE  \/ db'.files = db.files
           \/ HostCommit /\ db'.files = [p \in Paths |-> Row(p)]
           \/ \E f \in Flushers : /\ Store(f) /\ fl[f] # Idle /\ fl[f] \in Flushes
                                  /\ fl[f].at = "taken" /\ tx' = tx /\ hist' = hist
                                  /\ fl' = [fl EXCEPT ![f].at = "stored"]
                                  /\ db'.files = StoredRows(fl[f])
                                  /\ \A p \in fl[f].paths \ fl[f].real : db.files[p] = Absent
<1>1. ASSUME NEW f \in Flushers, Store(f)
      PROVE  \/ db'.files = db.files
             \/ /\ fl[f] # Idle /\ fl[f] \in Flushes
                /\ fl[f].at = "taken" /\ tx' = tx /\ hist' = hist
                /\ fl' = [fl EXCEPT ![f].at = "stored"]
                /\ db'.files = StoredRows(fl[f])
                /\ \A p \in fl[f].paths \ fl[f].real : db.files[p] = Absent
    <2> DEFINE s == fl[f]
    <2>1. s.at = "taken" /\ s # Idle /\ s \in Flushes /\ tx' = tx /\ hist' = hist
        BY <1>1 DEF Store, Idle, Typed
    <2>2. CASE UNCHANGED db
        BY <2>2
    <2>3. CASE /\ ~((s.paths \ s.real) # {}
                    /\ (db.root # s.root \/ \E p \in s.paths \ s.real : db.files[p] # Absent))
               /\ db' = [db EXCEPT !.files = StoredRows(s),
                                   !.mode = IF s.dirtyMode THEN s.mode ELSE @]
               /\ fl' = [fl EXCEPT ![f].at = "stored"]
        <3>1. db'.files = StoredRows(s)
            BY <2>3 DEF Typed
        <3>2. \A p \in s.paths \ s.real : db.files[p] = Absent
            BY <2>3
        <3> HIDE DEF StoredRows
        <3>3. QED
            BY <2>1, <2>3, <3>1, <3>2
    <2>4. QED
        BY <1>1, <2>2, <2>3, Zenon DEF Store
<1>2. CASE HostCommit
    BY <1>2 DEF HostCommit
<1>3. CASE \E c \in Callers : Start(c) \/ Restart(c)
    BY <1>3 DEF Start, Restart
<1>4. CASE CallStep
    BY <1>4, CallStepCall
<1>5. QED
    BY <1>1, <1>2, <1>3, <1>4 DEF Next, vars, FlushStep, Take, TurnBack, Load, Save


LEMMA RowsGrow ==
    ASSUME Typed, HostFlushes, [Next]_vars, NEW p \in Paths, db.files[p] # Absent
    PROVE  db'.files[p] # Absent
<1>1. CASE HostCommit /\ db'.files = [q \in Paths |-> Row(q)]
    BY <1>1 DEF Row
<1>2. ASSUME NEW f \in Flushers, fl[f] # Idle, db'.files = StoredRows(fl[f])
      PROVE  db'.files[p] # Absent
    <2>1. \A q \in fl[f].paths : fl[f].files[q] # Absent
        BY <1>2 DEF Typed
    <2>2. QED
        BY <1>2, <2>1 DEF StoredRows
<1>3. QED
    BY <1>1, <1>2, RowsChange

\* Only a mirror that is installed when no flush runs takes back that rows were
\* rolled back.
LEMMA OrphanedChanges ==
    ASSUME Typed, [Next]_vars, ~hist'.orphaned
    PROVE  ~hist.orphaned \/ (Install /\ \A f \in Flushers : fl[f] = Idle /\ fl'[f] = Idle)
<1>1. hist \in [raced : BOOLEAN, promised : Contents, orphaned : BOOLEAN,
                   unconfirmed : BOOLEAN, strayed : BOOLEAN]
    BY DEF Typed
<1>2. CASE Install
    BY <1>1, <1>2 DEF Install
<1>3. ASSUME NEW c \in Callers, Restart(c) PROVE ~hist.orphaned
    BY <1>1, <1>3 DEF Restart
<1>4. ASSUME NEW f \in Flushers, Save(f) PROVE ~hist.orphaned
    BY <1>1, <1>4 DEF Save
<1>5. CASE Drop
    BY <1>5, DropKeeps
<1>6. ASSUME NEW f \in Flushers, Take(f) PROVE ~hist.orphaned
    BY <1>6, TakeKeeps
<1>7. QED
    BY <1>2, <1>3, <1>4, <1>5, <1>6
    DEF Next, CallStep, FlushStep, vars, Start, Look, MakeRoot, Seed, Meta, Build, Current,
        Compare, Write, SwitchMode, Return, TimesOut, SkipFlush, TurnBack, Store, Load,
        HostCommit

\* Rows stay, unless the host's transaction is rolled back after a mirror has
\* shown them.
LEMMA PresentGrows ==
    ASSUME Typed, HostFlushes, Orderly, [Next]_vars, ~hist'.orphaned
    PROVE  Present \subseteq Present'
<1>1. ASSUME NEW p \in Paths, db.files[p] # Absent PROVE db'.files[p] # Absent
    BY <1>1, RowsGrow
<1>2. ASSUME NEW p \in Paths, tx.shown, tx.new[p] # Absent
      PROVE  db'.files[p] # Absent \/ (tx'.shown /\ tx'.new[p] # Absent)
    <2>1. call.at \in {"idle", "return"} /\ ~Install
        BY <1>2 DEF Orderly, Install
    <2>2. CASE HostCommit
        <3>1. db'.files[p] = Row(p)
            BY <2>2 DEF HostCommit
        <3>2. QED
            BY <1>2, <3>1 DEF Row
    <2>3. ASSUME NEW c \in Callers, Restart(c), tx' = NoTx PROVE FALSE
        <3>1. tx # NoTx
            BY <1>2, NoTxTyped
        <3>2. tx.by \in SameProcess(c)
            BY <2>3, <3>1 DEF Restart
        <3>3. hist'.orphaned
            BY <1>2, <2>3, <3>1, <3>2 DEF Restart, Typed
        <3>4. QED
            BY <3>3
    <2>4. QED
        BY <1>2, <2>1, <2>2, <2>3, SessionChanges DEF SessionGrows
<1>3. QED
    BY <1>1, <1>2 DEF Present

LEMMA FlushesChange ==
    ASSUME Typed, HostFlushes, [Next]_vars, NEW f \in Flushers, fl'[f] # Idle
    PROVE  \/ fl'[f] = fl[f]
           \/ /\ Mirrored /\ fl'[f].at = "taken" /\ UNCHANGED <<rt, db>>
              /\ fl'[f].paths = rt.dirty /\ fl'[f].files = rt.files /\ fl'[f].real = rt.real
           \/ /\ fl[f] \in Flushes /\ fl[f] # Idle /\ UNCHANGED <<rt, tx, hist>>
              /\ fl'[f].paths = fl[f].paths /\ fl'[f].files = fl[f].files
              /\ fl'[f].real = fl[f].real
              /\ \/ /\ fl[f].at = "taken" /\ fl'[f].at = "stored" /\ Store(f)
                    /\ db'.files = StoredRows(fl[f])
                    /\ \A p \in fl[f].paths \ fl[f].real : db.files[p] = Absent
                 \/ /\ fl[f].at = "stored" /\ fl'[f].at = "loaded" /\ Mirrored
                    /\ fl'[f].cur = rt /\ db' = db
<1>1. DOMAIN fl = Flushers /\ \A g \in Flushers : fl[g] # Idle => fl[g] \in Flushes
    BY DEF Typed
<1>2. CASE fl' = fl
    BY <1>2
<1>3. ASSUME NEW c \in Callers, Restart(c) PROVE fl'[f] = fl[f]
    BY <1>3, RestartParts
<1>4. ASSUME NEW g \in Flushers, FlushStep(g), g # f PROVE fl'[f] = fl[f]
    BY <1>1, <1>4, Zenon DEF FlushStep, Take, TurnBack, Store, Load, Save, Finished
<1>5. CASE Take(f)
    <2> DEFINE s == [at |-> "taken", paths |-> rt.dirty, files |-> rt.files,
                     real |-> rt.real, root |-> rt.root, mode |-> rt.mode,
                     dirtyMode |-> rt.dirtyMode, cur |-> NoMirror]
    <2>1. /\ s.at = "taken" /\ s.paths = rt.dirty /\ s.files = rt.files /\ s.real = rt.real
        OBVIOUS
    <2>2. fl'[f] = s
        BY <1>1, <1>5 DEF Take
    <2> HIDE DEF s
    <2>3. QED
        BY <1>5, <2>1, <2>2 DEF Take
<1>6. \A next : ~Finished(f, next)
    BY <1>1 DEF Finished
<1>7. CASE Store(f)
    <2>1. fl[f].at = "taken" /\ fl[f] # Idle /\ fl[f] \in Flushes /\ UNCHANGED <<rt, tx, hist>>
        BY <1>1, <1>7 DEF Store, Idle
    <2>2. /\ db' = [db EXCEPT !.files = StoredRows(fl[f]),
                              !.mode = IF fl[f].dirtyMode THEN fl[f].mode ELSE @]
          /\ fl' = [fl EXCEPT ![f].at = "stored"]
          /\ ~((fl[f].paths \ fl[f].real) # {}
               /\ (db.root # fl[f].root \/ \E p \in fl[f].paths \ fl[f].real : db.files[p] # Absent))
        BY <1>6, <1>7, Zenon DEF Store
    <2>3. db'.files = StoredRows(fl[f])
        BY <2>2 DEF Typed
    <2>4. \A p \in fl[f].paths \ fl[f].real : db.files[p] = Absent
        BY <2>2
    <2>5. fl'[f].at = "stored" /\ fl'[f].paths = fl[f].paths /\ fl'[f].files = fl[f].files
          /\ fl'[f].real = fl[f].real
        BY <1>1, <2>1, <2>2 DEF Flushes
    <2> HIDE DEF StoredRows
    <2>6. QED
        BY <1>7, <2>1, <2>3, <2>4, <2>5
<1>8. CASE Load(f)
    <2>1. /\ fl[f].at = "stored" /\ fl[f] # Idle /\ fl[f] \in Flushes
          /\ UNCHANGED <<rt, db, tx, hist>>
        BY <1>1, <1>8 DEF Load, Idle
    <2>2. Mirrored /\ fl' = [fl EXCEPT ![f].at = "loaded", ![f].cur = rt]
        BY <1>6, <1>8, Zenon DEF Load
    <2>3. fl'[f].at = "loaded" /\ fl'[f].paths = fl[f].paths /\ fl'[f].files = fl[f].files
          /\ fl'[f].real = fl[f].real /\ fl'[f].cur = rt
        BY <1>1, <2>1, <2>2 DEF Flushes
    <2>4. QED
        BY <2>1, <2>2, <2>3
<1>9. CASE Save(f)
    BY <1>6, <1>9 DEF Save
<1>10. CASE CallStep
    BY <1>2, <1>10, CallStepCall
<1>11. CASE HostCommit \/ UNCHANGED vars \/ \E c \in Callers : Start(c)
    BY <1>2, <1>11 DEF HostCommit, vars, Start
<1>12. ASSUME NEW g \in Flushers, FlushStep(g)
       PROVE  fl'[f] = fl[f] \/ Take(f) \/ Store(f) \/ Load(f) \/ Save(f)
    BY <1>4, <1>12 DEF FlushStep, TurnBack
<1>13. QED
    BY <1>3, <1>5, <1>7, <1>8, <1>9, <1>10, <1>11, <1>12 DEF Next


LEMMA SaveConfirms ==
    ASSUME Typed, NEW f \in Flushers, Save(f)
    PROVE  /\ fl[f].at = "loaded" /\ fl[f] # Idle /\ fl[f] \in Flushes
           /\ Held(f) \in Mirrors /\ rt' \in Mirrors
           /\ rt'.files = Held(f).files
           /\ rt'.dirty = Held(f).dirty \ {p \in fl[f].paths : Held(f).files[p] = fl[f].files[p]}
           /\ rt'.real \subseteq Held(f).real \cup fl[f].paths
           /\ Held(f) = fl[f].cur \/ (Mirrored /\ Held(f) = rt)
           /\ DOMAIN fl = Flushers /\ fl' = [fl EXCEPT ![f] = Idle] /\ fl'[f] = Idle
           /\ UNCHANGED <<db, tx>>
<1>1. /\ fl[f].at = "loaded" /\ fl[f] # Idle /\ rt' = Confirmed(Held(f), fl[f])
      /\ fl' = [fl EXCEPT ![f] = Idle] /\ UNCHANGED <<db, tx>>
    BY DEF Save, Finished, Idle
<1>2. fl[f] \in Flushes /\ DOMAIN fl = Flushers
    BY <1>1 DEF Typed
<1>3. Held(f) \in Mirrors
    BY <1>1, HeldTyped
<1>4. /\ rt' \in Mirrors /\ rt'.files = Held(f).files
      /\ rt'.dirty = Held(f).dirty \ {p \in fl[f].paths : Held(f).files[p] = fl[f].files[p]}
      /\ rt'.real = Held(f).real \cup {p \in fl[f].paths : Held(f).files[p] # Absent}
    BY <1>1, <1>2, <1>3, ConfirmedFields
<1>5. Held(f) = fl[f].cur \/ (Mirrored /\ Held(f) = rt)
    BY <1>1 DEF Held, Typed
<1>6. fl'[f] = Idle
    BY <1>1, <1>2
<1>7. rt'.real \subseteq Held(f).real \cup fl[f].paths
    BY <1>4
<1>8. QED
    BY <1>1, <1>2, <1>3, <1>4, <1>5, <1>6, <1>7

LEMMA RowsExistNext ==
    ASSUME Building' => \A p \in call'.new.real : Row(p)' # Absent,
           Mirrored' /\ ~hist'.orphaned => rt'.real \subseteq Present',
           ~hist'.orphaned => \A f \in Flushers :
              /\ fl'[f] # Idle => fl'[f].real \subseteq Present'
              /\ fl'[f].at = "loaded" => fl'[f].cur.real \subseteq Present'
              /\ fl'[f].at \in {"stored", "loaded"} => fl'[f].paths \subseteq Present'
    PROVE  RowsExist'
BY DEF RowsExist

LEMMA RowsExistIs ==
    ASSUME RowsExist, ~hist.orphaned
    PROVE  /\ Mirrored => rt.real \subseteq Present
           /\ \A f \in Flushers :
                 /\ fl[f] # Idle => fl[f].real \subseteq Present
                 /\ fl[f].at = "loaded" => fl[f].cur.real \subseteq Present
                 /\ fl[f].at \in {"stored", "loaded"} => fl[f].paths \subseteq Present
BY DEF RowsExist

LEMMA RowsExistStep ==
    ASSUME Typed, HostFlushes, Orderly, RowsExist, [Next]_vars
    PROVE  RowsExist'
<1>1. Building' => \A p \in call'.new.real : Row(p)' # Absent
    <2>1. SUFFICES ASSUME Building', NEW p \in call'.new.real PROVE Row(p)' # Absent
        OBVIOUS
    <2>2. tx' = tx
        BY <2>1, BuildingStep
    <2>3. CASE Build /\ call'.new = Built /\ db' = db
        BY <2>1, <2>2, <2>3, BuiltFields DEF Row
    <2>4. CASE Building /\ call'.new = call.new
        <3>1. p \in Paths /\ Row(p) # Absent
            BY <2>1, <2>4 DEF RowsExist, Typed, Mirrors
        <3>2. CASE tx.new[p] # Absent
            BY <2>2, <3>2 DEF Row
        <3>3. CASE tx.new[p] = Absent
            <4>1. db.files[p] # Absent
                BY <3>1, <3>3 DEF Row
            <4>2. db'.files[p] # Absent
                BY <3>1, <4>1, RowsGrow
            <4>3. QED
                BY <2>2, <3>3, <4>2 DEF Row
        <3>4. QED
            BY <3>2, <3>3
    <2>5. QED
        BY <2>1, <2>3, <2>4, BuildingStep
<1>2. ASSUME Install PROVE rt'.real \subseteq Present'
    <2>1. Building /\ rt' = call.new /\ db' = db /\ tx \in Sessions
          /\ call.new.real \subseteq Paths
        BY <1>2 DEF Install, Building, Typed, Mirrors
    <2>2. \A p \in call.new.real : Row(p) # Absent
        BY <2>1 DEF RowsExist
    <2>3. tx.new = NoFiles \/ (tx'.shown /\ tx'.new = tx.new)
        <3>1. CASE tx = NoTx
            BY <3>1, NoTxTyped
        <3>2. CASE tx # NoTx
            BY <1>2, <2>1, <3>2 DEF Install, Sessions
        <3>3. QED
            BY <3>1, <3>2
    <2>4. ASSUME NEW p \in call.new.real PROVE p \in Present'
        <3>1. p \in Paths /\ (tx.new[p] # Absent \/ db.files[p] # Absent)
            BY <2>1, <2>2, <2>4 DEF Row
        <3>2. tx.new[p] # Absent => tx'.shown /\ tx'.new = tx.new
            BY <2>3, <3>1, NoFilesTyped DEF Absent
        <3>3. QED
            BY <2>1, <3>1, <3>2 DEF Present
    <2>5. QED
        BY <2>1, <2>4
<1>3. CASE hist'.orphaned
    BY <1>1, <1>3, RowsExistNext
<1>4. CASE Install /\ \A f \in Flushers : fl'[f] = Idle
    <2>1. \A f \in Flushers : fl'[f].at \notin {"stored", "loaded"}
        BY <1>4 DEF Idle
    <2> HIDE DEF Present, Row
    <2>2. QED
        BY <1>1, <1>2, <1>4, <2>1, RowsExistNext
<1>5. CASE ~hist.orphaned /\ ~hist'.orphaned
    <2>1. Present \subseteq Present'
        BY <1>5, PresentGrows
    <2>2. Mirrored' => rt'.real \subseteq Present'
        <3>1. CASE rt' = rt \/ Edited
            <4>1. Mirrored' => Mirrored /\ rt'.real = rt.real
                BY <3>1 DEF Edited, Mirrored
            <4> HIDE DEF Present, Mirrored
            <4>2. QED
                BY <1>5, <2>1, <4>1, RowsExistIs
        <3>2. ASSUME NEW f \in Flushers, Save(f) PROVE rt'.real \subseteq Present'
            <4>1. /\ rt'.real \subseteq Held(f).real \cup fl[f].paths
                  /\ fl[f].at = "loaded" /\ (Held(f) = fl[f].cur \/ (Mirrored /\ Held(f) = rt))
                BY <3>2, SaveConfirms
            <4>2. Held(f).real \subseteq Present /\ fl[f].paths \subseteq Present
                BY <1>5, <4>1, RowsExistIs
            <4>3. QED
                BY <2>1, <4>1, <4>2
        <3>3. QED
            BY <1>2, <3>1, <3>2, MirrorChanges
    <2>3. ASSUME NEW f \in Flushers
          PROVE  /\ fl'[f] # Idle => fl'[f].real \subseteq Present'
                 /\ fl'[f].at = "loaded" => fl'[f].cur.real \subseteq Present'
                 /\ fl'[f].at \in {"stored", "loaded"} => fl'[f].paths \subseteq Present'
        <3>1. CASE fl'[f] = Idle
            BY <3>1 DEF Idle
        <3>2. CASE fl'[f] = fl[f]
            BY <1>5, <2>1, <3>2, RowsExistIs
        <3>3. CASE Mirrored /\ fl'[f].at = "taken" /\ fl'[f].real = rt.real
            BY <1>5, <2>1, <3>3, RowsExistIs
        <3>4. CASE /\ fl[f] # Idle /\ fl[f] \in Flushes /\ tx' = tx
                   /\ fl'[f].paths = fl[f].paths /\ fl'[f].real = fl[f].real
                   /\ fl'[f].at = "stored" /\ db'.files = StoredRows(fl[f])
            <4>1. fl[f].real \subseteq Present
                BY <1>5, <3>4, RowsExistIs
            <4>2. ASSUME NEW p \in fl[f].paths PROVE p \in Present'
                <5>1. p \in Paths /\ fl[f].files[p] # Absent
                    BY <3>4 DEF Typed, Flushes
                <5>2. CASE p \in fl[f].real => db.files[p] # Absent
                    <6>1. db'.files[p] = fl[f].files[p]
                        BY <3>4, <4>2, <5>1, <5>2 DEF StoredRows
                    <6>2. QED
                        BY <5>1, <6>1 DEF Present
                <5>3. CASE p \in fl[f].real
                    BY <2>1, <4>1, <5>3
                <5>4. QED
                    BY <5>2, <5>3
            <4>3. QED
                BY <1>5, <2>1, <3>4, <4>1, <4>2
        <3>5. CASE /\ fl[f] # Idle /\ fl[f].at = "stored"
                   /\ fl'[f].paths = fl[f].paths /\ fl'[f].real = fl[f].real
                   /\ Mirrored /\ fl'[f].cur = rt
            BY <1>5, <2>1, <3>5, RowsExistIs
        <3>6. QED
            BY <3>1, <3>2, <3>3, <3>4, <3>5, FlushesChange
    <2> HIDE DEF Present, Row
    <2>4. QED
        BY <1>1, <2>2, <2>3, RowsExistNext
<1>6. QED
    BY <1>3, <1>4, <1>5, OrphanedChanges

\* Once a flush has run without the lock, that stays in the history. Until then
\* flushes exclude one another.
LEMMA StrayedStays ==
    ASSUME Typed, [Next]_vars, hist.strayed
    PROVE  hist'.strayed
<1>1. hist \in [raced : BOOLEAN, promised : Contents, orphaned : BOOLEAN,
                unconfirmed : BOOLEAN, strayed : BOOLEAN]
    BY DEF Typed
<1>2. CASE Drop
    BY <1>2, DropKeeps
<1>3. ASSUME NEW f \in Flushers, Take(f) PROVE hist'.strayed
    BY <1>3, TakeKeeps
<1>4. CASE Install \/ \E c \in Callers : Restart(c)
    BY <1>1, <1>4 DEF Install, Restart
<1>5. ASSUME NEW f \in Flushers, Save(f) PROVE hist'.strayed
    BY <1>1, <1>5 DEF Save
<1>6. QED
    BY <1>2, <1>3, <1>4, <1>5
    DEF Next, CallStep, FlushStep, vars, Start, Look, MakeRoot, Seed, Meta, Build, Current,
        Compare, Write, SwitchMode, Return, TimesOut, SkipFlush, TurnBack, Store, Load,
        HostCommit

LEMMA OneAtATime ==
    ASSUME Typed, ~hist.strayed
    PROVE  /\ \A f \in Flushers : fl[f] # Idle => lock = f /\ lock # NoOne
           /\ \A f, g \in Flushers : fl[f] # Idle /\ fl[g] # Idle => f = g
BY BootstrapAssumption DEF Typed, Flushers

LEMMA AloneStep ==
    ASSUME Typed, HostFlushes, Orderly, ~hist.strayed, Alone, [Next]_vars
    PROVE  Alone'
<1>1. Building' => call'.new.dirty = {}
    BY BuildingStep, BuiltFields DEF Alone
<1>2. ASSUME NEW f \in Flushers, fl'[f] # Idle, Mirrored' PROVE Same(rt', fl'[f])
    <2>1. CASE UNCHANGED rt /\ fl'[f].paths = rt.dirty /\ fl'[f].files = rt.files
        BY <2>1 DEF Same
    <2>2. CASE /\ fl[f] # Idle /\ fl'[f].paths = fl[f].paths /\ fl'[f].files = fl[f].files
        <3>1. lock # NoOne
            BY <2>2, OneAtATime
        <3>2. CASE rt' = rt
            BY <1>2, <2>2, <3>2 DEF Alone, Same, Mirrored
        <3>3. CASE Install
            BY <3>3 DEF Install, Alone, Building, Same
        <3>4. ASSUME NEW g \in Flushers, Save(g) PROVE FALSE
            <4>1. g = f
                BY <2>2, <3>4, OneAtATime, SaveConfirms
            <4>2. QED
                BY <1>2, <3>4, <4>1, SaveConfirms
        <3>5. QED
            BY <1>2, <3>1, <3>2, <3>3, <3>4, MirrorChanges DEF Edited
    <2>3. QED
        <3>1. fl'[f] = fl[f] =>
                 fl[f] # Idle /\ fl'[f].paths = fl[f].paths /\ fl'[f].files = fl[f].files
            BY <1>2
        <3>2. QED
            BY <1>2, <2>1, <2>2, <3>1, FlushesChange
<1>3. ASSUME NEW f \in Flushers, fl'[f] # Idle, fl'[f].at = "loaded"
      PROVE  Same(fl'[f].cur, fl'[f])
    <2>1. CASE fl'[f] = fl[f]
        BY <1>3, <2>1 DEF Alone
    <2>2. CASE /\ fl[f] # Idle /\ Mirrored /\ fl'[f].cur = rt
               /\ fl'[f].paths = fl[f].paths /\ fl'[f].files = fl[f].files
        BY <2>2 DEF Alone, Same
    <2>3. QED
        BY <1>3, <2>1, <2>2, FlushesChange
<1>4. QED
    BY <1>1, <1>2, <1>3 DEF Alone


LEMMA KeptNext ==
    ASSUME \A p \in Paths : hist'.promised[p] <= db'.files[p],
           \A p \in Paths : tx'.new[p] # Absent => hist'.promised[p] = 0,
           Mirrored' => \A p \in rt'.dirty \cap rt'.real : hist'.promised[p] <= rt'.files[p],
           \A f \in Flushers : fl'[f] # Idle =>
              \A p \in fl'[f].paths \cap fl'[f].real : hist'.promised[p] <= fl'[f].files[p],
           fl'["host"].at \in {"stored", "loaded"} /\ ~hist'.orphaned =>
              \A p \in fl'["host"].paths : fl'["host"].files[p] <= db'.files[p]
    PROVE  Kept'
BY DEF Kept

LEMMA KeptIs ==
    ASSUME Kept
    PROVE  /\ \A p \in Paths : hist.promised[p] <= db.files[p]
           /\ \A p \in Paths : tx.new[p] # Absent => hist.promised[p] = 0
           /\ Mirrored => \A p \in rt.dirty \cap rt.real : hist.promised[p] <= rt.files[p]
           /\ \A f \in Flushers : fl[f] # Idle =>
                 \A p \in fl[f].paths \cap fl[f].real : hist.promised[p] <= fl[f].files[p]
           /\ fl["host"].at \in {"stored", "loaded"} /\ ~hist.orphaned =>
                 \A p \in fl["host"].paths : fl["host"].files[p] <= db.files[p]
BY DEF Kept

\* Only the flush of a host promises, and it promises what it has stored.
LEMMA PromisesChange ==
    ASSUME Typed, HostFlushes, Orderly, [Next]_vars
    PROVE  \/ hist'.promised = hist.promised
           \/ /\ Save("host") /\ tx = NoTx /\ ~hist.orphaned
              /\ \A p \in Paths :
                    \/ p \notin fl["host"].paths /\ hist'.promised[p] = hist.promised[p]
                    \/ p \in fl["host"].paths /\ hist'.promised[p] = fl["host"].files[p]
<1>0. /\ hist \in [raced : BOOLEAN, promised : Contents, orphaned : BOOLEAN,
                   unconfirmed : BOOLEAN, strayed : BOOLEAN]
      /\ hist.promised \in [Paths -> Nat]
    BY DEF Typed, Contents
<1>1. CASE Save("host")
    <2>1. fl["host"] # Idle /\ call.at = "flush"
        BY <1>1, SaveConfirms DEF HostFlushes, Flushers
    <2>2. tx = NoTx
        BY <2>1 DEF Orderly
    <2>3. hist'.promised = [p \in Paths |-> IF ~hist.orphaned /\ p \in fl["host"].paths
                                            THEN fl["host"].files[p] ELSE hist.promised[p]]
        BY <1>0, <1>1 DEF Save
    <2>4. CASE hist.orphaned
        <3>1. hist'.promised = [p \in Paths |-> hist.promised[p]]
            BY <2>3, <2>4
        <3>2. QED
            BY <1>0, <3>1
    <2>5. CASE ~hist.orphaned
        BY <1>1, <2>2, <2>3, <2>5
    <2>6. QED
        BY <2>4, <2>5
<1>2. CASE Save("worker")
    <2>1. hist'.promised = [p \in Paths |-> hist.promised[p]]
        BY <1>0, <1>2 DEF Save
    <2>2. QED
        BY <1>0, <2>1
<1>3. CASE Install \/ \E c \in Callers : Restart(c)
    BY <1>0, <1>3 DEF Install, Restart
<1>4. CASE Drop
    BY <1>4, DropKeeps
<1>5. ASSUME NEW f \in Flushers, Take(f) PROVE hist'.promised = hist.promised
    BY <1>5, TakeKeeps
<1>6. ASSUME NEW f \in Flushers, FlushStep(f), ~Save(f) PROVE hist'.promised = hist.promised
    BY <1>5, <1>6 DEF FlushStep, TurnBack, Store, Load
<1>7. QED
    BY <1>1, <1>2, <1>3, <1>4, <1>6
    DEF Next, CallStep, Flushers, vars, Start, Look, MakeRoot, Seed, Meta, Build,
        Current, Compare, Write, SwitchMode, Return, TimesOut, SkipFlush, HostCommit

LEMMA KeptStep ==
    ASSUME Typed, HostFlushes, Numbered, Orderly, RowsExist, ~hist.strayed, Alone, Kept, [Next]_vars
    PROVE  Kept'
<1>0. /\ \A p \in Paths : /\ db.files[p] \in Nat /\ tx.new[p] \in Nat
                          /\ hist.promised[p] \in Nat
      /\ "host" \in Flushers
      /\ \A f \in Flushers : fl[f] # Idle => fl[f].files \in [Paths -> Nat] /\ fl[f].paths \subseteq Paths
    BY DEF Typed, Sessions, Contents, Flushers, Flushes
<1>1. \A p \in Paths : hist'.promised[p] <= db'.files[p]
    <2>1. CASE hist'.promised = hist.promised
        <3>1. SUFFICES ASSUME NEW p \in Paths PROVE hist.promised[p] <= db'.files[p]
            BY <2>1
        <3>2. CASE db'.files = db.files
            BY <3>2, KeptIs
        <3>3. CASE db'.files = [q \in Paths |-> Row(q)]
            BY <1>0, <3>3, KeptIs DEF Row
        <3>4. ASSUME NEW f \in Flushers, fl[f] # Idle, db'.files = StoredRows(fl[f]),
                     \A q \in fl[f].paths \ fl[f].real : db.files[q] = Absent
              PROVE  hist.promised[p] <= db'.files[p]
            <4>1. CASE p \in fl[f].paths /\ p \notin fl[f].real
                <5>1. hist.promised[p] = 0
                    BY <1>0, <3>4, <4>1, KeptIs DEF Absent
                <5>2. db'.files[p] = fl[f].files[p]
                    BY <3>4, <4>1 DEF StoredRows
                <5>3. QED
                    BY <1>0, <3>4, <5>1, <5>2
            <4>2. CASE p \in fl[f].paths /\ p \in fl[f].real
                <5>1. db'.files[p] = fl[f].files[p] \/ db'.files[p] = db.files[p]
                    BY <3>4 DEF StoredRows
                <5>2. QED
                    BY <3>4, <4>2, <5>1, KeptIs
            <4>3. CASE p \notin fl[f].paths
                BY <3>4, <4>3, KeptIs DEF StoredRows
            <4>4. QED
                BY <4>1, <4>2, <4>3
        <3>5. QED
            BY <3>2, <3>3, <3>4, RowsChange
    <2>2. CASE Save("host") /\ ~hist.orphaned /\ \A p \in Paths :
                    \/ p \notin fl["host"].paths /\ hist'.promised[p] = hist.promised[p]
                    \/ p \in fl["host"].paths /\ hist'.promised[p] = fl["host"].files[p]
        <3>1. db' = db /\ fl["host"].at = "loaded"
            BY <1>0, <2>2, SaveConfirms
        <3>2. QED
            BY <2>2, <3>1, KeptIs
    <2>3. QED
        BY <2>1, <2>2, PromisesChange
<1>2. \A p \in Paths : tx'.new[p] # Absent => hist'.promised[p] = 0
    <2>1. CASE tx'.new = tx.new /\ hist'.promised = hist.promised
        BY <2>1, KeptIs
    <2>2. CASE tx' = NoTx
        BY <2>2, NoTxTyped, NoFilesTyped DEF Absent
    <2>3. CASE SessionGrows
        <3>1. SUFFICES ASSUME NEW p \in Paths, Row(p) = Absent PROVE hist.promised[p] = 0
            BY <2>3, KeptIs DEF SessionGrows
        <3>2. db.files[p] = 0
            BY <3>1 DEF Row, Absent
        <3>3. QED
            BY <1>0, <3>1, <3>2, KeptIs
    <2>4. CASE Save("host") /\ tx = NoTx
        <3>1. tx' = NoTx
            BY <1>0, <2>4, SaveConfirms
        <3>2. QED
            BY <2>2, <3>1
    <2>5. HostCommit => tx' = NoTx
        BY DEF HostCommit
    <2>6. QED
        BY <2>1, <2>2, <2>3, <2>4, <2>5, SessionChanges, PromisesChange
<1>3. Mirrored' => \A p \in rt'.dirty \cap rt'.real : hist'.promised[p] <= rt'.files[p]
    <2>1. SUFFICES ASSUME Mirrored', NEW p \in rt'.dirty \cap rt'.real
                   PROVE  hist'.promised[p] <= rt'.files[p]
        OBVIOUS
    <2>2. ASSUME NEW f \in Flushers, Save(f) PROVE FALSE
        <3>1. Same(Held(f), fl[f]) /\ fl[f] # Idle
            BY <2>2, SaveConfirms DEF Alone
        <3>2. rt'.dirty = {}
            BY <2>2, <3>1, SaveConfirms DEF Same
        <3>3. QED
            BY <2>1, <3>2
    <2>3. ~Install
        <3>1. Install => Building /\ rt' = call.new
            BY DEF Install, Building
        <3>2. QED
            BY <2>1, <3>1 DEF Alone
    <2>4. hist'.promised = hist.promised
        BY <1>0, <2>2, PromisesChange
    <2>5. CASE rt' = rt
        BY <2>1, <2>4, <2>5, KeptIs DEF Mirrored
    <2>6. CASE Edited
        <3>1. Mirrored /\ call # Idle /\ rt'.real = rt.real
              /\ \/ p \in rt.dirty /\ rt'.files[p] = rt.files[p]
                 \/ rt'.files[p] = call.text
            BY <2>1, <2>6 DEF Edited
        <3>2. p \in Paths
            BY <2>1, <3>1 DEF Typed, Mirrors
        <3>3. call.text = count.calls + 1 /\ hist.promised[p] <= count.calls + 1
            BY <3>1, <3>2 DEF Numbered, Old
        <3>4. QED
            BY <2>1, <2>4, <3>1, <3>3, KeptIs
    <2>7. QED
        BY <2>1, <2>2, <2>3, <2>5, <2>6, MirrorChanges
<1>4. ASSUME NEW f \in Flushers, fl'[f] # Idle
      PROVE  \A p \in fl'[f].paths \cap fl'[f].real : hist'.promised[p] <= fl'[f].files[p]
    <2>1. hist'.promised = hist.promised
        <3>1. ASSUME Save("host") PROVE FALSE
            <4>1. fl["host"] # Idle /\ fl'["host"] = Idle /\ (f # "host" => fl'[f] = fl[f])
                BY <1>0, <3>1, SaveConfirms
            <4>2. QED
                BY <1>0, <1>4, <4>1, OneAtATime
        <3>2. QED
            BY <3>1, PromisesChange
    <2>2. CASE fl'[f] = fl[f]
        BY <1>4, <2>1, <2>2, KeptIs
    <2>3. CASE Mirrored /\ fl'[f].paths = rt.dirty /\ fl'[f].files = rt.files /\ fl'[f].real = rt.real
        BY <2>1, <2>3, KeptIs
    <2>4. CASE /\ fl[f] # Idle /\ fl'[f].paths = fl[f].paths /\ fl'[f].files = fl[f].files
               /\ fl'[f].real = fl[f].real
        BY <2>1, <2>4, KeptIs
    <2>5. QED
        BY <1>4, <2>2, <2>3, <2>4, FlushesChange
<1>5. fl'["host"].at \in {"stored", "loaded"} /\ ~hist'.orphaned =>
          \A p \in fl'["host"].paths : fl'["host"].files[p] <= db'.files[p]
    <2> DEFINE s == fl["host"]
    <2>1. SUFFICES ASSUME fl'["host"].at \in {"stored", "loaded"}, ~hist'.orphaned
                   PROVE  \A p \in fl'["host"].paths : fl'["host"].files[p] <= db'.files[p]
        OBVIOUS
    <2>2. fl'["host"] # Idle /\ ~hist.orphaned
        BY <1>0, <2>1, OrphanedChanges DEF Idle
    <2>3. CASE fl'["host"] = s
        <3>1. s # Idle /\ call.at = "flush"
            BY <1>0, <2>2, <2>3 DEF HostFlushes
        <3>2. ~HostCommit
            BY <3>1 DEF HostCommit, Idle
        <3>3. ASSUME NEW g \in Flushers, Store(g), fl[g] # Idle,
                     fl' = [fl EXCEPT ![g].at = "stored"], fl[g].at = "taken"
              PROVE  FALSE
            <4>1. g = "host" /\ DOMAIN fl = Flushers /\ s \in Flushes
                BY <1>0, <3>1, <3>3, OneAtATime DEF Typed
            <4>2. fl'["host"].at = "stored"
                BY <1>0, <3>3, <4>1 DEF Flushes
            <4>3. QED
                BY <2>3, <3>3, <4>1, <4>2
        <3>4. db'.files = db.files
            BY <3>2, <3>3, RowsChange
        <3>5. QED
            BY <2>1, <2>2, <2>3, <3>4, KeptIs
    <2>4. CASE /\ s # Idle /\ s \in Flushes /\ fl'["host"].paths = s.paths
               /\ fl'["host"].files = s.files /\ s.at = "taken" /\ db'.files = StoredRows(s)
        <3>1. call.at = "flush"
            BY <2>4 DEF HostFlushes
        <3>2. ~tx.shown
            BY <3>1, NoTxTyped DEF Orderly
        <3>3. s.real \subseteq Present
            BY <1>0, <2>2, <2>4, RowsExistIs
        <3>4. \A p \in s.real : db.files[p] # Absent
            BY <3>2, <3>3 DEF Present
        <3>5. \A p \in s.paths : db'.files[p] = s.files[p] /\ s.files[p] \in Nat
            BY <1>0, <2>4, <3>4 DEF StoredRows
        <3>6. QED
            BY <2>4, <3>5
    <2>5. CASE /\ fl'["host"].paths = s.paths /\ fl'["host"].files = s.files
               /\ s.at = "stored" /\ db' = db
        BY <2>2, <2>5, KeptIs
    <2> HIDE DEF s
    <2>6. QED
        BY <1>0, <2>1, <2>2, <2>3, <2>4, <2>5, FlushesChange DEF s
<1> HIDE DEF Mirrored
<1>6. QED
    BY <1>1, <1>2, <1>3, <1>4, <1>5, KeptNext

\* Where hosts commit after each call and ensure comes first, what the flush of
\* a host has stored and confirmed stays in the database, through refreshes,
\* other flushes and restarts, as long as no flush has run without the lock: that
\* happens where a refresh drops the lock object of the local store from under the
\* worker (checkpoint.py, service_ops/bootstrap.py, workspace_state_store.py).
THEOREM FlushedWorkIsDurable ==
    ASSUME Disciplined
    PROVE  Spec => []FlushIsDurable
<1> DEFINE Guarded == hist.strayed \/ (Alone /\ Kept)
<1>1. Init => RowsExist /\ Guarded
    <2>1. SUFFICES ASSUME Init PROVE RowsExist /\ Alone /\ Kept
        OBVIOUS
    <2>2. ~Mirrored /\ ~Building /\ \A f \in Flushers : fl[f] = Idle /\ fl[f].at = "idle"
        BY <2>1 DEF Init, Mirrored, Building, Idle
    <2>3. /\ \A p \in Paths : hist.promised[p] = 0 /\ db.files[p] = 0
          /\ "host" \in Flushers
        BY <2>1, NoFilesTyped DEF Init, Flushers
    <2>4. QED
        BY <2>2, <2>3 DEF RowsExist, Alone, Kept
<1>2. Typed /\ HostFlushes /\ Numbered /\ Orderly /\ RowsExist /\ Guarded
      /\ [Next]_vars => RowsExist' /\ Guarded'
    <2>1. SUFFICES ASSUME Typed, HostFlushes, Numbered, Orderly, RowsExist, Guarded, [Next]_vars
                   PROVE  RowsExist' /\ Guarded'
        OBVIOUS
    <2>2. RowsExist'
        BY <2>1, RowsExistStep
    <2>3. CASE hist.strayed
        BY <2>1, <2>2, <2>3, StrayedStays
    <2>4. CASE ~hist.strayed
        BY <2>1, <2>2, <2>4, AloneStep, KeptStep
    <2>5. QED
        BY <2>3, <2>4
<1>3. Guarded => FlushIsDurable
    BY DEF Kept, FlushIsDurable, PromisesAreKept
<1> HIDE DEF Guarded
<1>4. QED
    BY <1>1, <1>2, <1>3, NumberedAlways, AgreeingAlways, PTL DEF Spec
=============================================================================
