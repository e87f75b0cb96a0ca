---------------------------- MODULE TreeCommands ----------------------------
(***************************************************************************)
(* What one session makes of the tree with its commands: paths             *)
(* (pathing/resolution.py), the walks behind find and grep                 *)
(* (runtime/search.py), cd, touch, mkdir, cp, rm, cat, grep -l and         *)
(* redirects (runtime/executor.py, runtime/fs_commands.py), and commands   *)
(* that are given many paths: find -exec, find | xargs.                    *)
(*                                                                         *)
(* The commands of a workspace run one at a time, each operand after the   *)
(* other: a step here is one operand. A path is the sequence of its names; *)
(* siblings have different names (mv, which can break that, is in Mirror). *)
(* Texts are sequences of words, and a pattern matches the word that it is.*)
(* Names have no glob characters. What cat and find -exec print is told    *)
(* apart by the paths it comes from.                                       *)
(***************************************************************************)
EXTENDS Integers, SequencesExt

CONSTANTS
    Names,      \* the names of nodes, with "." and "..": the parts of paths
    NameOrder,  \* the names, in their order
    Words,      \* the words that texts are made of
    Trees,      \* the trees considered at first
    Commands,   \* the commands considered
    MaxCalls    \* bound: commands of the session

VARIABLES
    tree,    \* tree[path]: the node's type and text
    cwd,     \* the session's directory
    job,     \* the command that runs: its operands that are left, its output
    answer,  \* the last answer, with history: the tree before, what was done
    calls    \* commands so far

vars == <<tree, cwd, job, answer, calls>>

Root == <<>>
Workspace == <<"ws">>       \* VFS_ROOT
Nowhere == <<"/">>          \* no name has a slash
Dots == {".", ".."}
Idle == [at |-> "idle"]
None == [exit |-> -1]
NoFind == [via |-> "args"]
Dir == [type |-> "dir", text |-> <<>>]
File(text) == [type |-> "file", text |-> text]

TypeOf(t, path) == IF path \in DOMAIN t THEN t[path].type ELSE "none"
IsUnder(path, root) == IsPrefix(root, path)

Paths == Seq(Names)
Nodes == [type : {"dir", "file"}, text : Seq(Words)]

\* Every node is in a directory, under a name that is no dots, and the workspace
\* is a directory.
IsTree(t) ==
    /\ IsFiniteSet(DOMAIN t) /\ DOMAIN t \subseteq Paths
    /\ t \in [DOMAIN t -> Nodes]
    /\ \A path \in DOMAIN t \ {Root} : TypeOf(t, Front(path)) = "dir" /\ Last(path) \notin Dots
    /\ TypeOf(t, Root) = "dir" /\ TypeOf(t, Workspace) = "dir"

\* A path as it is typed is absolute or not, and has parts.
TypedPaths == [abs : BOOLEAN, parts : Seq(Names)]

\* The commands take paths, or what find makes of its root; mkdir_p and grep_l are
\* mkdir -p and grep -l.
IsCommand(cmd) ==
    /\ cmd.name \in {"cd", "touch", "mkdir", "mkdir_p", "cp", "rm", "cat", "grep_l", "echo"}
    /\ cmd.args \in Seq(TypedPaths)
    /\ cmd.name = "cd" => cmd.args # <<>>
    /\ cmd.name = "echo" => cmd.op \in {">", ">>", ">|"} /\ cmd.text \in Words
    /\ \/ cmd.find = NoFind
       \/ /\ cmd.name \notin {"cd", "cp", "echo"}
          /\ cmd.find.via \in {"exec", "xargs"} /\ cmd.find.root \in TypedPaths
          /\ cmd.find.names \subseteq Names /\ cmd.find.type \in {"any", "file", "dir"}

ASSUME TreeAssumption ==
    /\ "ws" \in Names /\ "/" \notin Names
    /\ NameOrder \in Seq(Names) /\ IsInjective(NameOrder) /\ Names \ Dots \subseteq ToSet(NameOrder)
    /\ \A t \in Trees : IsTree(t)
    /\ \A cmd \in Commands : IsCommand(cmd)

-----------------------------------------------------------------------------
(* Paths.                                                                  *)

Typed(path) == [abs |-> TRUE, parts |-> path]

Walk(t, at, part) ==
    CASE at = Nowhere -> Nowhere
      [] at # Nowhere /\ part = "." -> at
      [] at # Nowhere /\ part = ".." -> IF at = Root THEN Root ELSE Front(at)
      [] OTHER -> IF Append(at, part) \in DOMAIN t THEN Append(at, part) ELSE Nowhere

Resolve(t, wd, raw) ==
    IF ~raw.abs /\ raw.parts = <<>> THEN Nowhere
    ELSE FoldLeft(LAMBDA at, part : Walk(t, at, part),
                  IF raw.abs THEN Root ELSE wd, raw.parts)

\* resolve_parent_for_create: a parent that is named must be a directory.
ParentFor(t, wd, raw) ==
    LET parent == Resolve(t, wd, [raw EXCEPT !.parts = Front(@)])
    IN IF raw.parts = <<>> THEN Nowhere
       ELSE IF Len(raw.parts) = 1 THEN IF raw.abs THEN Root ELSE wd
       ELSE IF TypeOf(t, parent) = "dir" THEN parent ELSE Nowhere

\* resolve_target_path_for_write, without a node.
NewTarget(t, wd, raw) ==
    LET parent == ParentFor(t, wd, raw)
    IN IF parent = Nowhere THEN Nowhere ELSE Append(parent, Last(raw.parts))
WriteTarget(t, wd, raw) ==
    LET node == Resolve(t, wd, raw)
    IN IF node # Nowhere THEN node ELSE NewTarget(t, wd, raw)

\* normalize_virtual_path: "." and ".." stay what they are, and "" is no path.
Normalized(wd, raw) ==
    IF ~raw.abs /\ raw.parts = <<>> THEN Nowhere
    ELSE IF raw.abs THEN raw.parts ELSE wd \o raw.parts

-----------------------------------------------------------------------------
(* Walks.                                                                  *)

\* SelectSeq, of the members of a set: a definition that can be reasoned about.
Only(s, S) ==
    LET only[i \in 0..Len(s)] ==
            IF i = 0 THEN <<>> ELSE IF s[i] \in S THEN Append(only[i - 1], s[i]) ELSE only[i - 1]
    IN only[Len(s)]

Under(t, node) == {path \in DOMAIN t : IsUnder(path, node)}
Children(t, node) ==
    LET names == Only(NameOrder, {n \in Names : Append(node, n) \in DOMAIN t})
    IN [i \in DOMAIN names |-> Append(node, names[i])]
OfType(t, paths, type) == Only(paths, {p \in DOMAIN t : t[p].type = type})

\* find_paths: a directory before its children, these by name.
FindPaths(t, node) ==
    LET found[p \in Under(t, node)] ==
            LET below == Children(t, p)
            IN <<p>> \o FlattenSeq([i \in DOMAIN below |-> found[below[i]]])
    IN found[node]

\* Mutant: the stack is emptied only once.
CollectFilesShallow(t, node) ==
    IF t[node].type = "file" THEN <<node>> ELSE OfType(t, Children(t, node), "file")

\* collect_files: the files of a directory, then its directories from a stack.
CollectFiles(t, node) ==
    LET files[p \in Under(t, node)] ==
            LET dirs == Reverse(OfType(t, Children(t, p), "dir"))
            IN OfType(t, Children(t, p), "file")
               \o FlattenSeq([i \in DOMAIN dirs |-> files[dirs[i]]])
    IN IF t[node].type = "file" THEN <<node>> ELSE files[node]

\* _resolve_find_matches: any of the names, when there are some, and the type.
FindMatches(t, node, find) ==
    Only(FindPaths(t, node),
         {p \in DOMAIN t : /\ find.names # {} => p # Root /\ Last(p) \in find.names
                           /\ find.type # "any" => t[p].type = find.type})

\* search_matching_file_paths.
Hit(text, pattern) == pattern \in ToSet(text)
Matching(t, node, pattern) ==
    Only(CollectFiles(t, node), {p \in DOMAIN t : Hit(t[p].text, pattern)})

\* detect_ambiguous_create_target: a new file of the top level, with the name
\* of exactly one other file.
Namesakes(t, path) ==
    {p \in Under(t, Workspace) : p # path /\ Last(p) = Last(path) /\ t[p].type = "file"}
Ambiguous(t, wd, raw) ==
    LET path == NewTarget(t, wd, raw)
    IN /\ Resolve(t, wd, raw) = Nowhere /\ path # Nowhere
       /\ Front(path) = Workspace
       /\ Cardinality(Namesakes(t, path)) = 1

-----------------------------------------------------------------------------
(* One operand of a command: whether it succeeds, its output, and the tree.*)

Refuse(t) == [ok |-> FALSE, out |-> <<>>, tree |-> t]
Says(out, t) == [ok |-> TRUE, out |-> out, tree |-> t]
With(t, path, node) == [p \in DOMAIN t \cup {path} |-> IF p = path THEN node ELSE t[p]]

MayWrite(path) == path # Nowhere /\ IsUnder(path, Workspace)

\* Mutant: a file that is there gets the new text.
CreateFileOver(t, path, text) == With(t, path, File(text))

\* get_or_create_child_file: a node that has the name is left as it is.
CreateFile(t, path, text) == IF path \in DOMAIN t THEN t ELSE With(t, path, File(text))

Touch(t, wd, raw) ==
    LET path == WriteTarget(t, wd, raw)
    IN IF ~MayWrite(path) \/ Ambiguous(t, wd, raw) \/ TypeOf(t, path) = "dir" THEN Refuse(t)
       ELSE Says(<<path>>, CreateFile(t, path, <<>>))

Mkdir(t, wd, raw) ==
    LET path == NewTarget(t, wd, raw)
    IN IF ~MayWrite(path) \/ Resolve(t, wd, raw) # Nowhere THEN Refuse(t)
       ELSE Says(<<path>>, With(t, path, Dir))

\* mkdir_parents, part by part: what it has made before it meets a file stays.
\* It reads each parent from the repository (must_get_node), which with the Redis
\* store raises for a directory that has no row yet; here every directory has one,
\* and a refusal that the code adds is left out.
MakePart(made, part) ==
    LET next == Append(made.at, part)
    IN CASE ~made.ok \/ part = "." -> made
         [] made.ok /\ part = ".." -> [made EXCEPT !.at = IF @ = Root THEN Root ELSE Front(@)]
         [] OTHER ->
              [ok |-> TypeOf(made.tree, next) # "file", at |-> next,
               tree |-> IF TypeOf(made.tree, next) = "none" THEN With(made.tree, next, Dir)
                        ELSE made.tree]
MakeParents(t, wd, raw) ==
    FoldLeft(MakePart, [ok |-> TRUE, at |-> IF raw.abs THEN Root ELSE wd, tree |-> t], raw.parts)

\* mkdir -p: the check is on the path before its ".." are followed.
MkdirParents(t, wd, raw) ==
    LET node == Resolve(t, wd, raw)
        made == MakeParents(t, wd, raw)
    IN IF ~MayWrite(Normalized(wd, raw)) \/ TypeOf(t, node) = "file" THEN Refuse(t)
       ELSE IF node # Nowhere THEN Says(<<node>>, t)
       ELSE IF made.ok THEN Says(<<made.at>>, made.tree) ELSE Refuse(made.tree)

\* cp: into a directory under the name of the source. A file that is there
\* under that name is left as it is, and the answer is that it was copied.
Copy(t, wd, source, target) ==
    LET from == Resolve(t, wd, source)
        to == Resolve(t, wd, target)
        into == IF TypeOf(t, to) = "dir" THEN Typed(Append(to, Last(from))) ELSE target
        path == WriteTarget(t, wd, into)
    IN IF TypeOf(t, from) # "file" \/ TypeOf(t, to) = "file" \/ ~MayWrite(path)
          \/ Ambiguous(t, wd, into)
       THEN Refuse(t)
       ELSE Says(<<path>>, CreateFile(t, path, t[from].text))

\* Mutant: rm also takes directories.
RemoveAny(t, wd, raw) ==
    LET node == Resolve(t, wd, raw)
    IN IF ~MayWrite(node) THEN Refuse(t)
       ELSE Says(<<node>>, [p \in DOMAIN t \ {node} |-> t[p]])

RemoveFile(t, wd, raw) ==
    LET node == Resolve(t, wd, raw)
    IN IF TypeOf(t, node) # "file" \/ ~MayWrite(node) THEN Refuse(t)
       ELSE Says(<<node>>, [p \in DOMAIN t \ {node} |-> t[p]])

Cat(t, wd, raw) ==
    LET node == Resolve(t, wd, raw)
    IN IF TypeOf(t, node) # "file" THEN Refuse(t)
       ELSE Says(IF t[node].text = <<>> THEN <<>> ELSE <<node>>, t)

GrepList(t, wd, raw, pattern) ==
    LET node == Resolve(t, wd, raw)
    IN IF node = Nowhere THEN Refuse(t) ELSE Says(Matching(t, node, pattern), t)

\* apply_redirect, of the output of echo. >> puts it right behind the old text.
Redirect(t, wd, raw, op, output) ==
    LET path == WriteTarget(t, wd, raw)
        old == IF path \in DOMAIN t THEN t[path].text ELSE <<>>
    IN IF TypeOf(t, Resolve(t, wd, raw)) = "dir" \/ ~MayWrite(path) \/ Ambiguous(t, wd, raw)
          \/ (op = ">" /\ path \in DOMAIN t)
       THEN Refuse(t)
       ELSE Says(<<>>, With(t, path, File(IF op = ">>" THEN Append(old, output) ELSE <<output>>)))

Do(t, wd, cmd, operand) ==
    CASE cmd.name = "touch" -> Touch(t, wd, operand[1])
      [] cmd.name = "mkdir" -> Mkdir(t, wd, operand[1])
      [] cmd.name = "mkdir_p" -> MkdirParents(t, wd, operand[1])
      [] cmd.name = "cp" -> Copy(t, wd, operand[1], operand[2])
      [] cmd.name = "rm" -> RemoveFile(t, wd, operand[1])
      [] cmd.name = "cat" -> Cat(t, wd, operand[1])
      [] cmd.name = "grep_l" -> GrepList(t, wd, operand[1], cmd.text)
      [] cmd.name = "echo" -> Redirect(t, wd, operand[1], cmd.op, cmd.text)

-----------------------------------------------------------------------------
(* A command.                                                              *)

Init ==
    /\ tree \in Trees
    /\ cwd = Workspace
    /\ job = Idle
    /\ answer = None
    /\ calls = 0

\* How many operands exec_rm takes, and exec_cp.
ArityOk(cmd, args) ==
    /\ cmd.name = "rm" => Len(args) = 1
    /\ cmd.name = "cp" => Len(args) = 2
\* The operands of cp go together.
Operands(cmd, args) ==
    IF cmd.name = "cp" THEN <<args>> ELSE [i \in DOMAIN args |-> <<args[i]>>]

Answer(cmd, exit, out, done, before) ==
    answer' = [cmd |-> cmd, exit |-> exit, out |-> out, done |-> done, before |-> before]

ChangeDir ==
    /\ job = Idle /\ calls < MaxCalls
    /\ \E cmd \in Commands :
          /\ cmd.name = "cd"
          /\ LET node == Resolve(tree, cwd, cmd.args[1])
             IN IF TypeOf(tree, node) = "dir"
                THEN cwd' = node /\ Answer(cmd, 0, <<>>, <<>>, tree)
                ELSE UNCHANGED cwd /\ Answer(cmd, 1, <<>>, <<>>, tree)
    /\ calls' = calls + 1
    /\ UNCHANGED <<tree, job>>

\* What find passes on: nothing when its root is missing.
Found(cmd) ==
    LET node == Resolve(tree, cwd, cmd.find.root)
        paths == FindMatches(tree, node, cmd.find)
    IN IF node = Nowhere THEN <<>> ELSE [i \in DOMAIN paths |-> Typed(paths[i])]

\* Without a match find -exec succeeds, and find alone, before xargs, fails.
Begin ==
    /\ job = Idle /\ calls < MaxCalls
    /\ \E cmd \in Commands :
          /\ cmd.name # "cd"
          /\ LET args == IF cmd.find = NoFind THEN cmd.args ELSE Found(cmd)
                 none == /\ cmd.find # NoFind
                         /\ cmd.find.via = "xargs" \/ Resolve(tree, cwd, cmd.find.root) = Nowhere
             IN IF \/ args = <<>> /\ none
                   \/ cmd.find.via # "exec" /\ ~ArityOk(cmd, args)
                THEN Answer(cmd, 1, <<>>, <<>>, tree) /\ UNCHANGED job
                ELSE /\ job' = [cmd |-> cmd, left |-> Operands(cmd, args), out |-> <<>>,
                                done |-> <<>>, before |-> tree]
                     /\ answer' = None
    /\ calls' = calls + 1
    /\ UNCHANGED <<tree, cwd>>

Running == job # Idle /\ job.left # <<>>

\* Mutant: find -exec goes on after any failure.
GoesOnAnyway(cmd, result) == cmd.find.via = "exec" \/ result.ok

\* _run_find_exec goes on after a grep, and after a command that printed
\* something; a list of operands after one that succeeded.
GoesOn(cmd, result) ==
    IF cmd.find.via = "exec"
    THEN cmd.name = "grep_l" \/ (result.ok /\ result.out # <<>>)
    ELSE result.ok

\* The next operand. What was done stays done when the command stops here.
Operand ==
    /\ Running
    /\ LET result == Do(tree, cwd, job.cmd, Head(job.left))
           done == IF result.ok THEN Append(job.done, Head(job.left)) ELSE job.done
       IN /\ tree' = result.tree
          /\ IF GoesOn(job.cmd, result)
             THEN /\ job' = [job EXCEPT !.left = Tail(@), !.out = @ \o result.out, !.done = done]
                  /\ UNCHANGED answer
             ELSE /\ job' = Idle
                  /\ Answer(job.cmd, IF result.ok THEN 0 ELSE 1, result.out, done, job.before)
    /\ UNCHANGED <<cwd, calls>>

\* The last operand was the last: what find -exec and grep print has no line
\* twice, and a grep that found nothing fails.
Finish ==
    LET grep == job.cmd.name = "grep_l"
        exec == job.cmd.find.via = "exec"
        lines == FoldLeft(LAMBDA seen, l : IF l \in ToSet(seen) THEN seen ELSE Append(seen, l),
                          <<>>, job.out)
    IN /\ job # Idle /\ job.left = <<>>
       /\ job' = Idle
       /\ Answer(job.cmd, IF grep /\ ~exec /\ job.out = <<>> THEN 1 ELSE 0,
                 IF grep \/ exec THEN lines ELSE job.out, job.done, job.before)
       /\ UNCHANGED <<tree, cwd, calls>>

Next == ChangeDir \/ Begin \/ Operand \/ Finish

Spec == Init /\ [][Next]_vars

-----------------------------------------------------------------------------
(* Properties.                                                             *)

\* The tree is one, whatever the commands do to it, and the session is in a
\* directory of it: what is made is put into a directory, and none goes.
TypeOK == IsTree(tree) /\ TypeOf(tree, cwd) = "dir"

At(raw) == Resolve(tree, cwd, raw)
Answered == answer # None /\ answer.exit = 0
Args == IF answer.cmd.find = NoFind THEN Operands(answer.cmd, answer.cmd.args) ELSE answer.done

\* Where cp puts what it copies.
CopyOf(args) ==
    LET to == Resolve(answer.before, cwd, args[2])
    IN IF TypeOf(answer.before, to) = "dir"
       THEN Append(to, Last(Resolve(answer.before, cwd, args[1]))) ELSE At(args[2])

\* Where find has searched.
Searched == Resolve(answer.before, cwd, answer.cmd.find.root)

\* A command that answers 0 has done to every operand what it says, also in a
\* list of operands of which some exist, some name the same node in two ways,
\* and some are made by those before: files and directories are there, removed
\* files are not, a copy has the text, and find -exec and xargs have passed on
\* every match. Not claimed: a cp into a directory that has the name (it keeps
\* what is there), and find -exec of cat (it stops at an empty file).
AnswersAreTrue ==
    Answered =>
        /\ answer.cmd.name = "touch" => \A i \in DOMAIN Args : TypeOf(tree, At(Args[i][1])) = "file"
        /\ answer.cmd.name \in {"mkdir", "mkdir_p"} =>
              \A i \in DOMAIN Args : TypeOf(tree, At(Args[i][1])) = "dir"
        /\ answer.cmd.name = "rm" => \A i \in DOMAIN Args : At(Args[i][1]) = Nowhere
        /\ answer.cmd.name = "cp" =>
              \A i \in DOMAIN Args :
                 LET copy == CopyOf(Args[i])
                 IN \/ copy \in DOMAIN answer.before
                    \/ /\ TypeOf(tree, copy) = "file"
                       /\ tree[copy].text = answer.before[Resolve(answer.before, cwd, Args[i][1])].text
        /\ (answer.cmd.find # NoFind /\ answer.cmd.name # "cat" /\ Searched # Nowhere) =>
              Len(answer.done) = Len(FindMatches(answer.before, Searched, answer.cmd.find))

\* Climbing: a typed path with ".." below the workspace.
Climbs(raw) == ".." \in ToSet(raw.parts)

\* A step changes nothing that its operand does not name: a file goes only when
\* rm names it, a text changes only by a redirect, which keeps it unless it is
\* >|, and what is new is in the workspace. Not claimed: the last for mkdir -p
\* of a path with "..", which is checked before it is followed.
OnlyAsAsked ==
    [][LET operand == Head(job.left)
           named == Resolve(tree, cwd, operand[1])
       IN /\ \A p \in DOMAIN tree \ DOMAIN tree' : job.cmd.name = "rm" /\ p = named
          /\ \A p \in DOMAIN tree \cap DOMAIN tree' :
                tree'[p] # tree[p] =>
                    /\ job.cmd.name = "echo" /\ p = named /\ tree[p].type = "file"
                    /\ job.cmd.op # ">"
                    /\ job.cmd.op = ">>" => IsPrefix(tree[p].text, tree'[p].text)
          /\ \A p \in DOMAIN tree' \ DOMAIN tree :
                \/ IsUnder(p, Workspace)
                \/ job.cmd.name = "mkdir_p" /\ Climbs(operand[1])]_tree

\* The walks agree: find meets every node below its root once, parents first;
\* the stack of grep meets the same files; find -exec grep -l prints what
\* grep -l prints; and every path that they print resolves to its node, from
\* wherever the session is.
WalksAgree ==
    /\ \A node \in DOMAIN tree :
          LET found == FindPaths(tree, node)
              files == CollectFiles(tree, node)
          IN /\ ToSet(found) = Under(tree, node) /\ Len(found) = Cardinality(ToSet(found))
             /\ \A i, j \in DOMAIN found : (IsPrefix(found[i], found[j]) /\ i # j) => i < j
             /\ ToSet(files) = ToSet(OfType(tree, found, "file"))
             /\ Len(files) = Cardinality(ToSet(files))
             /\ Resolve(tree, cwd, Typed(node)) = node
    /\ Answered /\ answer.cmd.name = "grep_l" /\ answer.cmd.find # NoFind =>
          LET root == Resolve(tree, cwd, answer.cmd.find.root)
              all == ToSet(Matching(tree, root, answer.cmd.text))
              rootPasses == answer.cmd.find.type = "dir" => TypeOf(tree, root) = "dir"
          IN /\ ToSet(answer.out) \subseteq all
             /\ (answer.cmd.find.names = {} /\ rootPasses) => ToSet(answer.out) = all
=============================================================================
