--------------------------- MODULE MCTreeCommands ---------------------------
(* Trees of up to five nodes below the workspace, with the names a and b at  *)
(* two levels, and commands on paths typed in all ways.                      *)
EXTENDS TreeCommands

MCNameOrder == <<"a", "b", "c", "ws">>
MCNames == {"a", "b", "c", "ws", ".", ".."}
X == File(<<"x">>)
XY == File(<<"y", "x">>)
Empty == File(<<>>)

\* The ways to fill a directory: what is below it, path by path.
At2(parent, name, nodes) == {<<>>} \cup {Append(parent, name) :> node : node \in nodes}
Below(parent) == {s @@ t : s \in At2(parent, "a", {X, Dir}), t \in At2(parent, "b", {XY, Empty})}
A == <<"ws", "a">>
B == <<"ws", "b">>
MCTrees ==
    {(Root :> Dir) @@ (Workspace :> Dir) @@ s @@ t :
        s \in {<<>>, A :> XY} \cup {(A :> Dir) @@ b : b \in Below(A)},
        t \in {<<>>, B :> Empty, B :> Dir, (B :> Dir) @@ (Append(B, "a") :> X)}}

Abs(parts) == [abs |-> TRUE, parts |-> <<"ws">> \o parts]
Rel(parts) == [abs |-> FALSE, parts |-> parts]
Cmd(name, args) == [name |-> name, args |-> args, find |-> NoFind]

Few == {Abs(<<"a">>), Rel(<<"b">>), Rel(<<"a", "b">>), Rel(<<"..", "c">>), Rel(<<"a", "..", "b">>)}
Pairs == {<<Rel(<<"c">>), Rel(<<"a", "c">>)>>, <<Abs(<<"b", "b">>), Rel(<<"b", ".", "b">>)>>}
Finds ==
    [via : {"exec", "xargs"}, root : {Rel(<<".">>), Abs(<<"a">>)}, names : {{}, {"a"}},
     type : {"any", "file", "dir"}]

MCCommands ==
    {Cmd("cd", <<raw>>) : raw \in {Rel(<<"a">>), Rel(<<"..">>), Abs(<<"b">>)}}
    \cup {Cmd(name, <<raw>>) : name \in {"touch", "mkdir", "rm"}, raw \in Few}
    \cup {Cmd(name, pair) : name \in {"touch", "mkdir"}, pair \in Pairs}
    \cup {Cmd("mkdir_p", <<raw>>) : raw \in {Rel(<<"a", "b", "c">>), Rel(<<"..", "c">>),
                                           Rel(<<"c", "..", "b">>), Rel(<<>>)}}
    \cup {Cmd("cp", args) : args \in {<<Rel(<<"a", "a">>), Abs(<<"b">>)>>, <<Rel(<<"a", "b">>), Abs(<<"c">>)>>,
                                      <<Abs(<<"b">>), Rel(<<"a">>)>>, <<Abs(<<"a">>), Rel(<<".">>)>>}}
    \cup {Cmd("echo", <<raw>>) @@ [op |-> op, text |-> "x"] :
            op \in {">", ">>", ">|"}, raw \in {Abs(<<"a">>), Rel(<<"b">>), Rel(<<"a", "..", "a", "b">>)}}
    \cup {Cmd("grep_l", <<Rel(<<".">>), Abs(<<"a">>)>>) @@ [text |-> "x"]}
    \cup {[name |-> name, args |-> <<>>, find |-> find, text |-> "x"] :
            name \in {"cat", "rm", "grep_l"}, find \in Finds}
=============================================================================
