---------------------------- MODULE MCCommandLine ----------------------------
(* Lines of up to three pieces. Every piece is at most two steps away from a *)
(* plain command: a strange word, another input, another redirect or tail.   *)
EXTENDS CommandLine

Bare(unit) == [quote |-> "", units |-> <<unit>>]
Quoted(quote, units) == [quote |-> quote, units |-> units]
Old == Bare("old")
New == Bare("new")

Basic == [stages |-> << <<Bare("cat"), Old>> >>, to |-> NoFile, body |-> <<>>,
          here |-> <<>>, discard |-> FALSE, merge |-> FALSE, orElse |-> <<>>]

StrangeWords ==
    {Quoted("'", <<"a", " ", unit, " ", "b">>) :
        unit \in {";", "&&", "|", ">", "||", "<", "$(", "bq", "2>null", "<<", "\""}}
    \cup {Quoted("'", <<unit>>) : unit \in {";", "&&", "|", ">|", "2>null", "\\"}}
    \cup {Quoted("\"", units) : units \in {<<>>, <<"'", ";">>, <<">">>}}
    \cup {Quoted("\\", <<unit, "a">>) : unit \in {";", "|", " ", "'"}}
    \cup {Quoted("\\", <<unit>>) : unit \in {";", "|"}}
Echo(word) == << <<Bare("echo"), word>> >>
Piped == << <<Bare("cat"), Old>>, <<Bare("grep"), Bare("a")>>, <<Bare("wc")>> >>

Target_(op, path) == [op |-> op, path |-> path, force |-> FALSE]
Targets ==
    {Target_(op, path) : op \in Redirects, path \in {Old, New}}
    \cup {Target_(">", path) : path \in {Bare("dir"), Bare("out"), Quoted("'", <<"n", " ", "w">>)}}
    \cup {[op |-> ">", path |-> Old, force |-> TRUE]}

Bodies == {<< <<"a">> >>, << <<"a", " ", "'", "b">>, <<>>, <<";", "&&">> >>}
          \cup {<< <<"a", " ", unit, " ", "b">> >> : unit \in {"||", "<", "2>null"}}
Heres == {<<Bare("a")>>, <<Quoted("'", <<"a", " ", "b">>)>>, <<Quoted("'", <<"a", ";", "b">>)>>}
Fallback == {<<"true">>, <<":">>, <<"help">>, <<"false">>}

Inputs(set) == set \cup UNION {{[p EXCEPT !.body = b] : b \in Bodies} : p \in set}
                   \cup UNION {{[p EXCEPT !.here = h] : h \in Heres} : p \in set}
Tos(set) == set \cup UNION {{[p EXCEPT !.to = to] : to \in Targets} : p \in set}
Stages(set) == set \cup UNION {{[p EXCEPT !.stages = Echo(w)] : w \in StrangeWords} : p \in set}
                   \cup {[p EXCEPT !.stages = Piped] : p \in set}
Ends(set) == set \cup UNION {{[p EXCEPT !.orElse = f] : f \in Fallback} : p \in set}
                 \cup {[p EXCEPT !.discard = TRUE] : p \in set}
                 \cup {[p EXCEPT !.merge = TRUE] : p \in set}

Rich == Stages(Inputs(Tos({Basic}))) \cup Ends(Tos({Basic}) \cup Stages({Basic}) \cup Inputs({Basic}))
Some == {Basic, [Basic EXCEPT !.stages = Piped, !.to = Target_(">", New)],
         [Basic EXCEPT !.to = Target_(">>", New), !.orElse = <<"true">>],
         [Basic EXCEPT !.stages = Echo(Quoted("'", <<"a", ";", "b">>))],
         [Basic EXCEPT !.body = << <<"a">> >>, !.to = Target_(">|", Old)]}
Ops == {";", "&&"}
With(op, piece) == piece @@ [op |-> op]

MCLines ==
    {<<With(";", p)>> : p \in Rich}
    \cup {<<With(";", p), With(op, q)>> : p \in Some, q \in Stages(Tos({Basic})) \cup Ends({Basic}) \cup Inputs({Basic}), op \in Ops}
    \cup {<<With(";", p), With(op1, q), With(op2, r)>> : p, q, r \in Some, op1, op2 \in Ops}
MCExisting == {<<"old">>}
MCDirectories == {<<"dir">>}
MCRefused == {<<"out">>}
=============================================================================
