---------------------------- MODULE CommandLine ----------------------------
(***************************************************************************)
(* How a command line is read (command_parser.py) and run                  *)
(* (runtime/executor.py: chain, pipeline, fallback, redirect).             *)
(*                                                                         *)
(* The parser works on text, in passes that each have their own idea of    *)
(* quoting: the chain is cut, the shell-compatible tails are taken off,    *)
(* a here-string, then a heredoc are taken out, and what is left goes      *)
(* through shlex. Here a text is a sequence of units: an operator, a quote,*)
(* a backslash, a blank, a newline or a fragment of a word. Two operators  *)
(* are never next to each other, so that units and characters are cut the  *)
(* same way.                                                               *)
(*                                                                         *)
(* A line is given as what it says, a sequence of pieces. Text renders it, *)
(* the parser reads the text, and Meant is what it should have read.       *)
(***************************************************************************)
EXTENDS Integers, SequencesExt

CONSTANTS
    CommandLines, \* the lines considered
    Existing,     \* files that exist at first
    Directories,  \* paths of directories
    Refused       \* paths outside /workspace, or that are ambiguous

VARIABLES
    line,    \* the line of this execution
    todo,    \* pieces that are left
    run,     \* the piece that runs
    exit,    \* last_exit
    files,   \* files[path]: which pieces its content is from, in order
    trace    \* history: what became of each piece

vars == <<line, todo, run, exit, files, trace>>

Space == {" ", "\n"}
Punctuation == {"|", "||", ">", ">>", ">|", "&>", "&&", "2>&1"}
Redirects == {">", ">>", ">|"}
Substitutions == {"$(", "bq"}     \* bq: a backquote
NoFile == [op |-> ""]
Idle == [at |-> "idle"]
Failure(kind) == [error |-> kind]
Fails(result) == "error" \in DOMAIN result

-----------------------------------------------------------------------------
(* Text.                                                                   *)

Has(s, units) == \E i \in DOMAIN s : s[i] \in units
First(s, units) == Min({i \in DOMAIN s : s[i] \in units})
Before(s, i) == SubSeq(s, 1, i - 1)
After(s, i) == SubSeq(s, i + 1, Len(s))

Strip(s) ==
    LET solid == {i \in DOMAIN s : s[i] \notin Space}
    IN IF solid = {} THEN <<>> ELSE SubSeq(s, Min(solid), Max(solid))
StripRight(s) ==
    SubSeq(s, 1, Max({0} \cup {i \in DOMAIN s : s[i] \notin Space}))

\* The positions of s that are in a set, in order.
InOrder(s, positions) == SelectSeq([i \in DOMAIN s |-> i], LAMBDA i : i \in positions)

\* The segments of s between the positions in cuts, each with the unit that
\* is before it.
Segments(s, cuts) ==
    LET ends == Append(InOrder(s, cuts), Len(s) + 1)
        from(k) == IF k = 1 THEN 0 ELSE ends[k - 1]
    IN [k \in DOMAIN ends |-> [op |-> IF k = 1 THEN ";" ELSE s[from(k)],
                               cmd |-> SubSeq(s, from(k) + 1, ends[k] - 1)]]
Split(s, unit) ==
    LET all == Segments(s, {i \in DOMAIN s : s[i] = unit})
    IN [k \in DOMAIN all |-> all[k].cmd]
Join(seqs, between) ==
    FoldLeft(LAMBDA all, k : IF k = 1 THEN seqs[1] ELSE all \o between \o seqs[k],
             <<>>, [k \in DOMAIN seqs |-> k])

-----------------------------------------------------------------------------
(* split_chain.                                                            *)

Scanned(q, unit) ==
    CASE q.escaped -> [q EXCEPT !.escaped = FALSE]
      [] ~q.escaped /\ unit = "\\" -> [q EXCEPT !.escaped = TRUE]
      [] ~q.escaped /\ unit = "'" /\ q.in # "\"" ->
            [q EXCEPT !.in = IF @ = "" THEN "'" ELSE ""]
      [] ~q.escaped /\ unit = "\"" /\ q.in # "'" ->
            [q EXCEPT !.in = IF @ = "" THEN "\"" ELSE ""]
      [] OTHER -> q

\* Mutant: only double quotes count.
TopLevelDouble(s) ==
    LET Next1(q, unit) == IF unit = "'" /\ ~q.escaped THEN q ELSE Scanned(q, unit)
        before == FoldLeft(LAMBDA qs, unit : Append(qs, Next1(Last(qs), unit)),
                           <<[in |-> "", escaped |-> FALSE]>>, s)
    IN {i \in DOMAIN s : before[i] = [in |-> "", escaped |-> FALSE]}

\* The positions outside quotes. A backslash escapes the next unit also
\* between single quotes.
TopLevel(s) ==
    LET before == FoldLeft(LAMBDA qs, unit : Append(qs, Scanned(Last(qs), unit)),
                           <<[in |-> "", escaped |-> FALSE]>>, s)
    IN {i \in DOMAIN s : before[i] = [in |-> "", escaped |-> FALSE]}

\* The pieces between the cuts that have any text.
Pieces(s, cuts) ==
    LET all == Segments(s, cuts)
    IN SelectSeq([k \in DOMAIN all |-> [all[k] EXCEPT !.cmd = Strip(@)]],
                 LAMBDA piece : piece.cmd # <<>>)
Whole(s) == <<[op |-> ";", cmd |-> Strip(s)]>>
IsCut(unit) == unit \in {";", "&&"}

Header(s) == Split(s, "\n")[1]

\* With a heredoc the first line is cut at every operator, quoted or not, and
\* the other lines go to the last piece.
SplitHeredoc(s) ==
    LET header == Header(s)
        pieces == Pieces(header, {i \in DOMAIN header : IsCut(header[i])})
    IN IF ~Has(header, {";", "&&"}) \/ pieces = <<>> THEN Whole(s)
       ELSE [pieces EXCEPT ![Len(pieces)].cmd = @ \o SubSeq(s, Len(header) + 1, Len(s))]

SplitChain(raw) ==
    LET s == Strip(raw)
        pieces == Pieces(s, {i \in TopLevel(s) : IsCut(s[i])})
    IN IF Has(Header(raw), {"<<", "<<<"}) THEN SplitHeredoc(raw)
       ELSE IF pieces = <<>> THEN Whole(raw) ELSE pieces

-----------------------------------------------------------------------------
(* parse_pipeline_and_redirect_detailed, pass by pass.                     *)

\* Each 2>/dev/null between blanks is taken out, wherever it is.
Discards(s) ==
    {i \in DOMAIN s : /\ s[i] = "2>null"
                      /\ i = 1 \/ s[i - 1] \in Space
                      /\ i = Len(s) \/ s[i + 1] \in Space}
WithoutDiscards(s) ==
    LET D == Discards(s)
        kept == InOrder(s, {i \in DOMAIN s : i + 1 \notin D})
    IN [k \in DOMAIN kept |-> IF kept[k] \in D THEN " " ELSE s[kept[k]]]

Fallbacks == {<<"true">>, <<":">>, <<"help">>}

\* _extract_compatible_shell_tails: 2>/dev/null, and || with a known fallback.
Tails(cmd) ==
    LET s == WithoutDiscards(Strip(cmd))
        ors == {i \in TopLevel(s) : s[i] = "||"}
        tail == Strip(After(s, Min(ors)))
        fits == ors # {} /\ tail \in Fallbacks
    IN [cmd |-> IF fits THEN StripRight(Before(s, Min(ors))) ELSE s,
        discard |-> Discards(Strip(cmd)) # {},
        orElse |-> IF fits THEN tail ELSE <<>>]

(* shlex, with the given punctuation: a fold over the units. `in` is where *)
(* the last unit was: between tokens (""), in a word ("w"), an operator    *)
(* ("o"), quotes, or after a backslash there.                              *)
Lexed(lex, unit, punctuation) ==
    LET flushed == IF lex.in = "" THEN lex.tokens ELSE Append(lex.tokens, lex.token)
        \* The unit belongs to the word that is being read, or begins one.
        Word(units, in) ==
            IF lex.in \in {"", "o"} THEN [tokens |-> flushed, token |-> units, in |-> in]
            ELSE [lex EXCEPT !.token = @ \o units, !.in = in]
    IN CASE lex.in = "'" -> IF unit = "'" THEN Word(<<>>, "w") ELSE Word(<<unit>>, "'")
         [] lex.in = "\"" ->
              IF unit = "\"" THEN Word(<<>>, "w")
              ELSE IF unit = "\\" THEN Word(<<>>, "\"\\") ELSE Word(<<unit>>, "\"")
         [] lex.in = "\"\\" ->
              Word(IF unit \in {"\"", "\\"} THEN <<unit>> ELSE <<"\\", unit>>, "\"")
         [] lex.in = "\\" -> Word(<<unit>>, "w")
         [] lex.in \in {"", "w", "o"} /\ unit \in Space ->
              [tokens |-> flushed, token |-> <<>>, in |-> ""]
         [] lex.in \in {"", "w", "o"} /\ unit \in {"'", "\"", "\\"} -> Word(<<>>, unit)
         [] lex.in \in {"", "w", "o"} /\ unit \in punctuation ->
              [tokens |-> flushed, token |-> <<unit>>, in |-> "o"]
         [] OTHER -> Word(<<unit>>, "w")

\* The tokens, a failure when a quote is open or nothing follows a backslash.
Tokens(s, punctuation) ==
    LET lex == FoldLeft(LAMBDA l, unit : Lexed(l, unit, punctuation),
                        [tokens |-> <<>>, token |-> <<>>, in |-> ""], s)
    IN CASE lex.in \in {"'", "\""} -> Failure("no closing quotation")
         [] lex.in \in {"\\", "\"\\"} -> Failure("no escaped character")
         [] lex.in = "" -> [tokens |-> lex.tokens]
         [] OTHER -> [tokens |-> Append(lex.tokens, lex.token)]

\* _extract_here_string: everything after <<< is the input.
HereString(s) ==
    LET heres == {i \in TopLevel(s) : s[i] = "<<<"}
        command == StripRight(Before(s, Min(heres)))
        rest == Strip(After(s, Min(heres)))
        parts == Tokens(rest, {})
    IN IF heres = {} THEN [cmd |-> s, stdin |-> <<>>]
       ELSE IF command = <<>> THEN Failure("missing_here_string_command")
       ELSE IF rest = <<>> THEN Failure("missing_here_string_input")
       ELSE IF Has(rest, Substitutions) THEN Failure("unsupported_here_string_substitution")
       ELSE IF Fails(parts) THEN Failure("invalid_here_string_text")
       ELSE [cmd |-> command, stdin |-> Join(parts.tokens, <<" ">>) \o <<"\n">>]

\* _detect_unsupported_shell_syntax, in its order. 1> and 2> are also found
\* in 2>&1, and all of them between quotes and in the body of a heredoc.
Checks ==
    << [kind |-> "unsupported_or_fallback", units |-> {"||"}],
       [kind |-> "unsupported_command_substitution", units |-> Substitutions],
       [kind |-> "unsupported_here_string_redirect", units |-> {"<<<"}],
       [kind |-> "&>_not_supported", units |-> {"&>"}],
       [kind |-> "unsupported_general_stderr_redirect", units |-> {"1>", "2>&1", "2>null"}],
       [kind |-> "unsupported_input_redirect", units |-> {"<"}] >>
Unsupported(s) == SelectSeq(Checks, LAMBDA check : Has(s, check.units))

\* The delimiter after the << at position i of the header: its units, and where
\* it ends; nothing when there is none.
Delimiter(header, i) ==
    LET solid == {j \in (i + 1)..Len(header) : header[j] \notin Space}
        j == Min(solid)
        Closed(quote) == {k \in (j + 2)..Len(header) : header[k] = quote}
        stops == {k \in j..Len(header) : header[k] \in Space \cup Punctuation \cup {";"}}
        end == Min(stops \cup {Len(header) + 1})
    IN IF solid = {} THEN {}
       ELSE IF header[j] \in {"'", "\""} /\ Closed(header[j]) # {}
       THEN LET k == Min(Closed(header[j]))
            IN {[units |-> SubSeq(header, j + 1, k - 1), end |-> k]}
       ELSE IF end = j THEN {}
       ELSE {[units |-> SubSeq(header, j, end - 1), end |-> end - 1]}

\* _extract_heredoc.
Heredoc(s) ==
    LET header == Header(s)
        marks == {i \in DOMAIN header : header[i] = "<<" /\ Delimiter(header, i) # {}}
        at == Min(marks)
        delimiter == CHOOSE d \in Delimiter(header, at) : TRUE
        rest == Strip(Before(header, at) \o After(header, delimiter.end))
        lines == Split(After(s, Len(header) + 1), "\n")
        end == Min({k \in DOMAIN lines : lines[k] = delimiter.units})
    IN IF ~Has(s, {"<<"}) THEN [cmd |-> s, stdin |-> <<>>]
       ELSE IF marks = {} THEN Failure("invalid_heredoc")
       ELSE IF \A k \in DOMAIN lines : lines[k] # delimiter.units
       THEN Failure("missing_heredoc_terminator")
       ELSE IF Has(rest, {"<<"}) THEN Failure("multiple_heredocs")
       ELSE IF \E k \in (end + 1)..Len(lines) : Strip(lines[k]) # <<>>
       THEN Failure("multiple_heredoc_write_blocks")
       ELSE [cmd |-> rest,
             stdin |-> FlattenSeq([k \in 1..(end - 1) |-> lines[k] \o <<"\n">>])]

\* What follows a redirect operator at position r of the tokens.
Target(tokens, r) ==
    LET forced == Len(tokens) >= r + 2 /\ tokens[r + 2] = <<"--force">>
    IN IF r = Len(tokens) THEN Failure("missing_redirect_target")
       ELSE IF Len(tokens) > (IF forced THEN r + 2 ELSE r + 1)
       THEN Failure("trailing_tokens_after_redirect")
       ELSE [op |-> tokens[r][1], path |-> tokens[r + 1],
             force |-> forced \/ tokens[r] = <<">|">>]

IsToken(token, units) == \E unit \in units : token = <<unit>>

\* The loop over the tokens. Quotes are gone: a quoted operator is one here.
Pipeline(tokens) ==
    LET redirects == {r \in DOMAIN tokens : IsToken(tokens[r], Redirects)}
        r == Min(redirects \cup {Len(tokens) + 1})
        stages == Split(Before(tokens, r), <<"|">>)
        to == IF redirects = {} THEN NoFile ELSE Target(tokens, r)
    IN IF \E k \in 1..(Len(stages) - 1) : stages[k] = <<>>
       THEN Failure("empty_command_before_pipe")
       ELSE IF Fails(to) THEN to
       ELSE IF stages = << <<>> >> THEN Failure("empty_command")
       ELSE [pipeline |-> SelectSeq(stages, LAMBDA argv : argv # <<>>), redirect |-> to]

Parse(cmd) ==
    LET tails == Tails(cmd)
        here == HereString(tails.cmd)
        doc == Heredoc(here.cmd)
        tokens == Tokens(doc.cmd, Punctuation)
        pipeline == Pipeline(tokens.tokens)
    IN IF Fails(here) THEN here
       ELSE IF Unsupported(here.cmd) # <<>> THEN Failure(Head(Unsupported(here.cmd)).kind)
       ELSE IF Fails(doc) THEN doc
       ELSE IF Fails(tokens) THEN tokens
       ELSE IF tokens.tokens = <<>>
       THEN [pipeline |-> <<>>, redirect |-> NoFile, stdin |-> <<>>,
             discard |-> FALSE, orElse |-> <<>>]
       ELSE IF Fails(pipeline) THEN pipeline
       ELSE pipeline @@ [stdin |-> IF doc.stdin # <<>> THEN doc.stdin ELSE here.stdin,
                         discard |-> tails.discard, orElse |-> tails.orElse]

-----------------------------------------------------------------------------
(* What a line says: a sequence of pieces, each with the operator before   *)
(* it, the stages of its pipeline, a redirect, 2>/dev/null, a fallback, the*)
(* lines of a heredoc, and the word of a here-string. A word is bare or in *)
(* quotes, and has units.                                                  *)

Rendered(word) ==
    CASE word.quote = "" -> word.units
      [] word.quote = "\\" -> FlattenSeq([i \in DOMAIN word.units |-> <<"\\", word.units[i]>>])
      [] OTHER -> <<word.quote>> \o word.units \o <<word.quote>>
Stage(words) == Join([i \in DOMAIN words |-> Rendered(words[i])], <<" ">>)

Headed(piece) ==
    LET stages == [k \in DOMAIN piece.stages |-> Stage(piece.stages[k])]
        input == IF piece.body # <<>> THEN <<" ", "<<", "'", "EOF", "'">>
                 ELSE IF piece.here # <<>> THEN <<" ", "<<<", " ">> \o Rendered(piece.here[1])
                 ELSE <<>>
    IN Join([stages EXCEPT ![1] = @ \o input], <<" ", "|", " ">>)
       \o (IF piece.to = NoFile THEN <<>>
           ELSE <<" ", piece.to.op, " ">> \o Rendered(piece.to.path)
                \o (IF piece.to.force THEN <<" ", "--force">> ELSE <<>>))
       \o (IF piece.merge THEN <<" ", "2>&1">> ELSE <<>>)
       \o (IF piece.discard THEN <<" ", "2>null">> ELSE <<>>)
       \o (IF piece.orElse = <<>> THEN <<>> ELSE <<" ", "||", " ">> \o piece.orElse)
Body(piece) ==
    IF piece.body = <<>> THEN <<>>
    ELSE <<"\n">> \o FlattenSeq([k \in DOMAIN piece.body |-> piece.body[k] \o <<"\n">>]) \o <<"EOF">>

WithBody(pieces) == {k \in DOMAIN pieces : pieces[k].body # <<>>}

\* The text of a line. The body of a heredoc follows the first line of the
\* command; when there are several, each piece has its own lines, as in the
\* template of the parse error multiple_heredoc_write_blocks.
Text(pieces) ==
    LET Chained(texts) ==
            FlattenSeq([k \in DOMAIN pieces |->
                (IF k = 1 THEN <<>> ELSE <<" ", pieces[k].op, " ">>) \o texts[k]])
        heads == [k \in DOMAIN pieces |-> Headed(pieces[k])]
        bodies == [k \in DOMAIN pieces |-> Body(pieces[k])]
    IN IF Cardinality(WithBody(pieces)) <= 1 THEN Chained(heads) \o FlattenSeq(bodies)
       ELSE Chained([k \in DOMAIN pieces |-> heads[k] \o bodies[k]])

\* What the parser should make of a piece.
Meant(piece) ==
    [pipeline |-> [k \in DOMAIN piece.stages |->
                      [i \in DOMAIN piece.stages[k] |-> piece.stages[k][i].units]],
     redirect |-> IF piece.to = NoFile THEN NoFile
                  ELSE [op |-> piece.to.op, path |-> piece.to.path.units,
                        force |-> piece.to.force \/ piece.to.op = ">|"],
     stdin |-> IF piece.here # <<>> THEN piece.here[1].units \o <<"\n">>
               ELSE FlattenSeq([k \in DOMAIN piece.body |-> piece.body[k] \o <<"\n">>]),
     discard |-> piece.discard,
     orElse |-> piece.orElse]

-----------------------------------------------------------------------------
(* run_command_chain, run_single_command, apply_redirect.                  *)

Init ==
    /\ line \in CommandLines
    /\ todo = SplitChain(Text(line))
    /\ run = Idle
    /\ exit = 0
    /\ files = [path \in Existing |-> <<0>>]
    /\ trace = <<>>

\* The piece that runs is over.
Over(status, outcome) ==
    /\ run' = Idle
    /\ exit' = status
    /\ trace' = Append(trace, outcome)

\* Mutant: a skipped piece counts as a success.
SkipSucceeds ==
    /\ run = Idle /\ todo # <<>>
    /\ Head(todo).op = "&&" /\ exit # 0
    /\ todo' = Tail(todo)
    /\ Over(0, "skipped")
    /\ UNCHANGED <<line, files>>

\* A piece after && is passed over when the last one that ran failed.
Skip ==
    /\ run = Idle /\ todo # <<>>
    /\ Head(todo).op = "&&" /\ exit # 0
    /\ todo' = Tail(todo)
    /\ Over(exit, "skipped")
    /\ UNCHANGED <<line, files>>

\* The next piece is read.
Begin ==
    /\ run = Idle /\ todo # <<>>
    /\ Head(todo).op = "&&" => exit = 0
    /\ todo' = Tail(todo)
    /\ \E parsed \in {Parse(Head(todo).cmd)} :
          IF Fails(parsed) THEN Over(2, "rejected")
          ELSE /\ run' = [at |-> "run", parsed |-> parsed, left |-> parsed.pipeline]
               /\ UNCHANGED <<exit, trace>>
    /\ UNCHANGED <<line, files>>

Running == run # Idle /\ run.left # <<>>

\* A stage succeeds: its output is the input of the next one.
Succeed ==
    /\ Running
    /\ run' = [run EXCEPT !.left = Tail(@)]
    /\ UNCHANGED <<line, todo, exit, files, trace>>

\* A stage fails: the others do not run, and nothing is redirected. With a
\* fallback, which succeeds, the failure is forgiven.
Fail ==
    /\ Running
    /\ Head(Head(run.left)) # <<"echo">>
    /\ IF run.parsed.orElse # <<>> THEN Over(0, "forgiven") ELSE Over(1, "failed")
    /\ UNCHANGED <<line, todo, files>>

Content(path) == IF path \in DOMAIN files THEN files[path] ELSE <<>>

\* Mutant: > may overwrite a file.
MayStoreOver(to) == to.path \notin Directories \cup Refused

\* apply_redirect refuses a directory, a path that it may not write or that is
\* ambiguous, and > on a file that exists.
MayStore(to) ==
    /\ to.path \notin Directories \cup Refused
    /\ to.op # ">" \/ to.force \/ to.path \notin DOMAIN files

\* Every stage has succeeded: the output is the answer, or goes to a file. A
\* refusal is not forgiven.
Finish ==
    LET to == run.parsed.redirect
        n == Len(trace) + 1
    IN /\ run # Idle /\ run.left = <<>>
       /\ IF to = NoFile THEN Over(0, "ok") /\ UNCHANGED files
          ELSE IF MayStore(to)
          THEN /\ files' = (to.path :> (IF to.op = ">>" THEN Append(Content(to.path), n)
                                        ELSE <<n>>)) @@ files
               /\ Over(0, "ok")
          ELSE Over(1, "refused") /\ UNCHANGED files
       /\ UNCHANGED <<line, todo>>

Next == Skip \/ Begin \/ Succeed \/ Fail \/ Finish

Spec == Init /\ [][Next]_vars

-----------------------------------------------------------------------------
(* Properties.                                                             *)

Outcomes == {"ok", "failed", "forgiven", "refused", "rejected", "skipped"}

TypeOK ==
    /\ exit \in 0..2
    /\ \A k \in DOMAIN trace : trace[k] \in Outcomes
    /\ \A path \in DOMAIN files : \A i \in DOMAIN files[path] : files[path][i] \in 0..Len(trace)
    /\ Running => \A k \in DOMAIN run.left : run.left[k] # <<>>

(* What the parser does not read as a shell would, although it is quoted or *)
(* in the body of a heredoc:                                               *)
(*  - units that Checks finds anywhere, << and 2>/dev/null;                *)
(*  - a word that is an operator, which the loop over the tokens takes for *)
(*    one (a quoted >| overwrites a file);                                 *)
(*  - a backslash between single quotes;                                   *)
(*  - a quoted ; or && in a line with a heredoc or here-string;            *)
(* and, not quoted: 2>&1, a here-string with a pipe or a redirect after it, *)
(* a heredoc with a fallback (the body counts as its end) or before the    *)
(* last piece, other fallbacks than the three, an escaped blank at the end *)
(* of a piece.                                                             *)
Literal(units) ==
    ~Has(units, UNION {Checks[k].units : k \in DOMAIN Checks} \cup {"<<"})

PlainWord(word, cutAnywhere) ==
    /\ Literal(word.units)
    /\ word.quote # "" => ~IsToken(word.units, {"|"} \cup Redirects)
    /\ word.quote = "'" => ~Has(word.units, {"\\"})
    /\ cutAnywhere => ~Has(word.units, {";", "&&"})

PlainPiece(piece, cutAnywhere) ==
    /\ \A k \in DOMAIN piece.stages : \A i \in DOMAIN piece.stages[k] :
          PlainWord(piece.stages[k][i], cutAnywhere)
    /\ piece.to # NoFile => PlainWord(piece.to.path, cutAnywhere)
    /\ piece.here # <<>> => /\ PlainWord(piece.here[1], TRUE)
                            /\ piece.to = NoFile /\ Len(piece.stages) = 1
    /\ \A k \in DOMAIN piece.body : Literal(piece.body[k])
    /\ piece.orElse \in (IF piece.body = <<>> THEN Fallbacks ELSE {}) \cup {<<>>}
    /\ ~piece.merge

WithInput(pieces) == {k \in DOMAIN pieces : pieces[k].body # <<>> \/ pieces[k].here # <<>>}

Plain(pieces) ==
    /\ \A k \in DOMAIN pieces : PlainPiece(pieces[k], WithInput(pieces) # {})
    /\ WithBody(pieces) \subseteq {Len(pieces)}

ReadSoFar ==
    /\ Len(trace) + Len(todo) + (IF run = Idle THEN 0 ELSE 1) = Len(line)
    /\ \A k \in DOMAIN todo : todo[k].op = line[Len(line) - Len(todo) + k].op
    /\ run # Idle => run.parsed = Meant(line[Len(trace) + 1])
    /\ \A k \in DOMAIN trace : trace[k] # "rejected"

\* A line is read as it is meant: the pieces, their operators, the words
\* without their quotes, the redirect, the input and the fallback, whatever
\* is quoted or in the body of a heredoc, with the exceptions above.
ReadAsMeant == Plain(line) => ReadSoFar

\* The template of the parse error (command_parser.py:277) and README.md:157,
\* "one raw command must not chain multiple heredoc write blocks; split them
\* with `;` or `&&`": heredocs that are split like that are read as meant.
SplitHeredocsAreRead ==
    (/\ Cardinality(WithBody(line)) > 1
     /\ \A k \in DOMAIN line : PlainPiece(line[k], TRUE)) => ReadSoFar

\* The status is that of the last piece that ran, and a piece after && runs if
\* and only if that one succeeded, in chains of any mixture of ; and &&.
StatusIsShells ==
    LET Ran(n) == {k \in 1..n : trace[k] # "skipped"}
        Good(n) == Ran(n) = {} \/ trace[Max(Ran(n))] \in {"ok", "forgiven"}
    IN Plain(line) =>
          /\ exit = 0 <=> Good(Len(trace))
          /\ \A k \in DOMAIN trace :
                trace[k] = "skipped" <=> line[k].op = "&&" /\ ~Good(k - 1)

\* A file changes only when a piece that says so runs to its end: no stage has
\* failed, the file is its target, and what was there is kept unless the line
\* says >| or --force.
WritesAreMeant ==
    [][files' # files /\ Plain(line) =>
          LET to == Meant(line[Len(trace) + 1]).redirect
          IN /\ to # NoFile /\ trace'[Len(trace')] = "ok"
             /\ run.left = <<>>
             /\ \A path \in DOMAIN files' \ {to.path} :
                   path \in DOMAIN files /\ files'[path] = files[path]
             /\ IF to.op = ">>"
                THEN SubSeq(files'[to.path], 1, Len(Content(to.path))) = Content(to.path)
                ELSE to.force \/ to.path \notin DOMAIN files]_vars
=============================================================================
