---------------------------- MODULE MCAgentShell ----------------------------
(* AgentShell with two agents and a host, for TLC. *)
EXTENDS AgentShell

CONSTANTS a1, a2, h1, p1, q1, r1

TwoAgents == {a1, a2}
OneAgent == {a1}
OneHost == {h1}
ThreePaths == {p1, q1, r1}
OnlyP == {p1}
OnlyQ == {q1}
BothRuntimes == {"local", "redis"}
Redis == {"redis"}
Local == {"local"}

Cmd(op, path, and) == [op |-> op, path |-> path, and |-> and]

\* `> p1 && touch q1` through xargs, `rm q1; edit p1 && cat p1` and
\* `verify; cd p1; >| q1; >| r1`.
ThreeChains == {
    <<Cmd("create", p1, FALSE), Cmd("xargs touch", q1, TRUE)>>,
    <<Cmd("rm", q1, FALSE), Cmd("edit", p1, FALSE), Cmd("cat", p1, TRUE)>>,
    <<Cmd("verify", p1, FALSE), Cmd("cd", p1, FALSE), Cmd("overwrite", q1, FALSE),
      Cmd("overwrite", r1, FALSE)>>}
\* `>| p1`.
OneChain == {<<Cmd("overwrite", p1, FALSE)>>}
=============================================================================
