-------------------------- MODULE MCWorkspaceFlush --------------------------
(* WorkspaceFlush on a small tree, for TLC. *)
EXTENDS WorkspaceFlush, TLC

CONSTANTS a, b, f1, f2, h1

OneName == {a}
TwoNames == {a, b}
NoFile == {}
OneFlusher == {f1}
TwoFlushers == {f1, f2}
NoHost == {}
OneHost == {h1}

Everything == {"create", "edit", "touch", "mv", "rm", "cd"}
Growing == {"create", "edit", "touch", "cd"}
Edits == {"edit", "touch"}
Moves == {"create", "mv", "mvinto"}
CreateEdit == {"create", "edit"}
CreateCd == {"create", "cd"}
CreateOnly == {"create"}
MoveInOnly == {"mvinto"}
RemoveOnly == {"rm"}
=============================================================================
