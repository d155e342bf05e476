----------------------------- MODULE MCUndoLog -----------------------------
(* Instances of UndoLog for TLC. *)
EXTENDS UndoLog

CONSTANTS n1, n2, n3, p, q, x, y

MCIds == <<n1, n2, n3>>
MCStart == [n \in Nodes |-> IF n = n1 THEN [path |-> p, text |-> x] ELSE NoNode]

\* One step of one node: create-node, rename-node, delete-node, update-node.
MCSingleCalls == {<<"create">>, <<"update">>, <<"move">>, <<"relocate">>, <<"delete">>}

\* And a title change with an update, and a batch that deletes and creates.
MCAllCalls == MCSingleCalls \cup {<<"update", "move">>, <<"delete", "create">>}
=============================================================================
