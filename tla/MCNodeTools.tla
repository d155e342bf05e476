---------------------------- MODULE MCNodeTools ----------------------------
(* Instances of NodeTools for TLC. *)
EXTENDS NodeTools, TLC

MCOneDir  == {"root"}
MCTwoDirs == {"root", "sub"}
MCLength  == [d \in Dirs |-> IF d = "root" THEN 0 ELSE 3]

CONSTANTS n1, n2, x, bad, A, B

MCRow(title, c) ==
  [version |-> 1, place |-> [dir |-> "root", title |-> title], content |-> c, hash |-> c]

MCInputs == {[text |-> x, link |-> NoLink], [text |-> x, link |-> A], [text |-> bad, link |-> A]}

MCFew == {[text |-> x, link |-> NoLink], [text |-> bad, link |-> A]}

\* n2 links to n1.
MCStart == (n1 :> MCRow(A, [text |-> x, link |-> NoLink])) @@ (n2 :> MCRow(B, [text |-> x, link |-> A]))

\* The watcher has taken up a text of n2 that a tool may not write.
MCStartBad == (n1 :> MCRow(A, [text |-> x, link |-> NoLink])) @@ (n2 :> MCRow(B, [text |-> bad, link |-> A]))
=============================================================================
