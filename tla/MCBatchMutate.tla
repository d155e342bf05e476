--------------------------- MODULE MCBatchMutate ---------------------------
(* Instances of BatchMutate for TLC. *)
EXTENDS BatchMutate, TLC

Ops(versions) ==
  {o \in [kind : {"create", "update", "delete"}, path : Paths,
          text : Texts \cup {Invalid}, expected : versions] :
     /\ o.kind = "create" => o.expected = Unchecked
     /\ o.kind = "delete" => o.text = Invalid}

Distinct(b) == \A i, j \in DOMAIN b : b[i].path = b[j].path => i = j

\* At most one operation on a path, on three paths.
MCDistinct == {b \in UNION {[1..n -> Ops({Unchecked, 2})] : n \in 1..2} : Distinct(b)}

\* Any two operations, and a creation with any two valid ones on its path that check
\* no version.
MCComposed ==
  LET On(p, kinds) == {o \in Ops({Unchecked}) :
                         o.path = p /\ o.kind \in kinds /\ (o.text # Invalid \/ o.kind = "delete")}
      All == {"create", "update", "delete"} IN
  UNION {[1..n -> Ops({Unchecked, 1})] : n \in 1..2}
    \cup UNION {{<<x, y, z>> : x \in On(p, {"create"}), y, z \in On(p, All)} : p \in Paths}

Symmetry == Permutations(Paths) \cup Permutations(Texts)
=============================================================================
