----------------------------- MODULE MCResolver -----------------------------
(* Three spellings of one name, a title with a separator, two directories.   *)
EXTENDS Resolver

CONSTANTS n1, n2, n3

MCNames == {"x", "X", "x'", "y/z", "y-z"}
MCDirs  == {"", "d"}

MCFileName == [t \in MCNames |-> IF t = "y/z" THEN "y-z" ELSE t]
MCLower    == [t \in MCNames |-> IF t = "X" THEN "x" ELSE t]
MCNfc      == [t \in MCNames |-> IF t \in {"X", "x'"} THEN "x" ELSE t]

\* Characters: "x" and "X" tie, and so do "d/x" and "y-z".
MCLength ==
  [p \in Paths |-> (CASE p.name \in {"x", "X"} -> 1 [] p.name = "x'" -> 2 [] OTHER -> 3)
                   + (IF p.dir = "" THEN 0 ELSE 2)]

Body(dir, name, md) == [to |-> [dir |-> dir, name |-> name, md |-> md], field |-> FALSE]
Field(name)         == [to |-> [dir |-> "", name |-> name, md |-> FALSE], field |-> TRUE]

\* Links by title, by path and by file name; one by another spelling, and one in a field.
MCContents == {{Body("", "y/z", FALSE), Body("d", "x", TRUE), Body("", "x", TRUE)},
               {Field("x"), Body("", "X", FALSE)}}

\* One node refers to another, and to a name that nobody has.
MCVault ==
  [rows  |-> [n \in Nodes |->
     CASE n = n1 -> [dir |-> "d", name |-> "x", title |-> "x"]
       [] n = n2 -> [dir |-> "", name |-> "y-z", title |-> "y/z"]
       [] OTHER  -> Nothing],
   links |-> {[from |-> n2, to |-> l.to, field |-> l.field] :
                l \in {Field("x"), Body("", "X", FALSE)}}]
=============================================================================
