---------------------------- MODULE MCVaultSync ----------------------------
(* Instances of VaultSync for TLC. *)
EXTENDS VaultSync, TLC

\* "c1", "c2" and "cB" are the canonical texts of three states, "raw1" is
\* another text of s1, "rejected" has a value the schema of its type rejects
\* and "broken" is not YAML.
MCStates   == {"s1", "s2", "sB"}
MCContents == {"c1", "c2", "cB", "raw1", "rejected", "broken"}
MCRender   == [s \in MCStates |-> CASE s = "s1" -> "c1" [] s = "s2" -> "c2" [] OTHER -> "cB"]

MCBroken == {"broken"}

\* A rejected value leaves the value in the database; a new node goes without.
MCAbsorb ==
  [c \in MCContents \ MCBroken |-> [s \in MCStates \cup {NoState} |->
     CASE c = "c1" \/ c = "raw1" -> "s1"
       [] c = "c2" -> "s2"
       [] c = "rejected" -> IF s = NoState THEN "sB" ELSE s
       [] OTHER -> "sB"]]

\* doIndex takes values as they stand; a text that does not parse is all body.
MCIndexState ==
  [c \in MCContents |->
     CASE c = "c1" \/ c = "raw1" -> "s1" [] c \in {"c2", "rejected"} -> "s2" [] OTHER -> "sB"]

PathSymmetry   == Permutations(Paths)

MCUserLossy    == {"c1", "raw1", "rejected", "broken"}
MCUserTwoFiles == {"raw1", "broken"}
=============================================================================
