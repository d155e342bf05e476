---------------------------- MODULE AtomicBatch ----------------------------
(***************************************************************************)
(* What batch-mutate promises: "Execute multiple mutation operations       *)
(* atomically.  All operations succeed or all roll back."  The files and   *)
(* the rows of a vault change together, in one step, or not at all.        *)
(***************************************************************************)
EXTENDS Naturals, Sequences, SequencesExt

CONSTANTS
  Paths,      \* relative paths of markdown files
  Texts,      \* the canonical texts of valid nodes
  Invalid,    \* a text that validation refuses
  NoFile, NoRow,
  Batches     \* the sequences of operations that callers send

Unchecked == 0     \* an operation without expected_version
Row  == [text : Texts, version : Nat]
Op   == [kind : {"create", "update", "delete"}, path : Paths,
         text : Texts \cup {Invalid}, expected : Nat]

ASSUME BatchConstants ==
  /\ Invalid \notin Texts /\ NoFile \notin Texts /\ NoRow \notin Row
  /\ Batches \subseteq Seq(Op)

VARIABLES files, rows

Put(s, o, n) ==
  [s EXCEPT !.files[o.path] = o.text, !.rows[o.path] = [text |-> o.text, version |-> n]]

Stale(s, o) == o.expected # Unchecked /\ o.expected # s.rows[o.path].version

\* Variant of NoOp for testing AppliedInSync: the row is not looked at.
FileIsThere(s, o) == s.files[o.path] = o.text

\* Neither the file nor the row would change: executeMutation does nothing, and
\* does not look at the version either.
NoOp(s, o) == s.files[o.path] = o.text /\ s.rows[o.path].text = o.text

\* One operation after another; a stale one is skipped, any other failure is
\* the failure of the batch.
Outcome(s, o) ==
  CASE ~s.ok -> s
    [] s.ok /\ o.kind = "create" ->
         IF o.text = Invalid \/ s.rows[o.path] # NoRow \/ s.files[o.path] # NoFile
           THEN [s EXCEPT !.ok = FALSE] ELSE Put(s, o, 1)
    [] s.ok /\ o.kind # "create" /\ s.rows[o.path] = NoRow -> [s EXCEPT !.ok = FALSE]
    [] s.ok /\ o.kind = "update" /\ s.rows[o.path] # NoRow ->
         IF o.text = Invalid THEN [s EXCEPT !.ok = FALSE]
         ELSE IF NoOp(s, o) \/ Stale(s, o) THEN s
         ELSE Put(s, o, s.rows[o.path].version + 1)
    [] OTHER ->
         IF Stale(s, o) THEN s
         ELSE [s EXCEPT !.files[o.path] = NoFile, !.rows[o.path] = NoRow]

Result(f, r, b) == FoldLeft(Outcome, [files |-> f, rows |-> r, ok |-> TRUE], b)

Init ==
  /\ files \in [Paths -> Texts \cup {NoFile}]
  /\ rows \in [Paths -> {NoRow} \cup [text : Texts, version : {1}]]

Apply(b) ==
  LET r == Result(files, rows, b) IN
  r.ok /\ files' = r.files /\ rows' = r.rows

Next == \E b \in Batches : Apply(b)

Spec == Init /\ [][Next]_<<files, rows>>
=============================================================================
