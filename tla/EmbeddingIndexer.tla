-------------------------- MODULE EmbeddingIndexer --------------------------
(***************************************************************************)
(* The semantic search index: an in-memory queue of nodes and embedded     *)
(* files to embed, the calls of processOne that take items from it, and    *)
(* the child process that computes the vectors.                            *)
(*                                                                         *)
(* processOne awaits the child, so the calls overlap: processAll runs one  *)
(* after the other from startup on until the queue is empty, and the       *)
(* watcher starts one with every file it takes in.  Meanwhile nodes change *)
(* and disappear, and the child dies or is killed for being idle.          *)
(***************************************************************************)
EXTENDS Naturals, Sequences, FiniteSets, SequencesExt

CONSTANTS
  Nodes,      \* node ids
  Texts,      \* what a node's title, body and string fields say (a hash is its text)
  Files,      \* embedded files; a file stands for the text extracted from it
  Embeds,     \* text -> the files that its body embeds
  Empty,      \* the text assembled for a node that is not there
  Own,        \* the group of a node's own text
  None,
  Watchers,   \* processOne calls of the watcher that may overlap
  UsesTools,  \* whether tools or sweeps change nodes
  MaxEdits, MaxFaults    \* bounds of the model

Attempts == 3
Loop     == "processAll"
Callers  == Watchers \cup {Loop}
Groups   == Nodes \X (Files \cup {Own})
Item     == [group : Groups, retries : 0..Attempts - 1]

ASSUME EmbeddingConstants ==
  /\ IsFiniteSet(Nodes) /\ IsFiniteSet(Files) /\ {"unborn", "deleted"} \cap Texts = {}
  /\ Embeds \in [Texts -> SUBSET Files] /\ Own \notin Files /\ Loop \notin Watchers
  /\ Empty \notin Texts \cup Files /\ None \notin Texts \cup Files \cup {Empty}
  /\ UsesTools \in BOOLEAN /\ MaxEdits \in Nat /\ MaxFaults \in Nat

VARIABLES
  text,      \* nodes: id -> text, "unborn" or "deleted"
  meta,      \* embedding_meta: group -> source_hash
  vecs,      \* embedding_vec: group -> the texts there are vectors of
  queue,
  job,       \* processOne: caller -> [pc, item, text]
  loop,      \* processAll: "off" | "running" | "done"
  child,     \* "none" | "starting" | "ready" | "broken" (its readyPromise is rejected)
  idle,      \* the idle timer runs
  overtaken, \* history: nodes that changed while a call was at work on them
  unseen,    \* history: nodes a tool has changed since they were last queued
  dropped,   \* history: groups given up after three attempts
  edits, faults          \* counters of the bounds

index == <<meta, vecs>>
host  == <<child, idle>>
hist  == <<overtaken, unseen, dropped>>
vars  == <<text, meta, vecs, queue, job, loop, child, idle, overtaken, unseen,
           dropped, edits, faults>>

Idle == [pc |-> "idle", item |-> None, text |-> None]

Live(n) == text[n] \in Texts

Init ==
  /\ text \in [Nodes -> Texts \cup {"unborn"}]
  /\ meta = [g \in Groups |-> None] /\ vecs = [g \in Groups |-> {}]
  /\ queue = <<>> /\ job = [w \in Callers |-> Idle] /\ loop = "off"
  /\ child = "none" /\ idle = FALSE
  /\ overtaken = {} /\ unseen = {} /\ dropped = {}
  /\ edits = 0 /\ faults = 0

-----------------------------------------------------------------------------
(* Helpers *)

GroupsOf(n) == {g \in Groups : g[1] = n}

\* Jobs go on in microtasks, before the event loop takes anything else up.
Settled ==
  /\ loop # "off" /\ \A w \in Callers : job[w].pc # "failed"
  /\ loop = "running" => job[Loop].pc # "idle"

\* assembleContent: what is to be embedded for a text, or for a node without one.
Assembled(t) == IF t \in Texts THEN t ELSE Empty

Queued(q, g) == \E i \in DOMAIN q : q[i].group = g

\* Variant of Push for testing NothingForgotten: the key leaves out the file.
PushOncePerNode(q, g) ==
  IF \E i \in DOMAIN q : q[i].group[1] = g[1] THEN q
  ELSE Append(q, [group |-> g, retries |-> 0])

\* The item of a group unless it is there already.
Push(q, g) == IF Queued(q, g) THEN q ELSE Append(q, [group |-> g, retries |-> 0])

\* enqueue: the node, and every file its text embeds.
Enqueued(q, n, t) ==
  FoldLeft(Push, Push(q, <<n, Own>>), SetToSeq({<<n, f>> : f \in Embeds[t]}))

\* enqueue drops the rows of files that the text no longer embeds.
Pruned(n, t) == {g \in GroupsOf(n) : g[2] # Own /\ g[2] \notin Embeds[t]}

\* Variant of DropRows for testing RowsHaveVectors: the rows stay.
DropVectors(gs) ==
  /\ vecs' = [g \in Groups |-> IF g \in gs THEN vecs[g] \ {meta[g]} ELSE vecs[g]]
  /\ UNCHANGED meta

\* The rows of some groups with their vectors, which are found through the rows.
DropRows(gs) ==
  /\ meta' = [g \in Groups |-> IF g \in gs THEN None ELSE meta[g]]
  /\ vecs' = [g \in Groups |-> IF g \in gs THEN vecs[g] \ {meta[g]} ELSE vecs[g]]

\* Some call is at work on a node.
Busy(n) == \E w \in Callers : job[w].pc # "idle" /\ job[w].item.group[1] = n

\* sendRequest: a child is forked for the first request.
Ask(w, it, t) ==
  /\ job' = [job EXCEPT ![w] = [pc |-> IF child = "broken" THEN "failed" ELSE "embed",
                                item |-> it, text |-> t]]
  /\ child' = IF child = "none" THEN "starting" ELSE child

\* processOne up to its first await, for a queue q and the node texts tx.
Take(w, q, tx) ==
  LET it == Head(q)
      n  == it.group[1]
      t  == Assembled(tx[n])
  IN \/ /\ q = <<>>
        /\ queue' = q /\ UNCHANGED <<job, child>>
     \/ /\ q # <<>> /\ it.group[2] = Own /\ meta[it.group] = t
        /\ queue' = Tail(q) /\ UNCHANGED <<job, child>>
     \/ /\ q # <<>> /\ it.group[2] = Own /\ meta[it.group] # t
        /\ queue' = Tail(q) /\ Ask(w, it, t)
     \/ /\ q # <<>> /\ it.group[2] # Own
        /\ queue' = Tail(q) /\ UNCHANGED child
        /\ job' = [job EXCEPT ![w] = [pc |-> "extract", item |-> it, text |-> None]]

-----------------------------------------------------------------------------
(* Startup and its loop *)

\* Every node is queued.  A new search version or --reindex-search clears the tables.
Start(clear) ==
  LET live == {n \in Nodes : Live(n)} IN
  /\ loop = "off" /\ loop' = "running"
  /\ queue' = FoldLeft(LAMBDA q, n : Enqueued(q, n, text[n]), <<>>, SetToSeq(live))
  /\ IF clear
       THEN meta' = [g \in Groups |-> None] /\ vecs' = [g \in Groups |-> {}]
       ELSE DropRows(UNION {Pruned(n, text[n]) : n \in live})
  /\ overtaken' = {} /\ unseen' = {} /\ dropped' = {}
  /\ UNCHANGED <<text, job, host, edits, faults>>

LoopNext ==
  /\ loop = "running" /\ job[Loop].pc = "idle"
  /\ loop' = IF queue = <<>> THEN "done" ELSE "running"
  /\ Take(Loop, queue, text)
  /\ UNCHANGED <<text, index, idle, hist, edits, faults>>

-----------------------------------------------------------------------------
(* Nodes change *)

\* The watcher takes a text in, queues the node and starts one processOne.
Watch(n, t, w) ==
  /\ Settled /\ edits < MaxEdits /\ edits' = edits + 1
  /\ text[n] # "deleted" /\ job[w].pc = "idle"
  /\ text' = [text EXCEPT ![n] = t]
  /\ overtaken' = CASE ~Busy(n)                  -> overtaken \ {n}
                    [] Busy(n) /\ text[n] # t -> overtaken \cup {n}
                    [] OTHER                   -> overtaken
  /\ DropRows(Pruned(n, t)) /\ unseen' = unseen \ {n} /\ dropped' = dropped \ GroupsOf(n)
  /\ Take(w, Enqueued(queue, n, t), text')
  /\ UNCHANGED <<loop, idle, faults>>

\* A tool writes the node and its file, or a sweep of the reconciler takes in what a
\* user wrote; the watcher then finds the hash it expects, and nobody queues the node.
Tool(n, t) ==
  /\ UsesTools /\ Settled /\ edits < MaxEdits /\ edits' = edits + 1
  /\ Live(n) /\ t # text[n] /\ text' = [text EXCEPT ![n] = t]
  /\ unseen' = unseen \cup {n} /\ overtaken' = IF Busy(n) THEN overtaken \cup {n} ELSE overtaken
  /\ UNCHANGED <<index, queue, job, loop, host, dropped, faults>>

\* The foreign key removes the rows of a deleted node; removeNode, which comes
\* after that, looks for vectors through these rows.
Delete(n) ==
  LET rows == [g \in Groups |-> IF g[1] = n THEN None ELSE meta[g]] IN
  /\ Settled /\ edits < MaxEdits /\ edits' = edits + 1
  /\ Live(n) /\ text' = [text EXCEPT ![n] = "deleted"]
  /\ vecs' = [g \in Groups |-> IF g[1] = n THEN vecs[g] \ {rows[g]} ELSE vecs[g]]
  /\ meta' = rows
  /\ UNCHANGED <<queue, job, loop, host, hist, faults>>

-----------------------------------------------------------------------------
(* The calls and the child *)

Pending == {w \in Callers : job[w].pc = "embed"}

Fault == faults < MaxFaults /\ faults' = faults + 1

\* The child is gone; every pending request is rejected.
Reject ==
  job' = [w \in Callers |-> IF w \in Pending THEN [job[w] EXCEPT !.pc = "failed"] ELSE job[w]]

\* The text of an embedded file is there.
Extracted(w) ==
  LET it == job[w].item IN
  /\ Settled /\ job[w].pc = "extract"
  /\ IF meta[it.group] = it.group[2]
       THEN job' = [job EXCEPT ![w] = Idle] /\ UNCHANGED child
       ELSE Ask(w, it, it.group[2])
  /\ UNCHANGED <<text, index, queue, loop, idle, hist, edits, faults>>

\* The extractor throws.
ExtractFails(w) ==
  /\ Settled /\ job[w].pc = "extract" /\ Fault
  /\ job' = [job EXCEPT ![w].pc = "failed"]
  /\ UNCHANGED <<text, index, queue, loop, host, hist, edits>>

ChildReady ==
  /\ Settled /\ child = "starting" /\ child' = "ready"
  /\ UNCHANGED <<text, index, queue, job, loop, idle, hist, edits, faults>>

\* Variant of Referenced for testing NoGhosts: rows of nodes that are not there.
Unreferenced(n) == TRUE

\* The foreign key of embedding_meta.
Referenced(n) == Live(n)

\* A result: writeGroup replaces the rows of the group, or its foreign key fails.
\* Requests are answered in any order.
Answer(w) ==
  LET g == job[w].item.group IN
  /\ Settled /\ child = "ready" /\ job[w].pc = "embed" /\ idle' = TRUE
  /\ IF Referenced(g[1])
       THEN /\ vecs' = [vecs EXCEPT ![g] = (@ \ {meta[g]}) \cup {job[w].text}]
            /\ meta' = [meta EXCEPT ![g] = job[w].text]
            /\ job' = [job EXCEPT ![w] = Idle]
       ELSE /\ job' = [job EXCEPT ![w].pc = "failed"]
            /\ UNCHANGED index
  /\ UNCHANGED <<text, queue, loop, child, hist, edits, faults>>

AnswerError(w) ==
  /\ Settled /\ child = "ready" /\ job[w].pc = "embed" /\ Fault
  /\ idle' = TRUE /\ job' = [job EXCEPT ![w].pc = "failed"]
  /\ UNCHANGED <<text, index, queue, loop, child, hist, edits>>

ChildExits ==
  /\ Settled /\ child \in {"starting", "ready"} /\ Fault
  /\ child' = "none" /\ idle' = FALSE /\ Reject
  /\ UNCHANGED <<text, index, queue, loop, hist, edits>>

\* The fork fails.  Node.js may or may not report an exit as well; without one
\* the rejected readyPromise stays.
ForkFails ==
  /\ Settled /\ child = "starting" /\ Fault
  /\ child' \in {"none", "broken"} /\ Reject
  /\ UNCHANGED <<text, index, queue, loop, idle, hist, edits>>

\* Five minutes after the last answer the child is killed, even while it is at work.
IdleKill ==
  /\ Settled /\ idle /\ child = "ready"
  /\ IF Pending = {} THEN UNCHANGED faults ELSE Fault
  /\ child' = "none" /\ idle' = FALSE /\ Reject
  /\ UNCHANGED <<text, index, queue, loop, hist, edits>>

\* Variants for testing: one attempt more, and retries that are not counted.
RequeuedOnceMore(it) == it.retries < Attempts
Uncounted(it) == it

Requeued(it) == it.retries + 1 < Attempts
Counted(it) == [it EXCEPT !.retries = @ + 1]

\* The catch of processOne: back into the queue, without looking for the same
\* item there, or dropped after three attempts.
Failed(w) ==
  LET it == job[w].item IN
  /\ job[w].pc = "failed" /\ job' = [job EXCEPT ![w] = Idle]
  /\ IF Requeued(it)
       THEN queue' = Append(queue, Counted(it)) /\ UNCHANGED dropped
       ELSE dropped' = dropped \cup {it.group} /\ UNCHANGED queue
  /\ UNCHANGED <<text, index, loop, host, overtaken, unseen, edits, faults>>

\* The process ends; what users do to the files meanwhile is taken in when it
\* starts again, before anything is queued.
Restart(n, t) ==
  /\ loop # "off" /\ Fault
  /\ loop' = "off" /\ queue' = <<>> /\ job' = [w \in Callers |-> Idle]
  /\ child' = "none" /\ idle' = FALSE
  /\ text' = IF text[n] = "deleted" THEN text ELSE [text EXCEPT ![n] = t]
  /\ UNCHANGED <<index, hist, edits>>

Next ==
  \/ \E clear \in BOOLEAN : Start(clear)
  \/ LoopNext \/ ChildReady \/ ChildExits \/ ForkFails \/ IdleKill
  \/ \E n \in Nodes :
       \/ Delete(n)
       \/ \E t \in Texts : Tool(n, t) \/ Restart(n, t) \/ \E w \in Watchers : Watch(n, t, w)
  \/ \E w \in Callers : Extracted(w) \/ ExtractFails(w) \/ Answer(w) \/ AnswerError(w) \/ Failed(w)

\* The service starts, microtasks run, the child comes up and answers.
Fairness ==
  /\ WF_vars(\E clear \in BOOLEAN : Start(clear)) /\ WF_vars(LoopNext) /\ WF_vars(ChildReady)
  /\ \A w \in Callers : WF_vars(Extracted(w)) /\ WF_vars(Answer(w)) /\ WF_vars(Failed(w))

Spec     == Init /\ [][Next]_vars
FairSpec == Spec /\ Fairness

-----------------------------------------------------------------------------
(* Properties *)

\* The variables keep their types; no item is tried more than three times.
EmbedTypeOK ==
  /\ text \in [Nodes -> Texts \cup {"unborn", "deleted"}]
  /\ meta \in [Groups -> Texts \cup Files \cup {None}]
  /\ vecs \in [Groups -> SUBSET (Texts \cup Files)]
  /\ queue \in Seq(Item)
  /\ \A w \in Callers :
       \/ job[w] = Idle
       \/ /\ job[w].pc \in {"extract", "embed", "failed"} /\ job[w].item \in Item
          /\ job[w].text \in Texts \cup Files \cup {Empty, None}
  /\ loop \in {"off", "running", "done"}
  /\ child \in {"none", "starting", "ready", "broken"} /\ idle \in BOOLEAN
  /\ overtaken \subseteq Nodes /\ unseen \subseteq Nodes /\ dropped \subseteq Groups
  /\ edits \in 0..MaxEdits /\ faults \in 0..MaxFaults

Wanted(n) == {<<n, Own>>} \cup {<<n, f>> : f \in Embeds[text[n]]}

Source(g) == IF g[2] = Own THEN text[g[1]] ELSE g[2]

AtWork(g) == \E w \in Callers : job[w].pc # "idle" /\ job[w].item.group = g

\* Whatever fails, dies and restarts: the vectors of a node's text and of the
\* files it embeds are up to date, or somebody has them on a list.  Exceptions
\* are a node that changed while a call was at work on it, one that a tool has
\* changed, and groups given up after three attempts.
NothingForgotten ==
  loop # "off" => \A n \in Nodes : Live(n) /\ n \notin overtaken \cup unseen =>
    \A g \in Wanted(n) :
      meta[g] = Source(g) \/ Queued(queue, g) \/ AtWork(g) \/ g \in dropped

\* No rows of a node that is not there: a result that comes after the deletion
\* of its node is refused, and retried in vain.
NoGhosts == \A n \in Nodes : ~Live(n) => \A g \in GroupsOf(n) : meta[g] = None

\* A row stands for vectors: what the hash check takes for embedded can be found.
RowsHaveVectors == \A g \in Groups : meta[g] # None => meta[g] \in vecs[g]

\* The loop of the startup comes to its end, whatever is queued meanwhile.
LoopEnds == loop = "running" ~> loop # "running"
=============================================================================
