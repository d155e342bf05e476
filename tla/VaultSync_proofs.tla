-------------------------- MODULE VaultSync_proofs --------------------------
EXTENDS VaultSync, TLAPS

USE DEF env, watch, sweep, store, PCs, Sources

\* The records of handlers.
LEMMA OpUpdate ==
  ASSUME op \in Op
  PROVE  /\ [op EXCEPT !.touched = TRUE] \in Op
         /\ \A c \in PCs : [op EXCEPT !.pc = c] \in Op
         /\ \A c \in PCs : [op EXCEPT !.pc = c, !.touched = FALSE] \in Op
         /\ \A c \in PCs, d \in Contents : [op EXCEPT !.pc = c, !.content = d, !.touched = FALSE] \in Op
BY DEF Op

\* A handler is an operation.
LEMMA HandlerType ==
  ASSUME ConstantsAssumption, NEW c \in PCs, NEW s \in Sources, NEW p \in Paths,
         NEW d \in Contents \cup {NoFile}, NEW st \in States \cup {NoState}
  PROVE  Idle \in Op /\ Handler(c, s, p, d, st) \in Op
BY DEF Op, Idle, Handler

\* A step on one path leaves the modification times of the others alone.
TimesOf(p) ==
  /\ mtimeEq' \subseteq Paths /\ raced' \subseteq Paths
  /\ \A q \in Paths \ {p} : (q \in mtimeEq' <=> q \in mtimeEq) /\ (q \in raced' <=> q \in raced)

LEMMA RowTimeDoes ==
  ASSUME TypeOK, NEW p \in Paths, NEW same \in BOOLEAN, NEW unseen \in BOOLEAN, RowTime(p, same, unseen)
  PROVE  TimesOf(p) /\ (p \in mtimeEq' <=> same) /\ (p \in raced' <=> same /\ unseen)
BY DEF TypeOK, RowTime, TimesOf

\* A file replaced with the time of its row is one the row cannot tell.
LEMMA RewrittenDoes ==
  ASSUME TypeOK, NEW p \in Paths, NEW c, Rewritten(p, c)
  PROVE  /\ TimesOf(p) /\ (p \in mtimeEq' => p \in raced')
         /\ disk' = [disk EXCEPT ![p] = c] /\ age' = [age EXCEPT ![p] = "new"]
<1>1. PICK same \in BOOLEAN : RowTime(p, same, TRUE)
  BY DEF Rewritten
<1> QED  BY <1>1, RowTimeDoes DEF Rewritten

LEMMA RemovedDoes ==
  ASSUME TypeOK, NEW p \in Paths, Removed(p)
  PROVE  /\ TimesOf(p) /\ p \notin mtimeEq'
         /\ disk' = [disk EXCEPT ![p] = NoFile] /\ age' = [age EXCEPT ![p] = "new"]
BY RowTimeDoes DEF Removed

LEMMA RowGoneDoes ==
  ASSUME TypeOK, NEW p \in Paths, RowGone(p)
  PROVE  TimesOf(p) /\ p \notin mtimeEq' /\ row' = [row EXCEPT ![p] = NoRow]
BY RowTimeDoes DEF RowGone

\* A commit after which the row has the time of its file saw no editor, or is marked.
LEMMA CommitTimeDoes ==
  ASSUME TypeOK, op.path \in Paths, CommitTime
  PROVE  TimesOf(op.path) /\ (op.path \in mtimeEq' /\ op.path \notin raced' => ~op.touched)
<1>1. op.touched \in BOOLEAN
  BY DEF TypeOK, Op
<1>2. PICK same \in BOOLEAN : RowTime(op.path, same, op.touched)
  BY DEF CommitTime
<1> QED  BY <1>1, <1>2, RowTimeDoes

LEMMA StatFirstDoes ==
  ASSUME TypeOK, op.path \in Paths, StatFirst
  PROVE  TimesOf(op.path)
<1>1. PICK same \in BOOLEAN : RowTime(op.path, same, FALSE)
  BY DEF StatFirst
<1> QED  BY <1>1, RowTimeDoes

\* Every step keeps the types.
LEMMA TypeStep ==
  ASSUME ConstantsAssumption, TypeOK, HandlerInv, [Next]_vars
  PROVE  TypeOK'
<1>c. USE ConstantsAssumption
<1>n. ASSUME NEW p \in Paths, NEW e \in {"change", "unlink"}, Notify(p, e)
      PROVE  ev' \in [Paths -> Seq({"change", "unlink"})]
  BY <1>n DEF Notify, TypeOK
<1>i. Idle \in Op
  BY HandlerType DEF Op, Idle
<1>a. ASSUME NEW p \in Paths, NEW a \in {"new", "swept", "quiet"}
      PROVE  [age EXCEPT ![p] = a] \in [Paths -> {"new", "swept", "quiet"}]
  BY DEF TypeOK
<1>r. ASSUME NEW p \in Paths, NEW h \in Contents, NEW s \in States
      PROVE  [row EXCEPT ![p] = [hash |-> h, state |-> s]] \in [Paths -> Row \cup {NoRow}]
  BY DEF TypeOK, Row
<1>t. ASSUME NEW p \in Paths, NEW n \in 0..MaxRetries
      PROVE  [retry EXCEPT ![p] = n] \in [Paths -> 0..MaxRetries]
  BY DEF TypeOK
<1>2. ASSUME NEW p \in Paths, NEW c \in UserContents, UserWrite(p, c)  PROVE TypeOK'
  <2>1. op' \in Op
    BY <1>2, OpUpdate DEF UserWrite, TypeOK, Touch
  <2>2. TimesOf(p) /\ disk' = [disk EXCEPT ![p] = c] /\ age' = [age EXCEPT ![p] = "new"]
    BY <1>2, RewrittenDoes DEF UserWrite
  <2> QED  BY <1>2, <1>n, <1>a, <2>1, <2>2 DEF UserWrite, TimesOf, TypeOK, ConstantsAssumption
<1>3. ASSUME NEW p \in Paths, UserDelete(p)  PROVE TypeOK'
  <2>1. op' \in Op
    BY <1>3, OpUpdate DEF UserDelete, TypeOK, Touch
  <2>2. TimesOf(p) /\ disk' = [disk EXCEPT ![p] = NoFile] /\ age' = [age EXCEPT ![p] = "new"]
    BY <1>3, RemovedDoes DEF UserDelete
  <2> QED  BY <1>3, <1>n, <1>a, <2>1, <2>2 DEF UserDelete, TimesOf, TypeOK
<1>4. ASSUME NEW p \in Paths, LoseEvent(p)  PROVE TypeOK'
  BY <1>4 DEF LoseEvent, TypeOK
<1>5. ASSUME NEW p \in Paths, QuietPasses(p)  PROVE TypeOK'
  BY <1>5 DEF QuietPasses, TypeOK
<1>d. ASSUME Die
      PROVE  /\ phase' \in {"down", "starting", "up"} /\ sweeping' \in BOOLEAN
             /\ todo' \subseteq Paths /\ op' \in Op /\ timer' \subseteq Paths
             /\ recent' \subseteq Paths /\ retry' \in [Paths -> 0..MaxRetries]
             /\ ev' \in [Paths -> Seq({"change", "unlink"})]
  <2>1. <<>> \in Seq({"change", "unlink"})
    OBVIOUS
  <2>2. 0 \in 0..MaxRetries
    BY DEF ConstantsAssumption
  <2> QED  BY <1>d, <1>i, <2>1, <2>2 DEF Die
<1>6. ASSUME Crash PROVE TypeOK'
  BY <1>6, <1>d DEF Crash, TypeOK, ConstantsAssumption
<1>7. ASSUME StartUp \/ SweepStart  PROVE TypeOK'
  BY <1>7 DEF StartUp, SweepStart, BeginSweep, TypeOK
<1>8. ASSUME NEW p \in Paths, SweepVisit(p)  PROVE TypeOK'
  <2>1. Handler("sweepRead", "sync", p, NoFile, NoState) \in Op
    BY HandlerType
  <2>2. op' \in Op /\ todo' \subseteq Paths /\ age' \in [Paths -> {"new", "swept", "quiet"}]
    BY <1>8, <2>1 DEF SweepVisit, TypeOK
  <2> QED  BY <1>8, <2>2 DEF SweepVisit, TypeOK
<1>9. ASSUME SweepRead  PROVE TypeOK'
  <2>1. op.path \in Paths
    BY <1>9 DEF SweepRead, HandlerInv
  <2>2. op' \in Op
    BY <1>9, <1>i, OpUpdate DEF SweepRead, TypeOK
  <2>3. row' \in [Paths -> Row \cup {NoRow}]
    <3>1. CASE row' = row
      BY <3>1 DEF TypeOK
    <3>2. CASE row' # row
      <4>1. SetRow(op.path, disk[op.path], IndexState[disk[op.path]]) /\ disk[op.path] # NoFile
        BY <1>9, <3>2 DEF SweepRead
      <4>2. disk[op.path] \in Contents /\ IndexState[disk[op.path]] \in States
        BY <2>1, <4>1 DEF TypeOK, ConstantsAssumption
      <4> QED  BY <2>1, <4>1, <4>2, <1>r DEF SetRow
    <3> QED  BY <3>1, <3>2
  <2>4. mtimeEq' \subseteq Paths /\ raced' \subseteq Paths
    BY <1>9, <2>1, StatFirstDoes DEF SweepRead, TypeOK, TimesOf
  <2> QED  BY <1>9, <2>2, <2>3, <2>4 DEF SweepRead, TypeOK
<1>10. ASSUME SweepEnd  PROVE TypeOK'
  BY <1>10 DEF SweepEnd, TypeOK
<1>11. ASSUME NEW p \in Paths, Deliver(p)  PROVE TypeOK'
  <2>1. ev' \in [Paths -> Seq({"change", "unlink"})]
    BY <1>11 DEF Deliver, TypeOK
  <2>2. /\ row' \in [Paths -> Row \cup {NoRow}] /\ timer' \subseteq Paths
        /\ mtimeEq' \subseteq Paths /\ raced' \subseteq Paths
    BY <1>11, RowGoneDoes DEF Deliver, TypeOK, TimesOf
  <2> QED  BY <1>11, <2>1, <2>2 DEF Deliver, TypeOK
<1>12. ASSUME NEW p \in Paths, Fire(p)  PROVE TypeOK'
  <2>1. Handler("process", "sync", p, NoFile, NoState) \in Op
    BY HandlerType
  <2>2. op' \in Op /\ timer' \subseteq Paths
    BY <1>12, <2>1 DEF Fire, TypeOK
  <2>3. retry' \in [Paths -> 0..MaxRetries]
    <3>1. retry[p] \in 0..MaxRetries /\ 0 \in 0..MaxRetries
      BY DEF TypeOK, ConstantsAssumption
    <3>2. MayRetry(p) => retry[p] + 1 \in 0..MaxRetries
      BY <3>1 DEF MayRetry, ConstantsAssumption
    <3> QED  BY <1>12, <1>t, <3>1, <3>2 DEF Fire, TypeOK
  <2> QED  BY <1>12, <2>2, <2>3 DEF Fire, TypeOK
<1>13. ASSUME Process  PROVE TypeOK'
  <2>1. op' \in Op
    BY <1>13, <1>i, OpUpdate DEF Process, TypeOK, HandlerInv
  <2> QED  BY <1>13, <2>1 DEF Process, TypeOK
<1>14. ASSUME Commit  PROVE TypeOK'
  <2>1. op.path \in Paths /\ op.content \in Contents \ Broken
    BY <1>14 DEF Commit, HandlerInv
  <2>2. StateOf(op.path) \in States \cup {NoState}
    BY <2>1 DEF StateOf, TypeOK, Row
  <2>3. Absorb[op.content][StateOf(op.path)] \in States
    BY <2>1, <2>2 DEF ConstantsAssumption
  <2>4. row' \in [Paths -> Row \cup {NoRow}]
    <3>1. row' = row \/ SetRow(op.path, op.content, Absorb[op.content][StateOf(op.path)])
      BY <1>14 DEF Commit, WatcherHash
    <3>2. CASE SetRow(op.path, op.content, Absorb[op.content][StateOf(op.path)])
      BY <1>r, <2>1, <2>3, <3>2 DEF SetRow
    <3> QED  BY <3>1, <3>2 DEF TypeOK
  <2>5. mtimeEq' \subseteq Paths /\ raced' \subseteq Paths
    BY <1>14, <2>1, CommitTimeDoes DEF Commit, TypeOK, TimesOf
  <2> QED  BY <1>14, <1>i, <2>4, <2>5 DEF Commit, TypeOK
<1>15. ASSUME CommitFails  PROVE TypeOK'
  <2>1. op.path \in Paths
    BY <1>15 DEF CommitFails, HandlerInv
  <2> QED  BY <1>15, <1>i, <1>a, <2>1 DEF CommitFails, TypeOK, ConstantsAssumption
<1>16. ASSUME IndexRead  PROVE TypeOK'
  <2>1. op.path \in Paths
    BY <1>16 DEF IndexRead, HandlerInv
  <2>2. CASE disk[op.path] # NoFile
    <3>1. disk[op.path] \in Contents
      BY <2>1, <2>2 DEF TypeOK
    <3>2. op' \in Op
      <4>1. op' = [op EXCEPT !.pc = "indexStat", !.content = disk[op.path], !.touched = FALSE]
        BY <1>16, <2>2 DEF IndexRead
      <4> QED  BY <3>1, <4>1, OpUpdate DEF TypeOK
    <3> QED  BY <1>16, <2>2, <3>2 DEF IndexRead, TypeOK
  <2>3. CASE disk[op.path] = NoFile /\ sweeping
    BY <1>16, <1>i, <2>3 DEF IndexRead, TypeOK
  <2>4. CASE disk[op.path] = NoFile /\ ~sweeping
    BY <1>16, <1>d, <2>4 DEF IndexRead, TypeOK
  <2> QED  BY <2>2, <2>3, <2>4
<1>17. ASSUME IndexStat  PROVE TypeOK'
  <2>1. op.path \in Paths /\ op.content \in Contents
    BY <1>17 DEF IndexStat, HandlerInv
  <2>2. CASE disk[op.path] # NoFile
    <3>1. row' \in [Paths -> Row \cup {NoRow}]
      <4>1. IndexState[op.content] \in States
        BY <2>1 DEF ConstantsAssumption
      <4>2. SetRow(op.path, op.content, IndexState[op.content])
        BY <1>17, <2>2 DEF IndexStat
      <4> QED  BY <1>r, <2>1, <4>1, <4>2 DEF SetRow
    <3>2. mtimeEq' \subseteq Paths /\ raced' \subseteq Paths
      <4>1. op.touched \in BOOLEAN
        BY DEF TypeOK, Op
      <4> QED  BY <1>17, <2>1, <2>2, <4>1, RowTimeDoes DEF IndexStat, TimesOf
    <3> QED  BY <1>17, <1>i, <2>2, <3>1, <3>2 DEF IndexStat, TypeOK
  <2>3. CASE disk[op.path] = NoFile /\ sweeping
    BY <1>17, <1>i, <2>3 DEF IndexStat, TypeOK
  <2>4. CASE disk[op.path] = NoFile /\ ~sweeping
    BY <1>17, <1>d, <2>4 DEF IndexStat, TypeOK
  <2> QED  BY <2>2, <2>3, <2>4
<1>18. ASSUME NEW p \in Paths, NEW s \in States, ToolUpdate(p, s) \/ ToolCreate(p, s)
       PROVE  TypeOK'
  <2>1. Render[s] \in Contents
    BY DEF ConstantsAssumption
  <2>2. Handler("writeFile", "tool", p, Render[s], s) \in Op
    BY <2>1, HandlerType
  <2> QED  BY <1>18, <1>i, <2>2 DEF ToolUpdate, ToolCreate, TypeOK, ConstantsAssumption
<1>19. ASSUME NEW p \in Paths, ToolDelete(p)  PROVE TypeOK'
  <2>1. Handler("unlink", "tool", p, NoFile, NoState) \in Op
    BY HandlerType
  <2>2. TimesOf(p) /\ row' = [row EXCEPT ![p] = NoRow]
    BY <1>19, RowGoneDoes DEF ToolDelete
  <2> QED  BY <1>19, <2>1, <2>2 DEF ToolDelete, TypeOK, TimesOf, ConstantsAssumption
<1>20. ASSUME Unlink  PROVE TypeOK'
  <2>1. op.path \in Paths
    BY <1>20 DEF Unlink, HandlerInv
  <2>2. ev' \in [Paths -> Seq({"change", "unlink"})]
    BY <1>20, <1>n, <2>1 DEF Unlink, TypeOK
  <2>3. age' \in [Paths -> {"new", "swept", "quiet"}]
    <3>1. age' = age \/ Removed(op.path)
      BY <1>20 DEF Unlink
    <3>2. Removed(op.path) => age' = [age EXCEPT ![op.path] = "new"]
      BY <2>1, RemovedDoes
    <3> QED
      BY <1>a, <2>1, <3>1, <3>2 DEF TypeOK
  <2>4. disk' \in [Paths -> Contents \cup {NoFile}] /\ mtimeEq' \subseteq Paths /\ raced' \subseteq Paths
    BY <1>20, <2>1, RemovedDoes DEF Unlink, TypeOK, TimesOf
  <2> QED  BY <1>20, <1>i, <2>1, <2>2, <2>3, <2>4 DEF Unlink, TypeOK
<1>21. ASSUME UnlinkFails \/ WriteAbort  PROVE TypeOK'
  BY <1>21, <1>i DEF UnlinkFails, WriteAbort, TypeOK, ConstantsAssumption
<1>22. ASSUME NEW p \in Paths, NormalizeVisit(p)  PROVE TypeOK'
  <2>1. row[p].state \in States /\ Render[row[p].state] \in Contents
    BY <1>22 DEF NormalizeVisit, TypeOK, Row, ConstantsAssumption
  <2>2. Handler("writeFile", "normalizer", p, Render[row[p].state], row[p].state) \in Op
    BY <2>1, HandlerType
  <2> QED  BY <1>22, <2>2 DEF NormalizeVisit, TypeOK
<1>23. ASSUME WriteFile  PROVE TypeOK'
  <2>1. op.path \in Paths /\ op.content \in Contents
    BY <1>23 DEF WriteFile, HandlerInv
  <2>2. op' \in Op
    BY <1>23, OpUpdate DEF WriteFile, TypeOK
  <2>3. ev' \in [Paths -> Seq({"change", "unlink"})]
    BY <1>23, <1>n, <2>1 DEF WriteFile
  <2>4. TimesOf(op.path) /\ disk' = [disk EXCEPT ![op.path] = op.content] /\ age' = [age EXCEPT ![op.path] = "new"]
    BY <1>23, <2>1, RewrittenDoes DEF WriteFile
  <2> QED  BY <1>23, <1>a, <2>1, <2>2, <2>3, <2>4 DEF WriteFile, TimesOf, TypeOK
<1>24. ASSUME WriteDb  PROVE TypeOK'
  <2>1. op.path \in Paths /\ op.content \in Contents /\ op.state \in States
    BY <1>24 DEF WriteDb, HandlerInv
  <2>2. row' \in [Paths -> Row \cup {NoRow}]
    BY <1>24, <1>r, <2>1 DEF WriteDb, SetRow
  <2>3. mtimeEq' \subseteq Paths /\ raced' \subseteq Paths /\ recent' \subseteq Paths
    BY <1>24, <2>1, CommitTimeDoes DEF WriteDb, TimesOf, TypeOK
  <2> QED  BY <1>24, <1>i, <2>2, <2>3 DEF WriteDb, TypeOK
<1>25. ASSUME NEW p \in Paths, TtlExpire(p)  PROVE TypeOK'
  BY <1>25 DEF TtlExpire, TypeOK
<1>26. ASSUME UNCHANGED vars  PROVE TypeOK'
  BY <1>26 DEF vars, TypeOK
<1> QED
  BY <1>2, <1>3, <1>4, <1>5, <1>6, <1>7, <1>8, <1>9, <1>10, <1>11, <1>12, <1>13, <1>14,
     <1>15, <1>16, <1>17, <1>18, <1>19, <1>20, <1>21, <1>22, <1>23, <1>24, <1>25, <1>26
  DEF Next, User, Tool, Fault, HandlerStep

\* Every step keeps what the handler in progress holds.
LEMMA HandlerInvStep ==
  ASSUME ConstantsAssumption, TypeOK, HandlerInv, [Next]_vars
  PROVE  HandlerInv'
<1>c. USE ConstantsAssumption
<1>o. op \in Op
  BY DEF TypeOK
<1>i. ASSUME op' = Idle, sweeping' => phase' # "down", phase' = "starting" => sweeping'
      PROVE  HandlerInv'
  BY <1>i DEF HandlerInv, Idle
<1>d. ASSUME Die  PROVE HandlerInv'
  BY <1>d, <1>i DEF Die
<1>2. ASSUME NEW p \in Paths, (\E c \in UserContents : UserWrite(p, c)) \/ UserDelete(p)
      PROVE HandlerInv'
  <2>1. /\ Touch(p) /\ age' = [age EXCEPT ![p] = "new"] /\ UNCHANGED sweep
    BY <1>2 DEF UserWrite, UserDelete, Rewritten, Removed
  <2>2. \A q \in Paths \ {p} : disk'[q] = disk[q] /\ age'[q] = age[q]
    BY <1>2 DEF UserWrite, UserDelete, Rewritten, Removed, TypeOK
  <2>3. CASE op.path = p
    BY <1>o, <2>1, <2>3 DEF Touch, HandlerInv, TypeOK, Op, Idle
  <2>4. CASE op.path # p
    BY <2>1, <2>2, <2>4 DEF Touch, HandlerInv, Idle
  <2> QED  BY <2>3, <2>4
<1>3. ASSUME NEW p \in Paths, LoseEvent(p) \/ TtlExpire(p) \/ Deliver(p)  PROVE HandlerInv'
  BY <1>3 DEF LoseEvent, TtlExpire, Deliver, HandlerInv
<1>4. ASSUME NEW p \in Paths, QuietPasses(p)  PROVE HandlerInv'
  BY <1>4 DEF QuietPasses, Free, HandlerInv, Idle
<1>5. ASSUME Crash  PROVE HandlerInv'
  BY <1>5, <1>d DEF Crash
<1>6. ASSUME StartUp \/ SweepStart  PROVE HandlerInv'
  BY <1>6, <1>i DEF StartUp, SweepStart, BeginSweep, Free, HandlerInv
<1>7. ASSUME NEW p \in Paths, SweepVisit(p)  PROVE HandlerInv'
  BY <1>7 DEF SweepVisit, HandlerInv, Idle, Handler
<1>8. ASSUME SweepRead  PROVE HandlerInv'
  <2>1. CASE op' = Idle
    BY <1>8, <1>i, <2>1 DEF SweepRead, HandlerInv
  <2>2. CASE op' = [op EXCEPT !.pc = "process"]
    BY <1>8, <1>o, <2>2 DEF SweepRead, HandlerInv, Op
  <2> QED  BY <1>8, <2>1, <2>2 DEF SweepRead
<1>9. ASSUME SweepEnd  PROVE HandlerInv'
  BY <1>9 DEF SweepEnd, HandlerInv, Idle
<1>10. ASSUME NEW p \in Paths, Fire(p)  PROVE HandlerInv'
  BY <1>10 DEF Fire, Free, HandlerInv, Idle, Handler
<1>11. ASSUME Process  PROVE HandlerInv'
  <2>1. CASE op' = Idle
    BY <1>11, <1>i, <2>1 DEF Process, HandlerInv
  <2>2. CASE op' = [op EXCEPT !.pc = "indexRead", !.touched = FALSE]
    BY <1>11, <1>o, <2>2 DEF Process, HandlerInv, Op
  <2>3. CASE /\ op' = [op EXCEPT !.pc = "commit", !.content = disk[op.path], !.touched = FALSE]
             /\ disk[op.path] \notin Broken \cup {NoFile}
    BY <1>11, <1>o, <2>3 DEF Process, HandlerInv, Op, TypeOK
  <2> QED  BY <1>11, <2>1, <2>2, <2>3 DEF Process
<1>12. ASSUME Commit \/ Unlink \/ UnlinkFails \/ WriteAbort \/ WriteDb \/ CommitFails  PROVE HandlerInv'
  BY <1>12, <1>i DEF Commit, Unlink, UnlinkFails, WriteAbort, WriteDb, CommitFails, HandlerInv
<1>13. ASSUME IndexRead  PROVE HandlerInv'
  <2>1. CASE disk[op.path] # NoFile
    <3>1. op' = [op EXCEPT !.pc = "indexStat", !.content = disk[op.path], !.touched = FALSE]
      BY <1>13, <2>1 DEF IndexRead
    <3> QED  BY <1>13, <1>o, <2>1, <3>1 DEF IndexRead, HandlerInv, Op, TypeOK
  <2>2. CASE disk[op.path] = NoFile /\ sweeping
    BY <1>13, <1>i, <2>2 DEF IndexRead, HandlerInv
  <2>3. CASE disk[op.path] = NoFile /\ ~sweeping
    BY <1>13, <1>d, <2>3 DEF IndexRead
  <2> QED  BY <2>1, <2>2, <2>3
<1>14. ASSUME IndexStat  PROVE HandlerInv'
  <2>1. CASE disk[op.path] # NoFile \/ sweeping
    BY <1>14, <1>i, <2>1 DEF IndexStat, HandlerInv
  <2>2. CASE disk[op.path] = NoFile /\ ~sweeping
    BY <1>14, <1>d, <2>2 DEF IndexStat
  <2> QED  BY <2>1, <2>2
<1>15. ASSUME NEW p \in Paths, NEW s \in States, ToolUpdate(p, s) \/ ToolCreate(p, s)
       PROVE  HandlerInv'
  BY <1>15 DEF ToolUpdate, ToolCreate, Free, HandlerInv, Idle, Handler, ConstantsAssumption
<1>16. ASSUME NEW p \in Paths, ToolDelete(p)  PROVE HandlerInv'
  BY <1>16 DEF ToolDelete, Free, HandlerInv, Idle, Handler
<1>17. ASSUME NEW p \in Paths, NormalizeVisit(p)  PROVE HandlerInv'
  <2>1. row[p].state \in States /\ Render[row[p].state] \in Contents
    BY <1>17 DEF NormalizeVisit, TypeOK, Row, ConstantsAssumption
  <2> QED  BY <1>17, <2>1 DEF NormalizeVisit, Free, HandlerInv, Idle, Handler
<1>18. ASSUME WriteFile  PROVE HandlerInv'
  <2>1. op' = [op EXCEPT !.pc = "writeDb", !.touched = FALSE] /\ op.path \in Paths
    BY <1>18 DEF WriteFile, HandlerInv
  <2>2. disk'[op.path] = op.content /\ age'[op.path] = "new"
    BY <1>18, <2>1 DEF WriteFile, Rewritten, TypeOK
  <2> QED  BY <1>18, <1>o, <2>1, <2>2 DEF WriteFile, HandlerInv, Op
<1>19. ASSUME UNCHANGED vars  PROVE HandlerInv'
  BY <1>19 DEF vars, HandlerInv
<1> QED
  BY <1>2, <1>3, <1>4, <1>5, <1>6, <1>7, <1>8, <1>9, <1>10, <1>11, <1>12, <1>13, <1>14,
     <1>15, <1>16, <1>17, <1>18, <1>19
  DEF Next, User, Tool, Fault, HandlerStep

\* A row is not the absence of a row.
LEMMA RowIsThere ==
  ASSUME ConstantsAssumption, NEW h \in Contents, NEW s \in States
  PROVE  [hash |-> h, state |-> s] # NoRow
BY DEF ConstantsAssumption

\* Every step keeps the modification times honest.
LEMMA MtimeStep ==
  ASSUME ConstantsAssumption, TypeOK, HandlerInv, MtimeSkipSound, [Next]_vars
  PROVE  MtimeSkipSound'
<1>s. SUFFICES ASSUME NEW q \in Paths, q \in mtimeEq', q \notin raced'
               PROVE  HashMatches(q)'
  BY TypeStep DEF MtimeSkipSound, TypeOK
<1>k. ASSUME disk'[q] = disk[q], row'[q] = row[q], q \in mtimeEq, q \notin raced
      PROVE  HashMatches(q)'
  BY <1>k DEF MtimeSkipSound, HashMatches
<1>2. CASE UNCHANGED <<disk, row, mtimeEq, raced>>
  BY <1>k, <1>2, <1>s
<1>3. ASSUME NEW p \in Paths, (\E c \in UserContents : UserWrite(p, c)) \/ UserDelete(p)
      PROVE  HashMatches(q)'
  <2>1. TimesOf(p) /\ q # p
    BY <1>3, <1>s, RewrittenDoes, RemovedDoes DEF UserWrite, UserDelete
  <2>2. disk'[q] = disk[q] /\ row' = row
    BY <1>3, <2>1, RewrittenDoes, RemovedDoes DEF UserWrite, UserDelete, TypeOK
  <2> QED  BY <1>k, <1>s, <2>1, <2>2 DEF TimesOf
<1>4. ASSUME StartUp \/ SweepStart  PROVE HashMatches(q)'
  BY <1>4, <1>k, <1>s DEF StartUp, SweepStart, BeginSweep, TypeOK
<1>5. ASSUME SweepRead  PROVE HashMatches(q)'
  <2>1. op.path \in Paths
    BY <1>5 DEF SweepRead, HandlerInv
  <2>2. CASE q # op.path
    <3>1. q \in mtimeEq /\ q \notin raced /\ row'[q] = row[q]
      BY <1>5, <1>s, <2>1, <2>2, StatFirstDoes DEF SweepRead, TimesOf, SetRow, TypeOK
    <3> QED  BY <1>5, <1>k, <1>s, <3>1 DEF SweepRead
  <2>3. CASE q = op.path
    <3>1. CASE UNCHANGED <<row, mtimeEq, raced>>
      BY <1>5, <1>2, <3>1 DEF SweepRead
    <3>2. CASE HashMatches(q) /\ UNCHANGED row
      BY <1>5, <3>2 DEF SweepRead, HashMatches
    <3>3. CASE disk[q] # NoFile /\ SetRow(q, disk[q], IndexState[disk[q]])
      <4>1. row'[q] = [hash |-> disk[q], state |-> IndexState[disk[q]]] /\ row'[q] \in Row \cup {NoRow}
        BY <3>3, TypeStep DEF SetRow, TypeOK
      <4>2. row'[q] # NoRow
        <5>1. disk[q] \in Contents /\ IndexState[disk[q]] \in States
          BY <3>3 DEF TypeOK, ConstantsAssumption
        <5> QED  BY <4>1, <5>1, RowIsThere
      <4> QED  BY <1>5, <4>1, <4>2 DEF SweepRead, HashMatches
    <3> QED  BY <1>5, <2>3, <3>1, <3>2, <3>3 DEF SweepRead
  <2> QED  BY <2>2, <2>3
<1>6. ASSUME NEW p \in Paths, Deliver(p)  PROVE HashMatches(q)'
  <2>1. CASE UNCHANGED <<row, mtimeEq, raced>>
    BY <1>2, <1>6, <2>1 DEF Deliver
  <2>2. CASE RowGone(p)
    BY <1>6, <1>k, <1>s, <2>2, RowGoneDoes DEF Deliver, TimesOf, TypeOK
  <2> QED  BY <1>6, <2>1, <2>2 DEF Deliver
<1>7. ASSUME Commit  PROVE HashMatches(q)'
  <2>1. op.path \in Paths /\ op.content \in Contents \ Broken /\ disk' = disk
    BY <1>7 DEF Commit, HandlerInv
  <2>2. CASE UNCHANGED <<row, mtimeEq, raced>>
    BY <1>2, <2>1, <2>2
  <2> DEFINE s == Absorb[op.content][StateOf(op.path)]
  <2>3. CASE SetRow(op.path, op.content, s) /\ CommitTime
    <3>1. CASE q # op.path
      BY <1>k, <1>s, <2>1, <2>3, <3>1, CommitTimeDoes DEF SetRow, TimesOf, TypeOK
    <3>2. CASE q = op.path
      <4>1. disk[q] = op.content
        BY <1>7, <1>s, <2>1, <2>3, <3>2, CommitTimeDoes DEF Commit, HandlerInv
      <4>2. StateOf(q) \in States \cup {NoState}
        BY DEF StateOf, TypeOK, Row
      <4>3. s \in States
        BY <2>1, <3>2, <4>2 DEF ConstantsAssumption
      <4>4. row'[q] = [hash |-> op.content, state |-> s]
        BY <2>3, <3>2 DEF SetRow, TypeOK
      <4> QED  BY <2>1, <4>1, <4>3, <4>4, RowIsThere DEF HashMatches
    <3> QED  BY <3>1, <3>2
  <2> QED  BY <1>7, <2>2, <2>3 DEF Commit, WatcherHash
<1>8. ASSUME IndexStat  PROVE HashMatches(q)'
  <2>1. op.path \in Paths /\ op.content \in Contents
    BY <1>8 DEF IndexStat, HandlerInv
  <2>2. CASE disk[op.path] = NoFile
    BY <1>8, <1>2, <2>2 DEF IndexStat
  <2>5. op.touched \in BOOLEAN
    BY DEF TypeOK, Op
  <2>3. CASE disk[op.path] # NoFile /\ q # op.path
    <3>1. TimesOf(op.path) /\ disk' = disk
      BY <1>8, <2>1, <2>3, <2>5, RowTimeDoes DEF IndexStat
    <3>2. row'[q] = row[q]
      BY <1>8, <2>1, <2>3 DEF IndexStat, SetRow, TypeOK
    <3> QED  BY <1>k, <1>s, <2>3, <3>1, <3>2 DEF TimesOf
  <2>4. CASE disk[op.path] # NoFile /\ q = op.path
    <3>1. ~op.touched /\ disk[q] = op.content
      BY <1>8, <1>s, <2>1, <2>4, <2>5, RowTimeDoes DEF IndexStat, HandlerInv
    <3>2. row'[q] = [hash |-> op.content, state |-> IndexState[op.content]]
      BY <1>8, <2>1, <2>4 DEF IndexStat, SetRow, TypeOK
    <3>3. row'[q] # NoRow
      BY <2>1, <3>2 DEF Row, ConstantsAssumption
    <3> QED  BY <1>8, <3>1, <3>2, <3>3 DEF IndexStat, HashMatches
  <2> QED  BY <2>2, <2>3, <2>4
<1>9. ASSUME NEW p \in Paths, ToolDelete(p)  PROVE HashMatches(q)'
  BY <1>9, <1>k, <1>s, RowGoneDoes DEF ToolDelete, TimesOf, TypeOK
<1>10. ASSUME Unlink \/ WriteFile  PROVE HashMatches(q)'
  <2>1. op.path \in Paths /\ row' = row
    BY <1>10 DEF Unlink, WriteFile, HandlerInv
  <2>2. CASE UNCHANGED <<disk, row, mtimeEq, raced>>
    BY <1>2, <2>2
  <2>3. CASE Removed(op.path) \/ Rewritten(op.path, op.content)
    <3>1. TimesOf(op.path) /\ q # op.path
      BY <1>s, <2>1, <2>3, RemovedDoes, RewrittenDoes
    <3>2. disk'[q] = disk[q]
      BY <2>1, <2>3, <3>1, RemovedDoes, RewrittenDoes DEF TypeOK
    <3> QED  BY <1>k, <1>s, <2>1, <3>1, <3>2 DEF TimesOf
  <2> QED  BY <1>10, <2>1, <2>2, <2>3 DEF Unlink, WriteFile
<1>11. ASSUME WriteDb  PROVE HashMatches(q)'
  <2>1. op.path \in Paths /\ op.content \in Contents /\ op.state \in States
    BY <1>11 DEF WriteDb, HandlerInv
  <2>2. row'[op.path] = [hash |-> op.content, state |-> op.state] /\ row'[op.path] # NoRow
    BY <1>11, <2>1 DEF WriteDb, SetRow, TypeOK, ConstantsAssumption
  <2>3. CASE q # op.path
    BY <1>11, <1>k, <1>s, <2>1, <2>3, CommitTimeDoes DEF WriteDb, TimesOf, SetRow, TypeOK
  <2>4. CASE q = op.path /\ ~op.touched
    BY <1>11, <2>2, <2>4 DEF WriteDb, HandlerInv, HashMatches
  <2>5. ~(q = op.path /\ op.touched)
    BY <1>11, <1>s, <2>1, CommitTimeDoes DEF WriteDb
  <2> QED  BY <2>3, <2>4, <2>5
<1> QED
  BY <1>2, <1>3, <1>4, <1>5, <1>6, <1>7, <1>8, <1>9, <1>10, <1>11
  DEF Next, User, Tool, Fault, HandlerStep, LoseEvent, QuietPasses, SweepVisit, SweepEnd, Fire,
      Process, IndexRead, CommitFails, UnlinkFails, WriteAbort, ToolUpdate, ToolCreate,
      NormalizeVisit, TtlExpire, Crash, vars

\* Every step keeps the files that no sweep needs to look at in their rows.
LEMMA AgeStep ==
  ASSUME ConstantsAssumption, TypeOK, HandlerInv, MtimeSkipSound, AgeInv, [Next]_vars
  PROVE  AgeInv'
<1> DEFINE Settled(q) == HashMatches(q) \/ row[q] = NoRow \/ disk[q] \in Broken \/ q \in raced
<1>s. SUFFICES ASSUME NEW q \in Paths, age'[q] # "new"
               PROVE  disk'[q] # NoFile /\ (Settled(q)' \/ Pending(q)')
  BY DEF AgeInv
<1>t. TypeOK' /\ HandlerInv'
  BY TypeStep, HandlerInvStep
<1>k. ASSUME disk'[q] = disk[q], row'[q] = NoRow \/ (row'[q] = row[q] /\ (q \in raced => q \in raced')),
             age[q] # "new", Pending(q) => Pending(q)'
      PROVE  disk'[q] # NoFile /\ (Settled(q)' \/ Pending(q)')
  BY <1>k DEF AgeInv, HashMatches
<1>2. ASSUME NEW p \in Paths, (\E c \in UserContents : UserWrite(p, c)) \/ UserDelete(p)
      PROVE  disk'[q] # NoFile /\ (Settled(q)' \/ Pending(q)')
  <2>0. /\ TimesOf(p) /\ age' = [age EXCEPT ![p] = "new"]
        /\ \E c \in UserContents \cup {NoFile} : disk' = [disk EXCEPT ![p] = c]
    BY <1>2, RewrittenDoes, RemovedDoes DEF UserWrite, UserDelete
  <2>1. /\ q # p /\ disk'[q] = disk[q] /\ age[q] = age'[q] /\ UNCHANGED <<row, sweep>>
        /\ q \in raced => q \in raced'
    BY <1>2, <1>s, <2>0 DEF UserWrite, UserDelete, TimesOf, TypeOK
  <2>2. op'.path = op.path /\ op'.pc = op.pc
    BY <1>2 DEF UserWrite, UserDelete, Touch, TypeOK, Op
  <2> QED  BY <1>k, <1>s, <2>1, <2>2 DEF Pending
<1>3. ASSUME NEW p \in Paths, LoseEvent(p) \/ TtlExpire(p) \/ Deliver(p)
      PROVE  disk'[q] # NoFile /\ (Settled(q)' \/ Pending(q)')
  <2>1. UNCHANGED <<disk, age, sweep, op>>
    BY <1>3 DEF LoseEvent, TtlExpire, Deliver
  <2>2. CASE UNCHANGED <<row, raced>>
    BY <1>k, <1>s, <2>1, <2>2 DEF Pending
  <2>3. CASE RowGone(p)
    BY <1>k, <1>s, <2>1, <2>3, RowGoneDoes DEF TimesOf, Pending, TypeOK
  <2> QED  BY <1>3, <2>2, <2>3 DEF LoseEvent, TtlExpire, Deliver
<1>4. ASSUME NEW p \in Paths, QuietPasses(p)
      PROVE  disk'[q] # NoFile /\ (Settled(q)' \/ Pending(q)')
  <2>1. age[q] # "new"
    BY <1>4, <1>s DEF QuietPasses, TypeOK
  <2> QED  BY <1>4, <1>k, <2>1 DEF QuietPasses, Pending
<1>5. ASSUME Crash  PROVE disk'[q] # NoFile /\ (Settled(q)' \/ Pending(q)')
  BY <1>5, <1>k, <1>s DEF Crash, Die, Pending
<1>6. ASSUME StartUp \/ SweepStart  PROVE disk'[q] # NoFile /\ (Settled(q)' \/ Pending(q)')
  <2>1. age[q] # "new" /\ disk[q] # NoFile /\ disk' = disk
    BY <1>6, <1>s DEF StartUp, SweepStart, BeginSweep, AgeInv
  <2>2. q \in todo' /\ row'[q] = row[q] /\ (q \in raced => q \in raced')
    BY <1>6, <2>1 DEF StartUp, SweepStart, BeginSweep
  <2>3. CASE StartUp
    BY <1>k, <2>1, <2>2, <2>3 DEF StartUp, Pending
  <2>4. CASE SweepStart
    BY <1>k, <2>1, <2>2, <2>4 DEF SweepStart, BeginSweep, Free, Pending
  <2> QED  BY <1>6, <2>3, <2>4
<1>7. ASSUME NEW p \in Paths, SweepVisit(p)
      PROVE  disk'[q] # NoFile /\ (Settled(q)' \/ Pending(q)')
  <2>1. op = Idle /\ phase # "down" /\ UNCHANGED <<disk, row, mtimeEq, phase, raced>>
    BY <1>7 DEF SweepVisit, HandlerInv
  <2>2. CASE q # p
    <3>1. age[q] # "new"
      BY <1>7, <1>s, <2>2 DEF SweepVisit, TypeOK
    <3>2. Pending(q) => Pending(q)'
      BY <1>7, <2>1, <2>2 DEF SweepVisit, Pending, Idle
    <3> QED  BY <1>k, <2>1, <3>1, <3>2
  <2>3. CASE q = p /\ disk[p] = NoFile
    BY <1>7, <1>s, <2>3 DEF SweepVisit, AgeInv
  <2>4. CASE q = p /\ disk[p] # NoFile /\ ~(row[p] # NoRow /\ p \in mtimeEq)
    <3>1. op' = Handler("sweepRead", "sync", p, NoFile, NoState)
      BY <1>7, <2>4 DEF SweepVisit
    <3> QED  BY <2>1, <2>4, <3>1 DEF Pending, Handler
  <2>5. CASE q = p /\ disk[p] # NoFile /\ p \in mtimeEq
    BY <2>1, <2>5 DEF MtimeSkipSound, HashMatches
  <2> QED  BY <2>2, <2>3, <2>4, <2>5
<1>8. ASSUME SweepRead  PROVE disk'[q] # NoFile /\ (Settled(q)' \/ Pending(q)')
  <2>1. op.path \in Paths /\ age[q] # "new" /\ disk[q] # NoFile /\ UNCHANGED <<disk, sweep>>
    BY <1>8, <1>s DEF SweepRead, HandlerInv, AgeInv
  <2>2. CASE q # op.path
    <3>1. row'[q] = row[q] /\ (q \in raced => q \in raced')
      BY <1>8, <2>1, <2>2, StatFirstDoes DEF SweepRead, SetRow, TimesOf, TypeOK
    <3>2. Pending(q) => Pending(q)'
      BY <2>1, <2>2 DEF Pending
    <3> QED  BY <1>k, <2>1, <3>1, <3>2
  <2>3. CASE q = op.path
    <3>1. CASE HashMatches(q) /\ UNCHANGED row
      BY <2>1, <3>1 DEF HashMatches
    <3>2. CASE SetRow(q, disk[q], IndexState[disk[q]])
      BY <2>1, <3>2 DEF SetRow, TypeOK, HashMatches
    <3>3. CASE op' = [op EXCEPT !.pc = "process"]
      BY <2>1, <2>3, <3>3 DEF Pending, TypeOK, Op
    <3> QED  BY <1>8, <2>1, <2>3, <3>1, <3>2, <3>3 DEF SweepRead
  <2> QED  BY <2>2, <2>3
<1>9. ASSUME SweepEnd  PROVE disk'[q] # NoFile /\ (Settled(q)' \/ Pending(q)')
  BY <1>9, <1>k, <1>s DEF SweepEnd, HandlerInv, Pending
<1>10. ASSUME NEW p \in Paths, Fire(p)
       PROVE  disk'[q] # NoFile /\ (Settled(q)' \/ Pending(q)')
  BY <1>10, <1>k, <1>s DEF Fire, Free, HandlerInv, Idle, Pending
<1>11. ASSUME Process  PROVE disk'[q] # NoFile /\ (Settled(q)' \/ Pending(q)')
  <2>1. op.path \in Paths /\ age[q] # "new" /\ disk[q] # NoFile /\ UNCHANGED <<disk, row, raced, sweep>>
    BY <1>11, <1>s DEF Process, HandlerInv, AgeInv
  <2>2. CASE q # op.path
    BY <1>k, <2>1, <2>2 DEF Pending
  <2>3. CASE q = op.path
    <3>1. CASE disk[q] \in Broken
      BY <2>1, <3>1
    <3>2. CASE disk[q] \notin Broken
      <4>1. op' = [op EXCEPT !.pc = "commit", !.content = disk[op.path], !.touched = FALSE]
        BY <1>11, <2>1, <2>3, <3>2 DEF Process
      <4> QED  BY <2>1, <2>3, <4>1 DEF Pending, TypeOK, Op
    <3> QED  BY <3>1, <3>2
  <2> QED  BY <2>2, <2>3
<1>12. ASSUME Commit  PROVE disk'[q] # NoFile /\ (Settled(q)' \/ Pending(q)')
  <2>1. /\ op.path \in Paths /\ age[q] # "new" /\ disk[q] # NoFile
        /\ UNCHANGED <<disk, sweep>>
    BY <1>12, <1>s DEF Commit, HandlerInv, AgeInv
  <2>2. CASE q # op.path
    <3>1. row'[q] = row[q] /\ (q \in raced => q \in raced')
      BY <1>12, <2>1, <2>2, CommitTimeDoes DEF Commit, SetRow, TimesOf, TypeOK
    <3>2. Pending(q) => Pending(q)'
      BY <2>1, <2>2 DEF Pending
    <3> QED  BY <1>k, <2>1, <3>1, <3>2
  <2>3. CASE q = op.path
    <3>1. disk[q] = op.content
      BY <1>12, <2>1, <2>3 DEF Commit, HandlerInv, TypeOK, Op
    <3>2. CASE UNCHANGED row /\ HashMatches(q)
      BY <2>1, <3>2 DEF HashMatches
    <3>3. CASE SetRow(q, op.content, Absorb[op.content][StateOf(q)])
      BY <2>1, <3>1, <3>3 DEF SetRow, TypeOK, HashMatches
    <3> QED  BY <1>12, <2>3, <3>2, <3>3 DEF Commit, WatcherHash, HashMatches
  <2> QED  BY <2>2, <2>3
<1>13. ASSUME CommitFails  PROVE disk'[q] # NoFile /\ (Settled(q)' \/ Pending(q)')
  <2>1. q # op.path /\ age[q] # "new"
    BY <1>13, <1>s DEF CommitFails, TypeOK
  <2> QED  BY <1>13, <1>k, <2>1 DEF CommitFails, Pending
<1>14. ASSUME IndexRead  PROVE disk'[q] # NoFile /\ (Settled(q)' \/ Pending(q)')
  <2>1. op.path \in Paths /\ age[q] # "new" /\ disk[q] # NoFile /\ UNCHANGED <<disk, row, raced>>
    BY <1>14, <1>s DEF IndexRead, HandlerInv, AgeInv
  <2>2. CASE disk[op.path] # NoFile
    <3>1. op' = [op EXCEPT !.pc = "indexStat", !.content = disk[op.path], !.touched = FALSE]
      BY <1>14, <2>2 DEF IndexRead
    <3>2. op'.path = op.path /\ op'.pc = "indexStat"
      BY <3>1 DEF TypeOK, Op
    <3> QED  BY <1>14, <1>k, <2>1, <2>2, <3>2 DEF IndexRead, Pending
  <2>3. CASE disk[op.path] = NoFile /\ sweeping
    BY <1>14, <1>k, <2>1, <2>3 DEF IndexRead, Pending
  <2>4. CASE disk[op.path] = NoFile /\ ~sweeping
    BY <1>14, <1>k, <2>1, <2>4 DEF IndexRead, Die, Pending
  <2> QED  BY <2>2, <2>3, <2>4
<1>15. ASSUME IndexStat  PROVE disk'[q] # NoFile /\ (Settled(q)' \/ Pending(q)')
  <2>1. op.path \in Paths /\ age[q] # "new" /\ disk[q] # NoFile /\ UNCHANGED disk
    BY <1>15, <1>s DEF IndexStat, HandlerInv, AgeInv
  <2>2. CASE disk[op.path] = NoFile /\ ~sweeping
    BY <1>15, <1>k, <2>1, <2>2 DEF IndexStat, Die, Pending
  <2>3. CASE disk[op.path] = NoFile /\ sweeping
    BY <1>15, <1>k, <2>1, <2>3 DEF IndexStat, Pending
  <2>4. CASE disk[op.path] # NoFile /\ q # op.path
    <3>1. row'[q] = row[q]
      BY <1>15, <2>1, <2>4 DEF IndexStat, SetRow, TypeOK
    <3>2. (Pending(q) => Pending(q)') /\ (q \in raced => q \in raced')
      <4>1. op.touched \in BOOLEAN
        BY DEF TypeOK, Op
      <4> QED  BY <1>15, <2>1, <2>4, <4>1, RowTimeDoes DEF IndexStat, Pending, TimesOf
    <3> QED  BY <1>k, <2>1, <3>1, <3>2
  <2>5. CASE disk[op.path] # NoFile /\ q = op.path
    <3>1. ~op.touched /\ disk[q] = op.content
      BY <1>15, <2>1, <2>5 DEF IndexStat, HandlerInv, TypeOK, Op
    <3>2. SetRow(q, op.content, IndexState[op.content])
      BY <1>15, <2>5 DEF IndexStat
    <3> QED  BY <2>1, <3>1, <3>2 DEF SetRow, TypeOK, HashMatches
  <2> QED  BY <2>2, <2>3, <2>4, <2>5
<1>16. ASSUME NEW p \in Paths, (\E s \in States : ToolUpdate(p, s) \/ ToolCreate(p, s)) \/ NormalizeVisit(p)
       PROVE  disk'[q] # NoFile /\ (Settled(q)' \/ Pending(q)')
  BY <1>16, <1>k, <1>s DEF ToolUpdate, ToolCreate, NormalizeVisit, Free, HandlerInv, Idle, Pending
<1>17. ASSUME NEW p \in Paths, ToolDelete(p)
       PROVE  disk'[q] # NoFile /\ (Settled(q)' \/ Pending(q)')
  <2>1. row'[q] = NoRow \/ (row'[q] = row[q] /\ (q \in raced => q \in raced'))
    BY <1>17, RowGoneDoes DEF ToolDelete, TimesOf, TypeOK
  <2> QED  BY <1>17, <1>k, <1>s, <2>1 DEF ToolDelete, Free, HandlerInv, Idle, Pending
<1>18. ASSUME Unlink \/ WriteFile  PROVE disk'[q] # NoFile /\ (Settled(q)' \/ Pending(q)')
  <2>0. op.path \in Paths
    BY <1>18 DEF Unlink, WriteFile, HandlerInv
  <2>1. /\ age[q] # "new" /\ disk'[q] = disk[q] /\ UNCHANGED <<row, sweep>>
        /\ q \in raced => q \in raced'
    <3>1. CASE UNCHANGED <<disk, age, raced>>
      BY <1>18, <1>s, <3>1 DEF Unlink, WriteFile
    <3>2. CASE Removed(op.path) \/ Rewritten(op.path, op.content)
      BY <1>18, <1>s, <2>0, <3>2, RemovedDoes, RewrittenDoes DEF Unlink, WriteFile, TimesOf, TypeOK
    <3> QED  BY <1>18, <3>1, <3>2 DEF Unlink, WriteFile
  <2> QED  BY <1>18, <1>k, <2>1 DEF Unlink, WriteFile, Pending
<1>19. ASSUME WriteDb  PROVE disk'[q] # NoFile /\ (Settled(q)' \/ Pending(q)')
  <2>0. op.path \in Paths /\ q # op.path /\ age[q] # "new"
    BY <1>19, <1>s DEF WriteDb, HandlerInv
  <2>1. UNCHANGED <<disk, sweep>> /\ (q \in raced => q \in raced')
    BY <1>19, <2>0, CommitTimeDoes DEF WriteDb, TimesOf
  <2>2. row'[q] = row[q]
    BY <1>19, <2>0 DEF WriteDb, SetRow, TypeOK
  <2> QED  BY <1>19, <1>k, <2>0, <2>1, <2>2 DEF WriteDb, Pending
<1>20. ASSUME UnlinkFails \/ WriteAbort  PROVE disk'[q] # NoFile /\ (Settled(q)' \/ Pending(q)')
  BY <1>20, <1>k, <1>s DEF UnlinkFails, WriteAbort, Pending
<1>21. ASSUME UNCHANGED vars  PROVE disk'[q] # NoFile /\ (Settled(q)' \/ Pending(q)')
  BY <1>21, <1>k, <1>s DEF vars, Pending
<1> QED
  BY <1>2, <1>3, <1>4, <1>5, <1>6, <1>7, <1>8, <1>9, <1>10, <1>11, <1>12, <1>13, <1>14,
     <1>15, <1>16, <1>17, <1>18, <1>19, <1>20, <1>21
  DEF Next, User, Tool, Fault, HandlerStep

\* The normalizer starts on settled files only, and an editor that comes later
\* is seen as one that touched the file.
LEMMA NormalizerStep ==
  ASSUME ConstantsAssumption, TypeOK, HandlerInv, AgeInv, NormalizerSafe, [Next]_vars
  PROVE  NormalizerSafe'
<1>s. SUFFICES ASSUME op'.pc = "writeFile", op'.src = "normalizer", ~op'.touched
               PROVE  \/ op'.path \in raced' \/ disk'[op'.path] \in Broken
                      \/ HashMatches(op.path)'
  BY DEF NormalizerSafe
<1>1. CASE UNCHANGED <<op, disk, row, raced>>
  BY <1>1, <1>s DEF NormalizerSafe, HashMatches
<1>2. ASSUME NEW p \in Paths, NormalizeVisit(p)
      PROVE  \/ op'.path \in raced' \/ disk'[op'.path] \in Broken \/ HashMatches(op.path)'
  <2>1. /\ op'.path = p /\ age[p] # "new" /\ row[p] # NoRow /\ ~Pending(p)
        /\ UNCHANGED <<disk, row, raced>>
    BY <1>2 DEF NormalizeVisit, Quiescent, Free, Pending, HandlerInv, Idle, Handler
  <2> QED  BY <2>1 DEF AgeInv, HashMatches
<1>3. ASSUME NEW p \in Paths, (\E c \in UserContents : UserWrite(p, c)) \/ UserDelete(p)
      PROVE  \/ op'.path \in raced' \/ disk'[op'.path] \in Broken \/ HashMatches(op.path)'
  <2>1. op.path # p
    BY <1>3, <1>s DEF UserWrite, UserDelete, Touch, TypeOK, Op
  <2>2. op' = op /\ op.path \in Paths
    BY <1>3, <1>s, <2>1 DEF UserWrite, UserDelete, Touch, HandlerInv
  <2>3. disk'[op.path] = disk[op.path] /\ UNCHANGED row /\ (op.path \in raced => op.path \in raced')
    <3>1. TimesOf(p) /\ \E c \in UserContents \cup {NoFile} : disk' = [disk EXCEPT ![p] = c]
      BY <1>3, RewrittenDoes, RemovedDoes DEF UserWrite, UserDelete
    <3> QED  BY <1>3, <2>1, <2>2, <3>1 DEF UserWrite, UserDelete, TimesOf, TypeOK
  <2> QED  BY <1>s, <2>2, <2>3 DEF NormalizerSafe, HashMatches
<1>4. ASSUME op.pc = "idle", op' \in {op, Idle}  PROVE FALSE
  BY <1>4, <1>s DEF Idle
<1>5. ASSUME NEW p \in Paths, LoseEvent(p) \/ TtlExpire(p) \/ QuietPasses(p)
      PROVE  \/ op'.path \in raced' \/ disk'[op'.path] \in Broken \/ HashMatches(op.path)'
  BY <1>1, <1>5 DEF LoseEvent, TtlExpire, QuietPasses
<1>6. ASSUME NEW p \in Paths, SweepVisit(p) \/ Deliver(p) \/ Fire(p) \/ ToolDelete(p)
      PROVE  \/ op'.path \in raced' \/ disk'[op'.path] \in Broken \/ HashMatches(op.path)'
  BY <1>4, <1>6, <1>s DEF SweepVisit, Deliver, Fire, ToolDelete, Free, Handler
<1>7. ASSUME NEW p \in Paths, NEW s \in States, ToolUpdate(p, s) \/ ToolCreate(p, s)
      PROVE  \/ op'.path \in raced' \/ disk'[op'.path] \in Broken \/ HashMatches(op.path)'
  BY <1>4, <1>7, <1>s DEF ToolUpdate, ToolCreate, Free, Handler
<1>8. ASSUME StartUp \/ SweepStart \/ SweepEnd  PROVE \/ op'.path \in raced' \/ disk'[op'.path] \in Broken \/ HashMatches(op.path)'
  <2>1. op' = op /\ op.pc = "idle"
    BY <1>8 DEF StartUp, SweepStart, SweepEnd, BeginSweep, Free, HandlerInv
  <2> QED  BY <1>4, <2>1
<1>9. ASSUME Crash \/ CommitFails \/ UnlinkFails \/ WriteAbort \/ Commit \/ Unlink \/ WriteDb
      PROVE  \/ op'.path \in raced' \/ disk'[op'.path] \in Broken \/ HashMatches(op.path)'
  <2>1. op' = Idle
    BY <1>9 DEF Crash, Die, CommitFails, UnlinkFails, WriteAbort, Commit, Unlink, WriteDb
  <2> QED  BY <1>s, <2>1 DEF Idle
<1>10. ASSUME SweepRead \/ Process \/ IndexRead \/ IndexStat \/ WriteFile
       PROVE  \/ op'.path \in raced' \/ disk'[op'.path] \in Broken \/ HashMatches(op.path)'
  <2>1. op'.pc # "writeFile"
    <3>1. CASE SweepRead
      BY <3>1 DEF SweepRead, Idle, TypeOK, Op
    <3>2. CASE Process
      BY <3>2 DEF Process, Idle, TypeOK, Op
    <3>3. CASE IndexRead
      <4>1. CASE disk[op.path] # NoFile
        <5>1. op' = [op EXCEPT !.pc = "indexStat", !.content = disk[op.path], !.touched = FALSE]
          BY <3>3, <4>1 DEF IndexRead
        <5> QED  BY <5>1 DEF TypeOK, Op
      <4>2. CASE disk[op.path] = NoFile
        BY <3>3, <4>2 DEF IndexRead, Die, Idle
      <4> QED  BY <4>1, <4>2
    <3>4. CASE IndexStat
      <4>1. op' = Idle
        BY <3>4 DEF IndexStat, Die
      <4> QED  BY <4>1 DEF Idle
    <3>5. CASE WriteFile
      BY <3>5 DEF WriteFile, TypeOK, Op
    <3> QED  BY <1>10, <3>1, <3>2, <3>3, <3>4, <3>5
  <2> QED  BY <1>s, <2>1
<1>11. ASSUME UNCHANGED vars  PROVE \/ op'.path \in raced' \/ disk'[op'.path] \in Broken \/ HashMatches(op.path)'
  BY <1>1, <1>11 DEF vars
<1> QED
  BY <1>2, <1>3, <1>5, <1>6, <1>7, <1>8, <1>9, <1>10, <1>11
  DEF Next, User, Tool, Fault, HandlerStep

\* Inv is inductive.
THEOREM InvInductive == Spec => []Inv
<1>1. Init => Inv
  <2> SUFFICES ASSUME Init PROVE Inv
    OBVIOUS
  <2>1. <<>> \in Seq({"change", "unlink"}) /\ 0 \in 0..MaxRetries
    BY ConstantsAssumption DEF ConstantsAssumption
  <2>2. Idle \in Op
    BY ConstantsAssumption DEF Op, Idle
  <2>3. TypeOK
    <3>1. disk \in [Paths -> Contents \cup {NoFile}]
      BY ConstantsAssumption DEF Init, ConstantsAssumption
    <3>2. ev \in [Paths -> Seq({"change", "unlink"})] /\ retry \in [Paths -> 0..MaxRetries]
      BY <2>1 DEF Init
    <3>3. userOps \in 0..MaxUserOps /\ toolOps \in 0..MaxToolOps /\ faults \in 0..MaxFaults
      BY ConstantsAssumption DEF Init, ConstantsAssumption
    <3> QED  BY <2>2, <3>1, <3>2, <3>3 DEF Init, TypeOK
  <2> QED  BY <2>3 DEF Init, Inv, HandlerInv, MtimeSkipSound, AgeInv, NormalizerSafe, Idle
<1>2. Inv /\ [Next]_vars => Inv'
  BY ConstantsAssumption, TypeStep, HandlerInvStep, MtimeStep, AgeStep, NormalizerStep DEF Inv
<1> QED  BY <1>1, <1>2, PTL DEF Spec

\* The variables keep their types, for every vault and every bound.
THEOREM TypeCorrect == Spec => []TypeOK
<1>1. Inv => TypeOK
  BY DEF Inv
<1> QED  BY <1>1, InvInductive, PTL

\* For every vault: a file that the reconciler or the startup index skips by its
\* modification time holds the text its row was made of, unless a save had the row's time or
\* came between indexFile's read and stat.
THEOREM SkippingIsSound == Spec => []MtimeSkipSound
<1>1. Inv => MtimeSkipSound
  BY DEF Inv
<1> QED  BY <1>1, InvInductive, PTL

\* For every vault: the normalizer replaces no text that parses and that the
\* database has not taken in, unless it was saved after the quiescence check.
THEOREM NormalizerIsSafe == Spec => []NormalizerSafe
<1>1. Inv => NormalizerSafe
  BY DEF Inv
<1> QED  BY <1>1, InvInductive, PTL
=============================================================================
