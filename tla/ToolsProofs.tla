----------------------------- MODULE ToolsProofs -----------------------------
(***************************************************************************)
(* Proofs about what works below the tool gate: the writers of the         *)
(* workspace (WorkspaceEdits), the shell manager (Shell) and the memories  *)
(* (Memory).                                                               *)
(***************************************************************************)
EXTENDS WorkspaceEdits, Shell, Memory, SequenceProofs, FiniteSetTheorems, SequenceTheorems

FileTexts  == 0..Empty
ChangeType == [path : Paths \cup {NoPath}, from : FileTexts, to : FileTexts]
OpType     == [op : OpKinds, path : Paths]
PropType   == [status : {"pending", "applied", "discarded"}, changes : Seq(ChangeType),
               applied : SUBSET Paths, error : BOOLEAN]
Pcs        == {"idle", "look", "write", "record", "mark", "failed", "apply", "rewind"}
TaskType   == [pc : Pcs, ops : Seq(OpType), i : Nat, seen : FileTexts,
               changes : Seq(ChangeType), prop : Nat, snap : Nat, left : SUBSET Paths]
SnapType   == UNION {[kept : [ps -> FileTexts], was : [ps -> FileTexts]] : ps \in SUBSET Paths}

StoreTypes ==
    /\ files \in [Paths -> FileTexts] /\ version \in 1..MaxVersion
    /\ proposals \in Seq(PropType)
    /\ wrote \in Seq(SUBSET Paths) /\ Len(wrote) = Len(proposals)
    /\ snaps \in Seq(SnapType)
    /\ clean \in [Tasks -> BOOLEAN]

\* A checkpoint keeps what a file held, or takes it for missing.
KeptOrMissing ==
    \A n \in DOMAIN snaps : \A p \in DOMAIN snaps[n].kept :
        snaps[n].kept[p] = snaps[n].was[p] \/ snaps[n].kept[p] = 0

\* How far task t, which is k, has come: an edit is at one of its operations; an
\* apply has written what it has passed, and an edit that is recorded everything;
\* a rewind has restored what it has passed, or could not remove it, unless
\* somebody else wrote since it began.
PlacedAs(t, k) ==
    /\ k.pc \in {"look", "write"} => k.i \in DOMAIN k.ops
    /\ k.pc \in {"mark", "apply"} =>
         /\ k.prop \in DOMAIN proposals /\ k.changes = proposals[k.prop].changes
         /\ \A j \in DOMAIN k.changes : k.pc = "mark" \/ j < k.i =>
              k.changes[j].path \in wrote[k.prop] \cup {NoPath}
    /\ k.pc = "apply" => k.i > 0
    /\ k.pc = "rewind" =>
         /\ k.i > 0
         /\ k.snap \in DOMAIN snaps
         /\ \A j \in DOMAIN k.ops : k.ops[j].path \in DOMAIN snaps[k.snap].kept
         /\ \A p \in DOMAIN snaps[k.snap].kept : \E j \in DOMAIN k.ops : k.ops[j].path = p
         /\ clean[t] => \A j \in DOMAIN k.ops : j < k.i =>
              \/ files[k.ops[j].path] = snaps[k.snap].kept[k.ops[j].path]
              \/ snaps[k.snap].kept[k.ops[j].path] = 0 /\ k.ops[j].path \in k.left

TasksPlaced ==
    /\ editTask \in [Tasks -> TaskType]
    /\ \A t \in Tasks : PlacedAs(t, editTask[t])

EditInv == StoreTypes /\ KeptOrMissing /\ AppliedWasWritten /\ TasksPlaced

-----------------------------------------------------------------------------
(* Frames.                                                                   *)

\* Nothing that a task relies on is taken back: proposals keep their changes, what
\* was written stays recorded, checkpoints stay.
RecordsKept ==
    /\ \A j \in DOMAIN proposals :
         /\ j \in DOMAIN proposals'
         /\ proposals'[j].changes = proposals[j].changes
         /\ wrote[j] \subseteq wrote'[j]
    /\ \A j \in DOMAIN snaps : j \in DOMAIN snaps' /\ snaps'[j] = snaps[j]

\* A task stays where it is when another one writes, or nobody does.
LEMMA StaysPlaced ==
    ASSUME NEW t, NEW k, PlacedAs(t, k), RecordsKept,
           (files' = files /\ clean'[t] = clean[t]) \/ clean'[t] = FALSE
    PROVE  PlacedAs(t, k)'
  BY DEF PlacedAs, RecordsKept

LEMMA PlacedNext ==
    ASSUME NEW u, NEW m, editTask'[u] = m, PlacedAs(u, m)'
    PROVE  PlacedAs(u, editTask[u])'
  BY DEF PlacedAs

\* Only task t moves.
LEMMA OneTask ==
    ASSUME TasksPlaced, RecordsKept, NEW t \in Tasks, NEW k \in TaskType,
           editTask' = [editTask EXCEPT ![t] = k],
           PlacedAs(t, k)',
           \A u \in Tasks : u # t =>
               (files' = files /\ clean'[u] = clean[u]) \/ clean'[u] = FALSE
    PROVE  TasksPlaced'
<1>1. editTask' \in [Tasks -> TaskType]
  BY DEF TasksPlaced
<1>2. ASSUME NEW u \in Tasks PROVE PlacedAs(u, editTask[u])' 
  <2>1. CASE u = t
    <3>1. editTask'[u] = k
      BY <2>1 DEF TasksPlaced
    <3> QED BY <2>1, <3>1, PlacedNext
  <2>2. CASE u # t
    <3>1. PICK m : m = editTask[u]
      OBVIOUS
    <3>2. editTask'[u] = m
      BY <2>2, <3>1 DEF TasksPlaced
    <3>3. PlacedAs(u, m)'
      BY <2>2, <3>1, StaysPlaced DEF TasksPlaced
    <3> QED BY <3>2, <3>3, PlacedNext
  <2> QED BY <2>1, <2>2
<1> QED BY <1>1, <1>2 DEF TasksPlaced

\* No task moves and no file is written.
LEMMA NoTaskMoves ==
    ASSUME TasksPlaced, RecordsKept, UNCHANGED <<editTask, files, clean>>
    PROVE  TasksPlaced'
<1>1. ASSUME NEW u \in Tasks PROVE PlacedAs(u, editTask[u])'
  <2>1. PICK m : m = editTask[u]
    OBVIOUS
  <2>2. PlacedAs(u, m)'
    BY <2>1, StaysPlaced DEF TasksPlaced
  <2> QED BY <2>1, <2>2, PlacedNext
<1> QED BY <1>1 DEF TasksPlaced

\* A step that only moves task t.
LEMMA TaskMoves ==
    ASSUME EditInv, NEW t \in Tasks, NEW k \in TaskType,
           editTask' = [editTask EXCEPT ![t] = k], PlacedAs(t, k),
           UNCHANGED <<files, version, proposals, snaps, wrote, clean>>
    PROVE  EditInv'
<1>1. StoreTypes' /\ KeptOrMissing' /\ AppliedWasWritten'
  BY DEF EditInv, StoreTypes, KeptOrMissing, AppliedWasWritten
<1>2. RecordsKept
  BY DEF RecordsKept
<1>3. PlacedAs(t, k)'
  BY DEF PlacedAs
<1> QED BY <1>1, <1>2, <1>3, OneTask DEF EditInv

-----------------------------------------------------------------------------
(* Types of the records.                                                     *)

LEMMA NoTaskTyped == NoTask \in TaskType /\ NoTask.pc = "idle" /\ NoTask.i = 1
  BY EditsAssumption DEF NoTask, TaskType, Pcs, FileTexts, Empty

LEMMA TaskFields ==
    ASSUME NEW k \in TaskType
    PROVE  /\ k.pc \in Pcs /\ k.ops \in Seq(OpType) /\ k.i \in Nat /\ k.seen \in FileTexts
           /\ k.changes \in Seq(ChangeType) /\ k.prop \in Nat /\ k.snap \in Nat
           /\ k.left \in SUBSET Paths
  BY DEF TaskType

LEMMA TaskExcept ==
    ASSUME NEW k \in TaskType
    PROVE  /\ \A x \in Pcs : [k EXCEPT !.pc = x] \in TaskType
           /\ \A x \in Seq(OpType) : [k EXCEPT !.ops = x] \in TaskType
           /\ \A x \in Nat : [k EXCEPT !.i = x] \in TaskType
           /\ \A x \in FileTexts : [k EXCEPT !.seen = x] \in TaskType
           /\ \A x \in Seq(ChangeType) : [k EXCEPT !.changes = x] \in TaskType
           /\ \A x \in Nat : [k EXCEPT !.prop = x] \in TaskType
           /\ \A x \in Nat : [k EXCEPT !.snap = x] \in TaskType
           /\ \A x \in SUBSET Paths : [k EXCEPT !.left = x] \in TaskType
  BY DEF TaskType

\* A list as TLC enumerates them is a sequence.
LEMMA ListIsSeq ==
    ASSUME NEW S, NEW n \in Nat, NEW f \in [1..n -> S]
    PROVE  f \in Seq(S) /\ Len(f) = n /\ DOMAIN f = 1..n
  OBVIOUS

-----------------------------------------------------------------------------
(* The edit tools.                                                           *)

LEMMA StartEditInv ==
    ASSUME EditInv, NEW t \in Tasks, StartEdit(t)
    PROVE  EditInv'
<1>1. PICK n \in 1..MaxFiles : \E ops \in [1..n -> OpType] :
        editTask' = [editTask EXCEPT ![t] = [NoTask EXCEPT !.pc = "look", !.ops = ops]]
  BY DEF StartEdit, OpType
<1>a. PICK ops \in [1..n -> OpType] :
        editTask' = [editTask EXCEPT ![t] = [NoTask EXCEPT !.pc = "look", !.ops = ops]]
  BY <1>1
<1>2. ops \in Seq(OpType) /\ DOMAIN ops = 1..n /\ 1 \in DOMAIN ops
  BY ListIsSeq, EditsAssumption
<1>3. PICK k : k = [NoTask EXCEPT !.pc = "look", !.ops = ops]
  OBVIOUS
<1>4. k = [[NoTask EXCEPT !.pc = "look"] EXCEPT !.ops = ops]
  BY <1>3
<1>5. k \in TaskType
  BY <1>2, <1>4, NoTaskTyped, TaskExcept DEF Pcs
<1>6. k.pc = "look" /\ k.i = 1 /\ k.ops = ops
  BY <1>3 DEF NoTask
<1>7. PlacedAs(t, k)
  BY <1>2, <1>6 DEF PlacedAs
<1> QED BY <1>a, <1>3, <1>5, <1>7, TaskMoves DEF StartEdit

LEMMA LookAtInv ==
    ASSUME EditInv, NEW t \in Tasks, LookAt(t)
    PROVE  EditInv'
<1>1. PICK e \in TaskType : e = editTask[t]
  BY DEF EditInv, TasksPlaced
<1>2. e.pc = "look" /\ e.i \in DOMAIN e.ops /\ e.ops \in Seq(OpType)
  BY <1>1, TaskFields DEF LookAt, TaskAt, EditInv, TasksPlaced, PlacedAs
<1>3. e.ops[e.i] \in OpType
  BY <1>2
<1>4. PICK here \in FileTexts : here = files[CurrentOp(t).path]
  BY <1>1, <1>3 DEF CurrentOp, OpType, EditInv, StoreTypes
<1>5. PICK x \in {"write", "failed"} :
        editTask' = [editTask EXCEPT ![t].seen = here, ![t].pc = x]
  BY <1>4 DEF LookAt
<1>6. PICK k : k = [[e EXCEPT !.seen = here] EXCEPT !.pc = x]
  OBVIOUS
<1>7. k \in TaskType
  BY <1>1, <1>5, <1>6, <1>4, TaskExcept DEF Pcs
<1>8. editTask' = [editTask EXCEPT ![t] = k]
  BY <1>1, <1>5, <1>6 DEF EditInv, TasksPlaced
<1>9. k.pc = x /\ k.i = e.i /\ k.ops = e.ops
  BY <1>6 DEF TaskType
<1>10. PlacedAs(t, k)
  BY <1>2, <1>5, <1>9 DEF PlacedAs
<1> QED BY <1>7, <1>8, <1>10, TaskMoves DEF LookAt

LEMMA FailOpInv ==
    ASSUME EditInv, NEW t \in Tasks, FailOp(t)
    PROVE  EditInv'
<1>1. PICK e \in TaskType : e = editTask[t]
  BY DEF EditInv, TasksPlaced
<1>2. PICK k : k = [e EXCEPT !.pc = "failed"]
  OBVIOUS
<1>3. k \in TaskType /\ k.pc = "failed"
  <2>1. k \in TaskType
    BY <1>2, TaskExcept DEF Pcs
  <2> QED BY <2>1, <1>2 DEF TaskType
<1>4. editTask' = [editTask EXCEPT ![t] = k]
  BY <1>1, <1>2 DEF FailOp, EditInv, TasksPlaced
<1>5. PlacedAs(t, k)
  BY <1>3 DEF PlacedAs
<1> QED BY <1>3, <1>4, <1>5, TaskMoves DEF FailOp

\* A task that ends leaves nothing to say about it.
LEMMA TaskEndsInv ==
    ASSUME EditInv, NEW t \in Tasks, EndFailed(t) \/ EndRewind(t)
    PROVE  EditInv'
<1>1. PlacedAs(t, NoTask)
  BY NoTaskTyped DEF PlacedAs
<1> QED BY <1>1, NoTaskTyped, TaskMoves DEF EndFailed, EndRewind

\* A write by task t.
LEMMA WriteFrame ==
    ASSUME EditInv, NEW t \in Tasks, NEW p \in Paths, NEW v \in FileTexts, Write(t, p, v)
    PROVE  /\ files' \in [Paths -> FileTexts] /\ clean' \in [Tasks -> BOOLEAN]
           /\ \A q \in Paths : files'[q] = IF q = p THEN v ELSE files[q]
           /\ \A u \in Tasks : u # t => clean'[u] = FALSE
           /\ clean'[t] = clean[t]
  BY DEF EditInv, StoreTypes, Write

LEMMA WriteOpInv ==
    ASSUME EditInv, NEW t \in Tasks, WriteOp(t)
    PROVE  EditInv'
<1>0. StoreTypes /\ TasksPlaced
  BY DEF EditInv
<1>1. PICK e \in TaskType : e = editTask[t]
  BY DEF EditInv, TasksPlaced
<1>2. /\ e.pc = "write" /\ e.i \in DOMAIN e.ops /\ e.ops \in Seq(OpType)
      /\ e.i \in Nat /\ e.seen \in FileTexts /\ e.changes \in Seq(ChangeType)
  BY <1>1, TaskFields DEF WriteOp, TaskAt, EditInv, TasksPlaced, PlacedAs
<1>3. PICK o \in OpType : o = CurrentOp(t)
  BY <1>1, <1>2 DEF CurrentOp
<1>4. o.path \in Paths
  BY DEF OpType
<1>5. PICK new \in FileTexts : new = IF o.op = "delete" THEN 0 ELSE version + 1
  BY <1>0, EditsAssumption DEF WriteOp, StoreTypes, FileTexts, Empty
<1>6. /\ version' \in 1..MaxVersion /\ Write(t, o.path, new)
      /\ UNCHANGED <<proposals, snaps, wrote>>
  BY <1>0, <1>3, <1>5, EditsAssumption DEF WriteOp, StoreTypes
<1>7. Change(o.path, e.seen, new) \in ChangeType
  BY <1>2, <1>4, <1>5 DEF Change, ChangeType
<1>8. PICK cs \in Seq(ChangeType) : cs = Append(e.changes, Change(o.path, e.seen, new))
  <2>1. PICK ch \in ChangeType : ch = Change(o.path, e.seen, new)
    BY <1>7
  <2> QED BY <1>2, <2>1, AppendProperties
<1>9. PICK x \in {"record", "look"} : x = IF e.i = Len(e.ops) THEN "record" ELSE "look"
  OBVIOUS
<1>10. editTask' = [editTask EXCEPT ![t].changes = cs, ![t].i = e.i + 1, ![t].pc = x]
  BY <1>0, <1>1, <1>3, <1>5, <1>8, <1>9 DEF WriteOp, TasksPlaced
<1>11. PICK k : k = [[[e EXCEPT !.changes = cs] EXCEPT !.i = e.i + 1] EXCEPT !.pc = x]
  OBVIOUS
<1>12. k \in TaskType
  <2>1. e.i + 1 \in Nat /\ x \in Pcs
    BY <1>2, <1>9 DEF Pcs
  <2> QED BY <1>8, <1>11, <2>1, TaskExcept
<1>13. editTask' = [editTask EXCEPT ![t] = k]
  BY <1>0, <1>1, <1>10, <1>11 DEF TasksPlaced
<1>14. k.pc = x /\ k.i = e.i + 1 /\ k.ops = e.ops
  BY <1>11 DEF TaskType
<1>15. PlacedAs(t, k)'
  <2>1. x = "look" => e.i + 1 \in DOMAIN e.ops
    BY <1>2, <1>9
  <2> QED BY <1>9, <1>14, <2>1 DEF PlacedAs
<1>16. StoreTypes'
  BY <1>0, <1>4, <1>6, WriteFrame DEF StoreTypes
<1>17. KeptOrMissing' /\ AppliedWasWritten'
  BY <1>6 DEF EditInv, KeptOrMissing, AppliedWasWritten
<1>18. RecordsKept
  BY <1>6 DEF RecordsKept
<1>19. TasksPlaced'
  BY <1>0, <1>4, <1>6, <1>12, <1>13, <1>15, <1>18, WriteFrame, OneTask
<1> QED BY <1>16, <1>17, <1>19 DEF EditInv

\* A new proposal stands behind the ones that are there.
LEMMA ProposalAdded ==
    ASSUME StoreTypes, NEW c \in PropType, NEW w \in SUBSET Paths,
           proposals' = Append(proposals, c), wrote' = Append(wrote, w)
    PROVE  /\ proposals' \in Seq(PropType) /\ wrote' \in Seq(SUBSET Paths)
           /\ Len(wrote') = Len(proposals')
           /\ DOMAIN proposals' = DOMAIN proposals \cup {Len(proposals) + 1}
           /\ \A j \in DOMAIN proposals : proposals'[j] = proposals[j] /\ wrote'[j] = wrote[j]
           /\ proposals'[Len(proposals) + 1] = c /\ wrote'[Len(proposals) + 1] = w
  BY DEF StoreTypes

LEMMA PathsTyped ==
    ASSUME NEW cs \in Seq(ChangeType)
    PROVE  /\ PathsOf(cs) \in SUBSET Paths
           /\ \A j \in DOMAIN cs : cs[j].path \in PathsOf(cs) \cup {NoPath}
<1>1. \A k \in DOMAIN cs : cs[k] \in ChangeType
  OBVIOUS
<1> QED BY <1>1 DEF PathsOf, ChangeType

LEMMA RecordEditInv ==
    ASSUME EditInv, NEW t \in Tasks, RecordEdit(t)
    PROVE  EditInv'
<1>0. StoreTypes /\ TasksPlaced /\ KeptOrMissing /\ AppliedWasWritten
  BY DEF EditInv
<1>1. PICK e \in TaskType : e = editTask[t]
  BY DEF EditInv, TasksPlaced
<1>2. PICK c : c = Proposal("pending", e.changes, {})
  OBVIOUS
<1>3. /\ e.changes \in Seq(ChangeType) /\ PathsOf(e.changes) \in SUBSET Paths
      /\ \A j \in DOMAIN e.changes : e.changes[j].path \in PathsOf(e.changes) \cup {NoPath}
  BY TaskFields, PathsTyped
<1>4. c \in PropType /\ c.status = "pending" /\ c.changes = e.changes
  BY <1>2, <1>3 DEF Proposal, PropType
<1>5. /\ proposals' = Append(proposals, c) /\ wrote' = Append(wrote, PathsOf(e.changes))
      /\ UNCHANGED <<files, version, snaps, clean>>
  BY <1>1, <1>2 DEF RecordEdit
<1>6. StoreTypes'
  BY <1>0, <1>3, <1>4, <1>5, ProposalAdded DEF StoreTypes
<1>a. /\ DOMAIN proposals' = DOMAIN proposals \cup {Len(proposals) + 1}
      /\ \A j \in DOMAIN proposals : proposals'[j] = proposals[j] /\ wrote'[j] = wrote[j]
      /\ proposals'[Len(proposals) + 1] = c /\ wrote'[Len(proposals) + 1] = PathsOf(e.changes)
  BY <1>0, <1>3, <1>4, <1>5, ProposalAdded
<1>7. KeptOrMissing' /\ AppliedWasWritten'
  BY <1>0, <1>4, <1>5, <1>a DEF KeptOrMissing, AppliedWasWritten
<1>8. RecordsKept
  BY <1>5, <1>a DEF RecordsKept
<1>9. PICK n \in Nat : n = Len(proposals) + 1
  BY <1>0 DEF StoreTypes
<1>10. PICK k : k = [[e EXCEPT !.pc = "mark"] EXCEPT !.prop = n]
  OBVIOUS
<1>11. k \in TaskType
  BY <1>10, TaskExcept DEF Pcs
<1>12. editTask' = [editTask EXCEPT ![t] = k]
  BY <1>0, <1>1, <1>9, <1>10 DEF RecordEdit, TasksPlaced
<1>13. k.pc = "mark" /\ k.prop = n /\ k.changes = e.changes
  BY <1>10 DEF TaskType
<1>14. PlacedAs(t, k)'
  BY <1>3, <1>4, <1>9, <1>13, <1>a DEF PlacedAs
<1>15. TasksPlaced'
  BY <1>0, <1>5, <1>8, <1>11, <1>12, <1>14, OneTask
<1> QED BY <1>6, <1>7, <1>15 DEF EditInv

-----------------------------------------------------------------------------
(* Proposals.                                                                *)

LEMMA ProposeInv ==
    ASSUME EditInv, Propose
    PROVE  EditInv'
<1>0. StoreTypes /\ TasksPlaced /\ KeptOrMissing /\ AppliedWasWritten
  BY DEF EditInv
<1> DEFINE Real == {c \in [path : Paths \cup {NoPath}, from : 1..MaxVersion, to : 1..MaxVersion] :
                      Differs(c)}
<1>1. PICK n \in 1..MaxFiles : \E real \in [1..n -> Real] :
        /\ proposals' = Append(proposals, Proposal("pending", real, {}))
        /\ wrote' = Append(wrote, {})
  BY DEF Propose
<1>2. PICK real \in [1..n -> Real] :
        /\ proposals' = Append(proposals, Proposal("pending", real, {}))
        /\ wrote' = Append(wrote, {})
  BY <1>1
<1>3. \A j \in 1..n : real[j] \in ChangeType
  <2>1. 1..MaxVersion \subseteq FileTexts
    BY EditsAssumption DEF FileTexts, Empty
  <2>2. \A c \in Real : c \in ChangeType
    BY <2>1 DEF ChangeType
  <2> HIDE DEF Real
  <2> QED BY <2>2
<1>4. real \in Seq(ChangeType) /\ DOMAIN real = 1..n
  <2>1. real \in [1..n -> ChangeType] /\ n \in Nat
    BY <1>3, EditsAssumption
  <2> HIDE DEF Real
  <2> QED BY <2>1, ListIsSeq
<1> HIDE DEF Real
<1>5. PICK c : c = Proposal("pending", real, {})
  OBVIOUS
<1>6. c \in PropType /\ c.status = "pending" /\ c.changes = real /\ {} \in SUBSET Paths
  BY <1>4, <1>5 DEF Proposal, PropType
<1>7. proposals' = Append(proposals, c) /\ UNCHANGED <<files, version, snaps, editTask, clean>>
  BY <1>2, <1>5 DEF Propose
<1>8. StoreTypes'
  BY <1>0, <1>2, <1>6, <1>7, ProposalAdded DEF StoreTypes
<1>9. KeptOrMissing' /\ AppliedWasWritten'
  <2>1. /\ DOMAIN proposals' = DOMAIN proposals \cup {Len(proposals) + 1}
        /\ \A j \in DOMAIN proposals : proposals'[j] = proposals[j] /\ wrote'[j] = wrote[j]
        /\ proposals'[Len(proposals) + 1] = c
    BY <1>0, <1>2, <1>6, <1>7, ProposalAdded
  <2>2. KeptOrMissing'
    BY <1>0, <1>7 DEF KeptOrMissing
  <2>3. AppliedWasWritten'
    BY <1>0, <1>6, <2>1 DEF AppliedWasWritten
  <2> QED BY <2>2, <2>3
<1>10. RecordsKept
  BY <1>0, <1>2, <1>6, <1>7, ProposalAdded DEF RecordsKept
<1>11. TasksPlaced'
  BY <1>0, <1>7, <1>10, NoTaskMoves
<1> QED BY <1>8, <1>9, <1>11 DEF EditInv

LEMMA StartApplyInv ==
    ASSUME EditInv, NEW t \in Tasks, StartApply(t)
    PROVE  EditInv'
<1>0. StoreTypes
  BY DEF EditInv
<1>1. PICK n \in DOMAIN proposals :
        editTask' = [editTask EXCEPT ![t] = [NoTask EXCEPT !.pc = "apply", !.prop = n,
                                               !.changes = proposals[n].changes]]
  BY DEF StartApply
<1>2. n \in Nat /\ proposals[n] \in PropType
  BY <1>0 DEF StoreTypes
<1>3. PICK cs \in Seq(ChangeType) : cs = proposals[n].changes
  BY <1>2 DEF PropType
<1>4. PICK k : k = [[[NoTask EXCEPT !.pc = "apply"] EXCEPT !.prop = n] EXCEPT !.changes = cs]
  OBVIOUS
<1>5. k \in TaskType
  BY <1>2, <1>3, <1>4, NoTaskTyped, TaskExcept DEF Pcs
<1>6. editTask' = [editTask EXCEPT ![t] = k]
  BY <1>1, <1>3, <1>4
<1>7. k.pc = "apply" /\ k.i = 1 /\ k.prop = n /\ k.changes = cs
  BY <1>4 DEF NoTask
<1>8. \A j \in DOMAIN cs : ~(j < 1)
  BY <1>3
<1>9. PlacedAs(t, k)
  BY <1>1, <1>3, <1>7, <1>8 DEF PlacedAs
<1> QED BY <1>5, <1>6, <1>9, TaskMoves DEF StartApply

\* A proposal whose status and error change keeps its changes.
LEMMA ProposalMarked ==
    ASSUME StoreTypes, NEW n \in DOMAIN proposals, NEW c \in PropType,
           c.changes = proposals[n].changes,
           proposals' = [proposals EXCEPT ![n] = c], wrote' = wrote, snaps' = snaps
    PROVE  /\ proposals' \in Seq(PropType) /\ Len(proposals') = Len(proposals)
           /\ DOMAIN proposals' = DOMAIN proposals
           /\ \A j \in DOMAIN proposals : proposals'[j] = IF j = n THEN c ELSE proposals[j]
           /\ RecordsKept
<1>1. /\ proposals' \in Seq(PropType) /\ Len(proposals') = Len(proposals)
      /\ DOMAIN proposals' = DOMAIN proposals
      /\ \A j \in DOMAIN proposals : proposals'[j] = IF j = n THEN c ELSE proposals[j]
  BY DEF StoreTypes
<1>2. RecordsKept
  BY <1>1 DEF RecordsKept
<1> QED BY <1>1, <1>2

LEMMA DiscardInv ==
    ASSUME EditInv, NEW n \in DOMAIN proposals, Discard(n)
    PROVE  EditInv'
<1>0. StoreTypes /\ TasksPlaced /\ KeptOrMissing /\ AppliedWasWritten
  BY DEF EditInv
<1>1. PICK q \in PropType : q = proposals[n]
  BY <1>0 DEF StoreTypes
<1>2. PICK c : c = [q EXCEPT !.status = "discarded"]
  OBVIOUS
<1>3. c \in PropType /\ c.changes = q.changes /\ c.status = "discarded"
  BY <1>2 DEF PropType
<1>4. /\ proposals' = [proposals EXCEPT ![n] = c]
      /\ UNCHANGED <<files, version, snaps, editTask, wrote, clean>>
  BY <1>1, <1>2 DEF Discard
<1>5. StoreTypes'
  BY <1>0, <1>1, <1>3, <1>4, ProposalMarked DEF StoreTypes
<1>6. KeptOrMissing' /\ AppliedWasWritten'
  BY <1>0, <1>1, <1>3, <1>4, ProposalMarked DEF KeptOrMissing, AppliedWasWritten
<1>7. TasksPlaced'
  BY <1>0, <1>1, <1>3, <1>4, ProposalMarked, NoTaskMoves
<1> QED BY <1>5, <1>6, <1>7 DEF EditInv

\* An apply has written every change that names a file when it has passed the last
\* one, an edit when it is recorded.
LEMMA MarkInv ==
    ASSUME EditInv, NEW t \in Tasks, MarkApplied(t) \/ MarkEdit(t)
    PROVE  EditInv'
<1>0. StoreTypes /\ TasksPlaced /\ KeptOrMissing /\ AppliedWasWritten
  BY DEF EditInv
<1>1. PICK e \in TaskType : e = editTask[t]
  BY DEF EditInv, TasksPlaced
<1>2. /\ e.pc = "mark" \/ (e.pc = "apply" /\ e.i > Len(e.changes))
      /\ PlacedAs(t, e) /\ e.changes \in Seq(ChangeType) /\ e.i \in Nat
  BY <1>0, <1>1, TaskFields DEF MarkApplied, MarkEdit, TaskAt, TasksPlaced
<1>3. PICK n \in DOMAIN proposals : n = e.prop
  BY <1>2 DEF PlacedAs
<1>4. PICK q \in PropType : q = proposals[n]
  BY <1>0 DEF StoreTypes
<1>5. PICK ps \in SUBSET Paths : ps = PathsOf(e.changes)
  BY <1>2, PathsTyped
<1>6. PICK c : c = [[[q EXCEPT !.status = "applied"] EXCEPT !.error = FALSE]
                         EXCEPT !.applied = ps]
  OBVIOUS
<1>7. c \in PropType /\ c.changes = q.changes /\ c.status = "applied"
  BY <1>6 DEF PropType
<1>8. proposals' = [proposals EXCEPT ![n] = c]
  BY <1>0, <1>1, <1>3, <1>4, <1>5, <1>6 DEF MarkApplied, MarkEdit, Mark, StoreTypes
<1>9. /\ editTask' = [editTask EXCEPT ![t] = NoTask]
      /\ UNCHANGED <<files, version, snaps, wrote, clean>>
  BY DEF MarkApplied, MarkEdit, Mark
<1>10. StoreTypes'
  BY <1>0, <1>4, <1>7, <1>8, <1>9, ProposalMarked DEF StoreTypes
<1>11. PathsOf(q.changes) \subseteq wrote[n]
  <2>1. q.changes = e.changes /\ \A j \in DOMAIN e.changes : e.pc = "mark" \/ j < e.i
    BY <1>2, <1>3, <1>4 DEF PlacedAs
  <2>2. \A j \in DOMAIN e.changes : e.changes[j].path \in wrote[n] \cup {NoPath}
    BY <1>2, <1>3, <2>1 DEF PlacedAs
  <2> QED BY <2>1, <2>2 DEF PathsOf
<1>12. KeptOrMissing' /\ AppliedWasWritten'
  BY <1>0, <1>4, <1>7, <1>8, <1>9, <1>11, ProposalMarked DEF KeptOrMissing, AppliedWasWritten
<1>13. PlacedAs(t, NoTask)'
  BY NoTaskTyped DEF PlacedAs
<1>14. TasksPlaced'
  BY <1>0, <1>4, <1>7, <1>8, <1>9, <1>13, NoTaskTyped, ProposalMarked, OneTask
<1> QED BY <1>10, <1>12, <1>14 DEF EditInv

LEMMA ApplyOneInv ==
    ASSUME EditInv, NEW t \in Tasks, ApplyOne(t)
    PROVE  EditInv'
<1>0. StoreTypes /\ TasksPlaced /\ KeptOrMissing /\ AppliedWasWritten
  BY DEF EditInv
<1>1. PICK e \in TaskType : e = editTask[t]
  BY DEF EditInv, TasksPlaced
<1>2. /\ e.pc = "apply" /\ PlacedAs(t, e) /\ e.i <= Len(e.changes)
      /\ e.changes \in Seq(ChangeType) /\ e.i \in Nat
  BY <1>0, <1>1, TaskFields DEF ApplyOne, TaskAt, TasksPlaced
<1>3. PICK n \in DOMAIN proposals : n = e.prop
  BY <1>2 DEF PlacedAs
<1>4. e.i \in DOMAIN e.changes
  BY <1>2 DEF PlacedAs
<1>5. PICK h \in ChangeType : h = e.changes[e.i]
  BY <1>2, <1>4
<1>6. Proposed(h) \in FileTexts
  BY EditsAssumption DEF ChangeType, Proposed, FileTexts, Empty
\* The task goes on to the next change, with this one written or passed over.
<1>a. PICK k : k = [e EXCEPT !.i = e.i + 1]
  OBVIOUS
<1>b. /\ k \in TaskType
      /\ k.pc = "apply" /\ k.i = e.i + 1 /\ k.prop = n /\ k.changes = e.changes
  <2>1. PICK m \in Nat : m = e.i + 1
    BY <1>2
  <2>2. [e EXCEPT !.i = m] \in TaskType
    BY TaskExcept
  <2>3. k \in TaskType
    BY <1>a, <2>1, <2>2, Zenon
  <2> QED BY <2>3, <1>2, <1>3, <1>a DEF TaskType
<1>c. /\ e.changes = proposals[n].changes /\ e.i + 1 > 0
      /\ \A j \in DOMAIN e.changes : j < e.i + 1 => j < e.i \/ j = e.i
      /\ \A j \in DOMAIN e.changes : j < e.i => e.changes[j].path \in wrote[n] \cup {NoPath}
  BY <1>2, <1>3 DEF PlacedAs
<1>d. CASE /\ h.path = NoPath
           /\ editTask' = [editTask EXCEPT ![t].i = @ + 1]
           /\ UNCHANGED <<files, clean, wrote, proposals>>
  <2>1. UNCHANGED <<files, version, proposals, snaps, wrote, clean>>
    BY <1>d DEF ApplyOne
  <2>2. editTask' = [editTask EXCEPT ![t] = k]
    BY <1>0, <1>1, <1>a, <1>d DEF TasksPlaced
  <2>3. \A j \in DOMAIN e.changes : j < e.i + 1 => e.changes[j].path \in wrote[n] \cup {NoPath}
    BY <1>5, <1>c, <1>d
  <2>4. PlacedAs(t, k)
    BY <1>3, <1>b, <1>c, <2>3 DEF PlacedAs
  <2> QED BY <1>b, <2>1, <2>2, <2>4, TaskMoves
<1>7. CASE /\ h.path # NoPath /\ Write(t, h.path, Proposed(h))
           /\ editTask' = [editTask EXCEPT ![t].i = @ + 1]
           /\ wrote' = [wrote EXCEPT ![n] = @ \cup {h.path}]
           /\ UNCHANGED proposals
  <2>1. UNCHANGED <<version, snaps>> /\ h.path \in Paths
    BY <1>7 DEF ApplyOne, ChangeType
  <2>2. /\ wrote' \in Seq(SUBSET Paths) /\ Len(wrote') = Len(wrote)
        /\ n \in DOMAIN wrote
        /\ \A j \in DOMAIN wrote : wrote'[j] = IF j = n THEN wrote[n] \cup {h.path} ELSE wrote[j]
    <3>1. n \in DOMAIN wrote /\ wrote[n] \cup {h.path} \in SUBSET Paths
      BY <1>0, <2>1 DEF StoreTypes
    <3> QED BY <1>0, <1>7, <3>1 DEF StoreTypes
  <2>3. StoreTypes'
    BY <1>0, <1>6, <1>7, <2>1, <2>2, WriteFrame DEF StoreTypes
  <2>4. DOMAIN proposals = DOMAIN wrote
    BY <1>0 DEF StoreTypes
  <2>5. KeptOrMissing' /\ AppliedWasWritten'
    BY <1>0, <1>7, <2>1, <2>2, <2>4 DEF KeptOrMissing, AppliedWasWritten
  <2>6. RecordsKept
    BY <1>7, <2>1, <2>2, <2>4 DEF RecordsKept
  <2>9. editTask' = [editTask EXCEPT ![t] = k]
    BY <1>0, <1>1, <1>7, <1>a DEF TasksPlaced
  <2>11. \A j \in DOMAIN e.changes : j < e.i + 1 => e.changes[j].path \in wrote'[n] \cup {NoPath}
    BY <1>5, <1>c, <2>2
  <2>12. PlacedAs(t, k)'
    BY <1>3, <1>7, <1>b, <1>c, <2>11 DEF PlacedAs
  <2>13. TasksPlaced'
    <3>1. \A u \in Tasks : u # t => clean'[u] = FALSE
      BY <1>6, <1>7, <2>1, WriteFrame
    <3> QED BY <1>0, <2>6, <1>b, <2>9, <2>12, <3>1, OneTask
  <2> QED BY <2>3, <2>5, <2>13 DEF EditInv
<1>8. CASE /\ h.path # NoPath
           /\ proposals' = [proposals EXCEPT ![n].error = TRUE]
           /\ editTask' = [editTask EXCEPT ![t] = NoTask]
           /\ UNCHANGED <<files, clean, wrote>>
  <2>1. UNCHANGED <<version, snaps>>
    BY DEF ApplyOne
  <2>2. PICK q \in PropType : q = proposals[n]
    BY <1>0 DEF StoreTypes
  <2>3. PICK c : c = [q EXCEPT !.error = TRUE]
    OBVIOUS
  <2>4. c \in PropType /\ c.changes = q.changes /\ c.status = q.status
    BY <2>3 DEF PropType
  <2>5. proposals' = [proposals EXCEPT ![n] = c]
    BY <1>8, <2>2, <2>3
  <2>6. StoreTypes'
    BY <1>0, <1>8, <2>1, <2>2, <2>4, <2>5, ProposalMarked DEF StoreTypes
  <2>7. KeptOrMissing' /\ AppliedWasWritten'
    BY <1>0, <1>8, <2>1, <2>2, <2>4, <2>5, ProposalMarked DEF KeptOrMissing, AppliedWasWritten
  <2>8. PlacedAs(t, NoTask)'
    BY NoTaskTyped DEF PlacedAs
  <2>9. TasksPlaced'
    BY <1>0, <1>8, <2>1, <2>2, <2>4, <2>5, <2>8, NoTaskTyped, ProposalMarked, OneTask
  <2> QED BY <2>6, <2>7, <2>9 DEF EditInv
<1> QED BY <1>1, <1>3, <1>5, <1>d, <1>7, <1>8 DEF ApplyOne

-----------------------------------------------------------------------------
(* Checkpoints.                                                              *)

LEMMA CheckpointInv ==
    ASSUME EditInv, NEW ps \in SUBSET Paths, Checkpoint(ps)
    PROVE  EditInv'
<1>0. StoreTypes /\ TasksPlaced
  BY DEF EditInv
<1>a. PICK unread \in SUBSET ps :
        snaps' = Append(snaps, [kept |-> [p \in ps |-> IF p \in unread THEN 0 ELSE files[p]],
                                was |-> [p \in ps |-> files[p]]])
  BY DEF Checkpoint
<1>b. PICK kept \in [ps -> FileTexts] : kept = [p \in ps |-> IF p \in unread THEN 0 ELSE files[p]]
  <2>1. 0 \in FileTexts /\ \A p \in ps : files[p] \in FileTexts
    BY <1>0, EditsAssumption DEF StoreTypes, FileTexts, Empty
  <2> QED BY <2>1
<1>c. PICK was \in [ps -> FileTexts] : was = [p \in ps |-> files[p]]
  BY <1>0 DEF StoreTypes
<1>1. PICK s : s = [kept |-> kept, was |-> was]
  OBVIOUS
<1>2. s \in SnapType
  BY <1>1 DEF SnapType
<1>3. snaps' = Append(snaps, s) /\ UNCHANGED <<files, version, proposals, editTask, wrote, clean>>
  BY <1>a, <1>b, <1>c, <1>1 DEF Checkpoint
<1>d. s.kept = kept /\ s.was = was /\ \A p \in ps : kept[p] = was[p] \/ kept[p] = 0
  BY <1>b, <1>c, <1>1
<1>4. /\ snaps' \in Seq(SnapType)
      /\ \A j \in DOMAIN snaps : j \in DOMAIN snaps' /\ snaps'[j] = snaps[j]
      /\ \A j \in DOMAIN snaps' : j \in DOMAIN snaps \/ snaps'[j] = s
  <2>1. snaps \in Seq(SnapType)
    BY <1>0 DEF StoreTypes
  <2> QED BY <1>2, <1>3, <2>1, AppendProperties
<1>5. StoreTypes' /\ AppliedWasWritten'
  BY <1>3, <1>4 DEF EditInv, StoreTypes, AppliedWasWritten
<1>6. RecordsKept
  BY <1>3, <1>4 DEF RecordsKept
<1>7. KeptOrMissing'
  <2>1. ASSUME NEW n \in DOMAIN snaps', NEW p \in DOMAIN snaps'[n].kept
        PROVE  snaps'[n].kept[p] = snaps'[n].was[p] \/ snaps'[n].kept[p] = 0
    <3>1. CASE n \in DOMAIN snaps
      BY <1>4, <2>1, <3>1 DEF EditInv, KeptOrMissing
    <3>2. CASE snaps'[n] = s
      BY <1>d, <2>1, <3>2
    <3> QED BY <1>4, <3>1, <3>2
  <2> QED BY <2>1 DEF KeptOrMissing
<1> QED BY <1>0, <1>3, <1>5, <1>6, <1>7, NoTaskMoves DEF EditInv

\* What a checkpoint keeps is a function from some of the paths.
LEMMA SnapShape ==
    ASSUME StoreTypes, NEW n \in DOMAIN snaps
    PROVE  /\ DOMAIN snaps[n].kept \in SUBSET Paths
           /\ \A p \in DOMAIN snaps[n].kept : snaps[n].kept[p] \in FileTexts
<1>1. snaps[n] \in SnapType
  BY DEF StoreTypes
<1>2. PICK ps \in SUBSET Paths : snaps[n].kept \in [ps -> FileTexts]
  BY <1>1 DEF SnapType
<1> QED BY <1>2

LEMMA StartRewindInv ==
    ASSUME EditInv, NEW t \in Tasks, StartRewind(t)
    PROVE  EditInv'
<1>0. StoreTypes /\ TasksPlaced
  BY DEF EditInv
<1>1. PICK n \in DOMAIN snaps :
        \E order \in [1..Cardinality(DOMAIN snaps[n].kept) -> DOMAIN snaps[n].kept] :
          /\ \A p \in DOMAIN snaps[n].kept : \E j \in DOMAIN order : order[j] = p
          /\ editTask' = [editTask EXCEPT ![t] = [NoTask EXCEPT !.pc = "rewind", !.snap = n,
               !.ops = [j \in DOMAIN order |-> [op |-> "update", path |-> order[j]]]]]
  BY DEF StartRewind
<1>2. PICK order \in [1..Cardinality(DOMAIN snaps[n].kept) -> DOMAIN snaps[n].kept] :
        /\ \A p \in DOMAIN snaps[n].kept : \E j \in DOMAIN order : order[j] = p
        /\ editTask' = [editTask EXCEPT ![t] = [NoTask EXCEPT !.pc = "rewind", !.snap = n,
             !.ops = [j \in DOMAIN order |-> [op |-> "update", path |-> order[j]]]]]
  BY <1>1
<1>3. DOMAIN snaps[n].kept \in SUBSET Paths /\ n \in Nat
  BY <1>0, SnapShape DEF StoreTypes
<1>4. PICK m \in Nat : m = Cardinality(DOMAIN snaps[n].kept)
  BY <1>3, EditsAssumption, FS_Subset, FS_CardinalityType
<1>5. DOMAIN order = 1..m /\ \A j \in 1..m : order[j] \in DOMAIN snaps[n].kept /\ order[j] \in Paths
  BY <1>3, <1>4
<1>6. PICK ops : ops = [j \in 1..m |-> [op |-> "update", path |-> order[j]]]
  OBVIOUS
<1>7. ops \in Seq(OpType) /\ DOMAIN ops = 1..m
  <2>1. ops \in [1..m -> OpType]
    BY <1>5, <1>6 DEF OpType, OpKinds
  <2> QED BY <2>1, ListIsSeq
<1>8. \A j \in 1..m : ops[j].path = order[j]
  BY <1>6
<1>9. PICK k : k = [[[NoTask EXCEPT !.pc = "rewind"] EXCEPT !.snap = n] EXCEPT !.ops = ops]
  OBVIOUS
<1>10. k \in TaskType
  BY <1>3, <1>7, <1>9, NoTaskTyped, TaskExcept DEF Pcs
<1>11. editTask' = [editTask EXCEPT ![t] = k]
  BY <1>2, <1>5, <1>6, <1>9
<1>12. k.pc = "rewind" /\ k.i = 1 /\ k.snap = n /\ k.ops = ops
  BY <1>9 DEF NoTask
<1>13. UNCHANGED <<files, version, proposals, snaps, wrote>> /\ clean' = [clean EXCEPT ![t] = TRUE]
  BY DEF StartRewind
<1>14. StoreTypes' /\ KeptOrMissing' /\ AppliedWasWritten'
  BY <1>13 DEF EditInv, StoreTypes, KeptOrMissing, AppliedWasWritten
<1>15. RecordsKept
  BY <1>13 DEF RecordsKept
<1>16. PlacedAs(t, k)'
  <2>1. \A p \in DOMAIN snaps[n].kept : \E j \in DOMAIN ops : ops[j].path = p
    BY <1>2, <1>5, <1>7, <1>8
  <2>2. \A j \in DOMAIN ops : ops[j].path \in DOMAIN snaps[n].kept /\ ~(j < 1)
    BY <1>5, <1>7, <1>8
  <2> QED BY <1>12, <1>13, <2>1, <2>2 DEF PlacedAs
<1>17. \A u \in Tasks : u # t => clean'[u] = clean[u]
  BY <1>0, <1>13 DEF StoreTypes
<1>18. TasksPlaced'
  BY <1>0, <1>10, <1>11, <1>13, <1>15, <1>16, <1>17, OneTask
<1> QED BY <1>14, <1>18, Zenon DEF EditInv

\* A restored file has the content of the checkpoint; the ones restored before it
\* keep theirs, or had the same path.
LEMMA RewindOneInv ==
    ASSUME EditInv, NEW t \in Tasks, RewindOne(t)
    PROVE  EditInv'
<1>0. StoreTypes /\ TasksPlaced
  BY DEF EditInv
<1>1. PICK e \in TaskType : e = editTask[t]
  BY DEF EditInv, TasksPlaced
<1>2. /\ e.pc = "rewind" /\ PlacedAs(t, e) /\ e.i <= Len(e.ops)
      /\ e.ops \in Seq(OpType) /\ e.i \in Nat
  BY <1>0, <1>1, TaskFields DEF RewindOne, TaskAt, TasksPlaced
<1>3. PICK n \in DOMAIN snaps : n = e.snap
  BY <1>2 DEF PlacedAs
<1>4. e.i \in DOMAIN e.ops
  BY <1>2 DEF PlacedAs
<1>5. PICK p \in Paths : p = e.ops[e.i].path /\ p \in DOMAIN snaps[n].kept
  BY <1>0, <1>2, <1>3, <1>4, SnapShape DEF PlacedAs
<1>6. PICK v \in FileTexts : v = snaps[n].kept[p]
  BY <1>0, <1>5, SnapShape
<1>7. UNCHANGED <<version, proposals, snaps, wrote>>
  BY DEF RewindOne
<1>8. RecordsKept /\ KeptOrMissing' /\ AppliedWasWritten'
  BY <1>7 DEF EditInv, KeptOrMissing, AppliedWasWritten, RecordsKept
<1>9. CASE RestoreFile(t) /\ editTask' = [editTask EXCEPT ![t].i = @ + 1]
  <2>1. Write(t, p, v)
    BY <1>1, <1>3, <1>5, <1>6, <1>9, Zenon DEF RestoreFile, CurrentOp, KeptFor
  <2>a. /\ clean'[t] = clean[t]
        /\ \A q \in Paths : files'[q] = IF q = p THEN v ELSE files[q]
    BY <1>0, <2>1 DEF Write, StoreTypes
  <2>2. StoreTypes'
    BY <1>0, <1>7, <2>1, WriteFrame DEF StoreTypes
  <2>3. PICK k : k = [e EXCEPT !.i = e.i + 1]
    OBVIOUS
  <2>4. k \in TaskType
    <3>1. e.i + 1 \in Nat
      BY <1>2
    <3> QED BY <2>3, <3>1, TaskExcept
  <2>5. editTask' = [editTask EXCEPT ![t] = k]
    BY <1>0, <1>1, <1>9, <2>3 DEF TasksPlaced
  <2>6. k.pc = "rewind" /\ k.i = e.i + 1 /\ k.snap = n /\ k.ops = e.ops /\ k.left = e.left
    BY <1>2, <1>3, <2>3 DEF TaskType
  <2>7. /\ \A j \in DOMAIN e.ops : e.ops[j].path \in DOMAIN snaps[n].kept /\ e.ops[j].path \in Paths
        /\ \A q \in DOMAIN snaps[n].kept : \E j \in DOMAIN e.ops : e.ops[j].path = q
    BY <1>0, <1>2, <1>3, SnapShape DEF PlacedAs
  <2>8. ASSUME clean'[t], NEW j \in DOMAIN e.ops, j < e.i + 1
        PROVE  \/ files'[e.ops[j].path] = snaps[n].kept[e.ops[j].path]
               \/ snaps[n].kept[e.ops[j].path] = 0 /\ e.ops[j].path \in e.left
    <3>1. j < e.i \/ j = e.i
      BY <1>2, <2>8
    <3>2. clean[t]
      BY <2>a, <2>8
    <3>4. CASE e.ops[j].path = p
      BY <1>6, <2>a, <3>4
    <3>5. CASE e.ops[j].path # p
      <4>1. j < e.i
        BY <1>5, <3>1, <3>5
      <4>2. \/ files[e.ops[j].path] = snaps[n].kept[e.ops[j].path]
            \/ snaps[n].kept[e.ops[j].path] = 0 /\ e.ops[j].path \in e.left
        BY <1>2, <1>3, <3>2, <4>1 DEF PlacedAs
      <4> QED BY <2>7, <2>a, <3>5, <4>2
    <3> QED BY <3>4, <3>5
  <2>9. PlacedAs(t, k)'
    <3>1. e.i + 1 > 0
      BY <1>2
    <3> QED BY <1>3, <1>7, <2>6, <2>7, <2>8, <3>1 DEF PlacedAs
  <2>10. TasksPlaced'
    BY <1>0, <1>8, <2>1, <2>4, <2>5, <2>9, WriteFrame, OneTask
  <2> QED BY <1>8, <2>2, <2>10, Zenon DEF EditInv
<1>10. CASE editTask' = [editTask EXCEPT ![t] = NoTask] /\ UNCHANGED <<files, clean>>
  <2>1. PlacedAs(t, NoTask)
    BY NoTaskTyped DEF PlacedAs
  <2> QED BY <1>7, <1>10, <2>1, NoTaskTyped, TaskMoves
<1>11. CASE /\ KeptFor(t) = 0
            /\ editTask' = [editTask EXCEPT ![t].i = @ + 1, ![t].left = @ \cup {CurrentOp(t).path}]
            /\ UNCHANGED <<files, clean>>
  <2>1. PICK ls \in SUBSET Paths : ls = e.left \cup {p}
    BY TaskFields
  <2>2. PICK m \in Nat : m = e.i + 1
    BY <1>2
  <2>3. PICK k : k = [[e EXCEPT !.i = m] EXCEPT !.left = ls]
    OBVIOUS
  <2>4. k \in TaskType
    BY <2>3, TaskExcept
  <2>5. CurrentOp(t).path = p /\ snaps[n].kept[p] = 0
    BY <1>1, <1>3, <1>5, <1>11 DEF CurrentOp, KeptFor
  <2>6. editTask' = [editTask EXCEPT ![t] = k]
    BY <1>0, <1>1, <1>11, <2>1, <2>2, <2>3, <2>5 DEF TasksPlaced
  <2>7. k.pc = "rewind" /\ k.i = m /\ k.snap = n /\ k.ops = e.ops /\ k.left = ls
    BY <1>2, <1>3, <2>3 DEF TaskType
  <2>8. ASSUME clean[t], NEW j \in DOMAIN e.ops, j < m
        PROVE  \/ files[e.ops[j].path] = snaps[n].kept[e.ops[j].path]
               \/ snaps[n].kept[e.ops[j].path] = 0 /\ e.ops[j].path \in ls
    <3>1. CASE j = e.i
      BY <1>5, <2>1, <2>5, <3>1
    <3>2. CASE j < e.i
      BY <1>2, <1>3, <2>1, <2>8, <3>2 DEF PlacedAs
    <3> QED BY <1>2, <2>2, <2>8, <3>1, <3>2
  <2>9. /\ \A j \in DOMAIN e.ops : e.ops[j].path \in DOMAIN snaps[n].kept
        /\ \A q \in DOMAIN snaps[n].kept : \E j \in DOMAIN e.ops : e.ops[j].path = q
    BY <1>2, <1>3 DEF PlacedAs
  <2>10. PlacedAs(t, k)
    BY <1>2, <1>3, <2>2, <2>7, <2>8, <2>9 DEF PlacedAs
  <2> QED BY <1>7, <1>11, <2>4, <2>6, <2>10, TaskMoves
<1> QED BY <1>9, <1>10, <1>11 DEF RewindOne

-----------------------------------------------------------------------------

LEMMA EditInitInv == EditInit => EditInv
<1> SUFFICES ASSUME EditInit PROVE EditInv
  OBVIOUS
<1> USE EditsAssumption DEF EditInit
<1>1. StoreTypes
  BY DEF StoreTypes, FileTexts, Empty
<1>2. KeptOrMissing /\ AppliedWasWritten
  BY DEF KeptOrMissing, AppliedWasWritten
<1>3. TasksPlaced
  BY NoTaskTyped DEF TasksPlaced, PlacedAs
<1> QED BY <1>1, <1>2, <1>3 DEF EditInv

LEMMA EditNextInv == EditInv /\ [EditNext]_editVars => EditInv'
<1>1. EditInv /\ UNCHANGED editVars => EditInv'
  BY DEF editVars, EditInv, StoreTypes, KeptOrMissing, AppliedWasWritten, TasksPlaced, PlacedAs
<1> QED BY <1>1, StartEditInv, LookAtInv, WriteOpInv, FailOpInv, RecordEditInv, TaskEndsInv,
          StartApplyInv, ApplyOneInv, MarkInv, StartRewindInv, RewindOneInv, ProposeInv,
          DiscardInv, CheckpointInv
          DEF EditNext

LEMMA EditInvExact == EditInv => EditsExact
<1> SUFFICES ASSUME EditInv PROVE EditsExact
  OBVIOUS
<1>1. EditTypeOK
  <2>1. \A k \in DOMAIN proposals : proposals[k].status \in {"pending", "applied", "discarded"}
    <3>1. \A k \in DOMAIN proposals : proposals[k] \in PropType
      BY DEF EditInv, StoreTypes
    <3> QED BY <3>1 DEF PropType
  <2> QED BY <2>1 DEF EditInv, StoreTypes, KeptOrMissing, EditTypeOK, FileTexts
<1>2. RewindRestores
  <2>1. ASSUME NEW t \in Tasks, TaskAt(t, "rewind"), editTask[t].i > Len(editTask[t].ops),
               clean[t], NEW p \in DOMAIN snaps[editTask[t].snap].kept
        PROVE  \/ files[p] = snaps[editTask[t].snap].was[p]
               \/ /\ snaps[editTask[t].snap].kept[p] = 0
                  /\ files[p] = 0 \/ p \in editTask[t].left
    <3>1. editTask[t].ops \in Seq(OpType) /\ editTask[t].i \in Nat /\ PlacedAs(t, editTask[t])
      BY TaskFields DEF EditInv, TasksPlaced
    <3>2. PICK j \in DOMAIN editTask[t].ops : editTask[t].ops[j].path = p
      BY <2>1, <3>1 DEF PlacedAs, TaskAt
    <3>3. j < editTask[t].i
      BY <2>1, <3>1, <3>2
    <3>4. \/ files[p] = snaps[editTask[t].snap].kept[p]
          \/ snaps[editTask[t].snap].kept[p] = 0 /\ p \in editTask[t].left
      BY <2>1, <3>1, <3>2, <3>3 DEF PlacedAs, TaskAt
    <3>5. editTask[t].snap \in DOMAIN snaps
      BY <2>1, <3>1 DEF PlacedAs, TaskAt
    <3>6. \/ snaps[editTask[t].snap].kept[p] = snaps[editTask[t].snap].was[p]
          \/ snaps[editTask[t].snap].kept[p] = 0
      BY <2>1, <3>5 DEF EditInv, KeptOrMissing
    <3> QED BY <3>4, <3>6
  <2> QED BY <2>1 DEF RewindRestores, Rewound
<1> QED BY <1>1, <1>2 DEF EditInv, EditsExact

\* apply_proposal and the edit tools call a proposal applied only when every one of
\* its changes that names a file was written, and rewind_checkpoint leaves every file
\* as it was unless another task wrote meanwhile, or the checkpoint could not read
\* that file: for any number of tasks, files, proposals and checkpoints, whatever
\* fails in between.
THEOREM EditsCorrect == EditSpec => []EditsExact
  BY EditInitInv, EditNextInv, EditInvExact, PTL DEF EditSpec

-----------------------------------------------------------------------------
(* The shell manager. The invariant adds to the two properties the types, that *)
(* a job has no status before its pump has ended, that it knows only jobs that  *)
(* had ended when it started, and that a reader's offset lies in the log.        *)

Chunks  == Dirs \cup {"line", "[killed]"}
JobType == [proc : {"none", "running", "exited", "killed"},
            pump : {"none", "open", "pumping", "persist", "publish", "gone"},
            session : ShellNames \cup {NoName}, at : Dirs, pipe : Seq(Chunks),
            printed : Nat, log : Seq(Chunks), tail : Seq(Chunks),
            status : {Running, -1, 0, 1}, kill : BOOLEAN, code : {0, 1},
            after : SUBSET JobIds]
Shown   == Chunks \cup {"nothing", "leaked", "garbled", "noted"}
ReaderType == [offset : Nat, read : Seq(Shown), cut : {"no", "between", "inside"},
               cuts : SUBSET Nat]

\* A job has no status before its pump has ended, and was started after jobs that
\* had one.
JobOK(j) ==
    /\ jobs[j].pump # "gone" => jobs[j].status = Running
    /\ jobs[j].proc = "none" => jobs[j] = NoShellJob
    /\ \A i \in jobs[j].after : jobs[i].status # Running
    /\ reader[j].offset \in 0..Len(jobs[j].log)
    /\ Len(reader[j].read) = reader[j].offset
    /\ reader[j].cut # "no" => reader[j].offset + 1 \in reader[j].cuts

ShellInv ==
    /\ jobs \in [JobIds -> JobType]
    /\ cwds \in [ShellNames -> Dirs \cup {"unset"}]
    /\ reader \in [JobIds -> ReaderType]
    /\ \A j \in JobIds : JobOK(j)
    /\ CdPersists
    /\ ReadsResume

\* Job k has stored the directory it left: it is in the tail.
Stored(k) == (k.pump = "publish" \/ k.status \in {0, 1}) /\ k.tail # <<>> /\ Head(k.tail) \in Dirs

LEMMA CdPersistsAs ==
    CdPersists <=>
      \A n \in ShellNames : \A i \in JobIds : (jobs[i].session = n /\ Stored(jobs[i])) =>
        \E j \in JobIds :
            /\ jobs[j].session = n /\ Stored(jobs[j])
            /\ cwds[n] = Head(jobs[j].tail)
            /\ \A m \in JobIds : jobs[m].session = n /\ Stored(jobs[m]) => j \notin jobs[m].after
BY DEF CdPersists, Stored


\* A log only grows.
Grows(s, t) == Len(s) <= Len(t) /\ \A x \in 1..Len(s) : t[x] = s[x]

LEMMA GrowsRefl == ASSUME NEW S, NEW s \in Seq(S) PROVE Grows(s, s)
BY DEF Grows

LEMMA GrowsAppend ==
    ASSUME NEW S, NEW s \in Seq(S), NEW c \in S
    PROVE  Append(s, c) \in Seq(S) /\ Grows(s, Append(s, c))
BY DEF Grows

\* A step of one job, whatever it does to the directories of sessions: its log
\* grows and its status stays.
LEMMA JobSteps ==
    ASSUME ShellInv, NEW j \in JobIds, NEW k \in JobType,
           jobs' = [jobs EXCEPT ![j] = k], UNCHANGED reader,
           k.pump # "gone" => k.status = Running, k.proc # "none",
           \A i \in k.after : jobs[i].status # Running,
           jobs[j].status # Running => k.status # Running,
           Grows(jobs[j].log, k.log)
    PROVE  /\ jobs' \in [JobIds -> JobType]
           /\ \A i \in JobIds : JobOK(i)'
           /\ ReadsResume'
<1>1. jobs' \in [JobIds -> JobType]
  BY DEF ShellInv
<1>2. jobs'[j] = k /\ \A i \in JobIds : i # j => jobs'[i] = jobs[i]
  BY DEF ShellInv
<1>3. \A i \in JobIds : jobs[i].status # Running => jobs'[i].status # Running
  BY <1>2
<1>a. \A i \in JobIds : jobs[i] \in JobType /\ jobs'[i] \in JobType /\ reader[i] \in ReaderType
  BY <1>1 DEF ShellInv
<1>4. \A i \in JobIds : Grows(jobs[i].log, jobs'[i].log)
  BY <1>2, <1>a, GrowsRefl DEF JobType
<1>5. ASSUME NEW i \in JobIds
      PROVE  /\ reader[i].offset \in 0..Len(jobs'[i].log)
             /\ \A x \in 1..reader[i].offset : jobs'[i].log[x] = jobs[i].log[x]
  <2>1. jobs[i].log \in Seq(Chunks) /\ jobs'[i].log \in Seq(Chunks)
    BY <1>a DEF JobType
  <2>2. reader[i].offset \in 0..Len(jobs[i].log)
    BY DEF ShellInv, JobOK
  <2>3. Len(jobs[i].log) \in Nat /\ Len(jobs'[i].log) \in Nat
    BY <2>1
  <2> QED BY <2>2, <2>3, <1>4 DEF Grows
<1>6. ASSUME NEW i \in JobIds PROVE JobOK(i)'
  <2>1. jobs'[i].pump # "gone" => jobs'[i].status = Running
    BY <1>2 DEF ShellInv, JobOK
  <2>2. jobs'[i].proc = "none" => jobs'[i] = NoShellJob
    BY <1>2 DEF ShellInv, JobOK
  <2>3. \A m \in jobs'[i].after : m \in JobIds /\ jobs[m].status # Running
    BY <1>2, <1>a DEF ShellInv, JobOK, JobType
  <2>4. /\ Len(reader[i].read) = reader[i].offset
        /\ reader[i].cut # "no" => reader[i].offset + 1 \in reader[i].cuts
    BY DEF ShellInv, JobOK
  <2>5. reader' = reader
    OBVIOUS
  <2> QED BY <2>1, <2>2, <2>3, <2>4, <2>5, <1>3, <1>5 DEF JobOK, NoShellJob
<1>8. ReadsResume'
  BY <1>5 DEF ShellInv, ReadsResume
<1> QED BY <1>1, <1>6, <1>8

\* ... and one that neither stores a directory nor takes a stored one back.
LEMMA JobMoves ==
    ASSUME ShellInv, NEW j \in JobIds, NEW k \in JobType,
           jobs' = [jobs EXCEPT ![j] = k], UNCHANGED <<cwds, reader>>,
           k.pump # "gone" => k.status = Running, k.proc # "none",
           \A i \in k.after : jobs[i].status # Running,
           jobs[j].status # Running => k.status # Running,
           Grows(jobs[j].log, k.log),
           Stored(k) <=> Stored(jobs[j]),
           Stored(k) => k.tail = jobs[j].tail /\ k.session = jobs[j].session /\ k.after = jobs[j].after
    PROVE  ShellInv'
<1>1. jobs' \in [JobIds -> JobType] /\ (\A i \in JobIds : JobOK(i)') /\ ReadsResume'
  BY JobSteps
<1>2. jobs'[j] = k /\ \A i \in JobIds : i # j => jobs'[i] = jobs[i]
  BY DEF ShellInv
<1>3. CdPersists'
  <2>1. \A i \in JobIds : Stored(jobs'[i]) <=> Stored(jobs[i])
    BY <1>2
  <2>2. \A i \in JobIds : Stored(jobs[i]) =>
          jobs'[i].tail = jobs[i].tail /\ jobs'[i].session = jobs[i].session
          /\ jobs'[i].after = jobs[i].after
    BY <1>2
  <2>3. CdPersists
    BY DEF ShellInv
  <2>4. \A n \in ShellNames : \A i \in JobIds : (jobs'[i].session = n /\ Stored(jobs'[i])) =>
        \E m \in JobIds :
            /\ jobs'[m].session = n /\ Stored(jobs'[m])
            /\ cwds[n] = Head(jobs'[m].tail)
            /\ \A l \in JobIds : jobs'[l].session = n /\ Stored(jobs'[l]) => m \notin jobs'[l].after
    BY <2>1, <2>2, <2>3, CdPersistsAs
  <2> QED BY <2>4 DEF CdPersists, Stored
<1> QED BY <1>1, <1>3 DEF ShellInv

LEMMA NoShellJobTyped == NoShellJob \in JobType
BY ShellAssumption DEF NoShellJob, JobType, Running, NoName

LEMMA JobFields ==
    ASSUME ShellInv, NEW j \in JobIds
    PROVE  /\ jobs[j] \in JobType
           /\ jobs[j].pipe \in Seq(Chunks) /\ jobs[j].log \in Seq(Chunks)
           /\ jobs[j].tail \in Seq(Chunks) /\ jobs[j].printed \in Nat /\ jobs[j].code \in {0, 1}
           /\ jobs[j].at \in Dirs /\ jobs[j].session \in ShellNames \cup {NoName}
           /\ Grows(jobs[j].log, jobs[j].log)
           /\ \A i \in jobs[j].after : jobs[i].status # Running
BY GrowsRefl DEF ShellInv, JobOK, JobType

LEMMA JobExcept ==
    ASSUME NEW k \in JobType
    PROVE  /\ \A x \in {"none", "running", "exited", "killed"} : [k EXCEPT !.proc = x] \in JobType
           /\ \A x \in {"none", "open", "pumping", "persist", "publish", "gone"} :
                [k EXCEPT !.pump = x] \in JobType
           /\ \A x \in Dirs : [k EXCEPT !.at = x] \in JobType
           /\ \A x \in Seq(Chunks) : [k EXCEPT !.pipe = x] \in JobType
                                     /\ [k EXCEPT !.log = x] \in JobType
                                     /\ [k EXCEPT !.tail = x] \in JobType
           /\ \A x \in Nat : [k EXCEPT !.printed = x] \in JobType
           /\ \A x \in {Running, -1, 0, 1} : [k EXCEPT !.status = x] \in JobType
           /\ \A x \in BOOLEAN : [k EXCEPT !.kill = x] \in JobType
           /\ \A x \in {0, 1} : [k EXCEPT !.code = x] \in JobType
           /\ \A x \in SUBSET JobIds : [k EXCEPT !.after = x] \in JobType
           /\ \A x \in ShellNames \cup {NoName} : [k EXCEPT !.session = x] \in JobType
BY DEF JobType

LEMMA RunCommandInv ==
    ASSUME ShellInv, NEW j \in JobIds, RunCommand(j) PROVE ShellInv'
<1>1. PICK name \in ShellNames \cup {NoName} : \E k :
        /\ k = [NoShellJob EXCEPT !.proc = "running", !.pump = "open", !.session = name,
                         !.at = IF name = NoName THEN Root ELSE SessionCwd(name),
                         !.after = {i \in JobIds : jobs[i].status # Running}]
        /\ jobs' = [jobs EXCEPT ![j] = k]
  BY DEF RunCommand
<1>2. (IF name = NoName THEN Root ELSE SessionCwd(name)) \in Dirs
  BY ShellAssumption DEF SessionCwd, ShellInv
<1>3. PICK d \in Dirs : d = IF name = NoName THEN Root ELSE SessionCwd(name)
  BY <1>2
<1>4. PICK a \in SUBSET JobIds : a = {i \in JobIds : jobs[i].status # Running}
  OBVIOUS
<1>5. PICK k : /\ k = [NoShellJob EXCEPT !.proc = "running", !.pump = "open", !.session = name,
                                         !.at = d, !.after = a]
               /\ jobs' = [jobs EXCEPT ![j] = k]
  BY <1>1, <1>3, <1>4
<1>6. k = [[[[[NoShellJob EXCEPT !.proc = "running"] EXCEPT !.pump = "open"]
             EXCEPT !.session = name] EXCEPT !.at = d] EXCEPT !.after = a]
  BY <1>5
<1>7. k \in JobType
  BY <1>6, NoShellJobTyped, JobExcept
<1>8. k.proc = "running" /\ k.pump = "open" /\ k.status = Running /\ k.after = a /\ k.log = <<>>
  BY <1>6, NoShellJobTyped DEF NoShellJob
<1>9. jobs[j] = NoShellJob
  BY DEF RunCommand, ShellInv, JobOK
<1>10. ~Stored(k) /\ ~Stored(jobs[j]) /\ jobs[j].status = Running
  BY <1>8, <1>9 DEF Stored, NoShellJob, Running
<1>11. Grows(jobs[j].log, k.log)
  BY <1>8, <1>9 DEF NoShellJob, Grows
<1>12. \A i \in k.after : jobs[i].status # Running
  BY <1>4, <1>8
<1>13. UNCHANGED <<cwds, reader>>
  BY DEF RunCommand
<1> QED BY <1>5, <1>7, <1>8, <1>10, <1>11, <1>12, <1>13, JobMoves

\* A step that changes neither pump, status, log, tail, session nor start.
LEMMA QuietStep ==
    ASSUME ShellInv, NEW j \in JobIds, NEW k \in JobType,
           jobs' = [jobs EXCEPT ![j] = k], UNCHANGED <<cwds, reader>>, k.proc # "none",
           k.pump = jobs[j].pump, k.status = jobs[j].status, k.log = jobs[j].log,
           k.tail = jobs[j].tail, k.session = jobs[j].session, k.after = jobs[j].after
    PROVE  ShellInv'
<1>1. k.pump # "gone" => k.status = Running
  BY DEF ShellInv, JobOK
<1>2. Stored(k) <=> Stored(jobs[j])
  BY DEF Stored
<1> QED BY <1>1, <1>2, JobFields, JobMoves

LEMMA PrintsInv == ASSUME ShellInv, NEW j \in JobIds, Prints(j) PROVE ShellInv'
<1>3. PICK p \in Seq(Chunks), n \in Nat : p = Append(jobs[j].pipe, "line") /\ n = jobs[j].printed + 1
  <2>1. jobs[j].pipe \in Seq(Chunks) /\ "line" \in Chunks /\ jobs[j].printed \in Nat
    BY JobFields DEF Chunks
  <2>2. Append(jobs[j].pipe, "line") \in Seq(Chunks) /\ jobs[j].printed + 1 \in Nat
    BY <2>1, AppendProperties
  <2> QED BY <2>2
<1>1. PICK k : k = [[jobs[j] EXCEPT !.pipe = p] EXCEPT !.printed = n]
  OBVIOUS
<1>2. jobs' = [jobs EXCEPT ![j] = k]
  BY <1>1, <1>3, JobFields DEF Prints, ShellInv, JobType
<1>4. k \in JobType
  BY <1>1, JobFields, JobExcept
<1>5. k.proc = jobs[j].proc /\ k.pump = jobs[j].pump /\ k.status = jobs[j].status
      /\ k.log = jobs[j].log /\ k.tail = jobs[j].tail /\ k.session = jobs[j].session
      /\ k.after = jobs[j].after
  BY <1>1, JobFields DEF JobType
<1> QED BY <1>2, <1>4, <1>5, QuietStep DEF Prints

LEMMA CdInv == ASSUME ShellInv, NEW j \in JobIds, Cd(j) PROVE ShellInv'
<1>0. PICK d \in Dirs : \E k : k = [jobs[j] EXCEPT !.at = d] /\ jobs' = [jobs EXCEPT ![j] = k]
  BY DEF Cd
<1>1. PICK k : k = [jobs[j] EXCEPT !.at = d] /\ jobs' = [jobs EXCEPT ![j] = k]
  BY <1>0
<1>2. k \in JobType
  BY <1>1, JobFields, JobExcept
<1>3. k.proc = jobs[j].proc /\ k.pump = jobs[j].pump /\ k.status = jobs[j].status
      /\ k.log = jobs[j].log /\ k.tail = jobs[j].tail /\ k.session = jobs[j].session
      /\ k.after = jobs[j].after
  BY <1>1, JobFields DEF JobType
<1> QED BY <1>1, <1>2, <1>3, QuietStep DEF Cd

LEMMA ProcessEndsInv == ASSUME ShellInv, NEW j \in JobIds, ProcessEnds(j) PROVE ShellInv'
<1>1. PICK sentinel \in BOOLEAN, code \in {0, 1} :
        jobs' = [jobs EXCEPT ![j].proc = "exited", ![j].code = code,
                             ![j].pipe = IF sentinel THEN Append(@, jobs[j].at) ELSE @]
  BY DEF ProcessEnds
<1>2. PICK p \in Seq(Chunks) : p = IF sentinel THEN Append(jobs[j].pipe, jobs[j].at) ELSE jobs[j].pipe
  <2>1. jobs[j].pipe \in Seq(Chunks) /\ jobs[j].at \in Chunks
    BY JobFields DEF Chunks
  <2> QED BY <2>1, AppendProperties
<1>3. PICK k : k = [[[jobs[j] EXCEPT !.proc = "exited"] EXCEPT !.code = code] EXCEPT !.pipe = p]
  OBVIOUS
<1>4. jobs' = [jobs EXCEPT ![j] = k]
  BY <1>1, <1>2, <1>3, JobFields DEF ShellInv, JobType
<1>5. k \in JobType
  BY <1>3, JobFields, JobExcept
<1>6. k.proc = "exited" /\ k.pump = jobs[j].pump /\ k.status = jobs[j].status
      /\ k.log = jobs[j].log /\ k.tail = jobs[j].tail /\ k.session = jobs[j].session
      /\ k.after = jobs[j].after
  BY <1>3, JobFields DEF JobType
<1> QED BY <1>4, <1>5, <1>6, QuietStep DEF ProcessEnds

LEMMA KillJobInv == ASSUME ShellInv, NEW j \in JobIds, KillJob(j) PROVE ShellInv'
<1>1. PICK k : k = [jobs[j] EXCEPT !.kill = TRUE] /\ jobs' = [jobs EXCEPT ![j] = k]
  BY DEF KillJob
<1>2. k \in JobType
  BY <1>1, JobFields, JobExcept
<1>3. k.proc = jobs[j].proc /\ k.pump = jobs[j].pump /\ k.status = jobs[j].status
      /\ k.log = jobs[j].log /\ k.tail = jobs[j].tail /\ k.session = jobs[j].session
      /\ k.after = jobs[j].after
  BY <1>1, JobFields DEF JobType
<1> QED BY <1>1, <1>2, <1>3, QuietStep DEF KillJob

LEMMA PumpLives ==
    ASSUME ShellInv, NEW j \in JobIds, jobs[j].pump \in {"open", "pumping", "persist", "publish"}
    PROVE  /\ jobs[j].proc # "none" /\ jobs[j].status = Running
           /\ jobs[j].pump # "publish" => ~Stored(jobs[j])
BY DEF ShellInv, JobOK, NoShellJob, Stored, Running

\* A step of the pump before the directory is stored.
LEMMA PumpMoves ==
    ASSUME ShellInv, NEW j \in JobIds, NEW k \in JobType,
           jobs[j].pump \in {"open", "pumping", "persist"},
           jobs' = [jobs EXCEPT ![j] = k], UNCHANGED <<cwds, reader>>,
           k.proc # "none", k.after = jobs[j].after, Grows(jobs[j].log, k.log),
           ~Stored(k), k.pump # "gone" => k.status = Running
    PROVE  ShellInv'
BY PumpLives, JobFields, JobMoves

LEMMA OpenLogInv == ASSUME ShellInv, NEW j \in JobIds, OpenLog(j) PROVE ShellInv'
<1>1. jobs[j].pump = "open" /\ UNCHANGED <<cwds, reader>>
  BY DEF OpenLog
<1>2. CASE jobs' = [jobs EXCEPT ![j].pump = "pumping"]
  <2>1. PICK k : k = [jobs[j] EXCEPT !.pump = "pumping"] /\ jobs' = [jobs EXCEPT ![j] = k]
    BY <1>2
  <2>2. k \in JobType
    BY <2>1, JobFields, JobExcept
  <2>3. k.pump = "pumping" /\ k.after = jobs[j].after /\ k.log = jobs[j].log
        /\ k.status = jobs[j].status /\ k.proc = jobs[j].proc
    BY <2>1, JobFields DEF JobType
  <2>4. ~Stored(k)
    BY <1>1, <2>3, PumpLives DEF Stored, Running
  <2> QED BY <1>1, <2>1, <2>2, <2>3, <2>4, PumpLives, JobFields, PumpMoves
<1>3. CASE jobs' = [jobs EXCEPT ![j].pump = "gone", ![j].proc = "killed", ![j].status = -1]
  <2>1. PICK k : k = [[[jobs[j] EXCEPT !.pump = "gone"] EXCEPT !.proc = "killed"] EXCEPT !.status = -1]
    OBVIOUS
  <2>a. jobs' = [jobs EXCEPT ![j] = k]
    BY <1>3, <2>1, JobFields DEF ShellInv, JobType
  <2>2. k \in JobType
    BY <2>1, JobFields, JobExcept
  <2>3. k.pump = "gone" /\ k.after = jobs[j].after /\ k.log = jobs[j].log
        /\ k.status = -1 /\ k.proc = "killed"
    BY <2>1, JobFields DEF JobType
  <2>4. ~Stored(k)
    BY <2>3 DEF Stored
  <2> QED BY <1>1, <2>a, <2>2, <2>3, <2>4, JobFields, PumpMoves
<1> QED BY <1>2, <1>3 DEF OpenLog

LEMMA PumpChunkInv == ASSUME ShellInv, NEW j \in JobIds, PumpChunk(j) PROVE ShellInv'
<1>1. jobs[j].pump = "pumping" /\ UNCHANGED <<cwds, reader>> /\ jobs[j].pipe # <<>>
  BY DEF PumpChunk
<1>2. PICK c \in Chunks : c = Head(jobs[j].pipe)
  BY <1>1, JobFields
<1>3. PICK l \in Seq(Chunks) : l = Append(jobs[j].log, c) /\ Grows(jobs[j].log, l)
  BY JobFields, GrowsAppend
<1>4. PICK p \in Seq(Chunks) : p = Tail(jobs[j].pipe)
  <2>1. jobs[j].pipe \in Seq(Chunks)
    BY JobFields
  <2>2. Tail(jobs[j].pipe) \in Seq(Chunks)
    BY <1>1, <2>1, HeadTailProperties
  <2> QED BY <2>2
<1>5. PICK t \in Seq(Chunks) : t = <<c>>
  <2>1. <<c>> \in Seq(Chunks)
    BY SMT
  <2> QED BY <2>1
<1>6. PICK k : k = [[[jobs[j] EXCEPT !.log = l] EXCEPT !.tail = t] EXCEPT !.pipe = p]
  OBVIOUS
<1>7. jobs' = [jobs EXCEPT ![j] = k]
  BY <1>2, <1>3, <1>4, <1>5, <1>6, JobFields DEF PumpChunk, ShellInv, JobType
<1>8. k \in JobType
  BY <1>6, JobFields, JobExcept
<1>9. k.pump = "pumping" /\ k.after = jobs[j].after /\ k.log = l
        /\ k.status = jobs[j].status /\ k.proc = jobs[j].proc
  BY <1>1, <1>6, JobFields DEF JobType
<1>10. ~Stored(k)
  BY <1>1, <1>9, PumpLives DEF Stored, Running
<1> QED BY <1>1, <1>3, <1>7, <1>8, <1>9, <1>10, PumpLives, PumpMoves

LEMMA PumpPanicsInv == ASSUME ShellInv, NEW j \in JobIds, PumpPanics(j) PROVE ShellInv'
<1>1. jobs[j].pump = "pumping" /\ UNCHANGED <<cwds, reader>>
  BY DEF PumpPanics
<1>2. PICK q \in {"running", "exited", "killed"} :
        q = IF jobs[j].proc = "running" THEN "killed" ELSE jobs[j].proc
  BY <1>1, PumpLives, JobFields DEF JobType
<1>3. PICK k : k = [[[jobs[j] EXCEPT !.pump = "gone"] EXCEPT !.pipe = <<>>] EXCEPT !.proc = q]
  OBVIOUS
<1>4. jobs' = [jobs EXCEPT ![j] = k]
  BY <1>2, <1>3, JobFields DEF PumpPanics, ShellInv, JobType
<1>5. <<>> \in Seq(Chunks)
  OBVIOUS
<1>6. k \in JobType
  BY <1>3, <1>5, JobFields, JobExcept
<1>7. k.pump = "gone" /\ k.after = jobs[j].after /\ k.log = jobs[j].log
        /\ k.status = jobs[j].status /\ k.proc = q
  BY <1>3, JobFields DEF JobType
<1>8. ~Stored(k)
  BY <1>1, <1>7, PumpLives DEF Stored, Running
<1> QED BY <1>1, <1>4, <1>6, <1>7, <1>8, JobFields, PumpMoves

LEMMA PumpKilledInv == ASSUME ShellInv, NEW j \in JobIds, PumpKilled(j) PROVE ShellInv'
<1>1. jobs[j].pump = "pumping" /\ UNCHANGED <<cwds, reader>>
  BY DEF PumpKilled
<1>2. PICK q \in {"running", "exited", "killed"} :
        q = IF jobs[j].proc = "running" THEN "killed" ELSE jobs[j].proc
  BY <1>1, PumpLives, JobFields DEF JobType
<1>3. PICK l \in Seq(Chunks) : l = Append(jobs[j].log, "[killed]") /\ Grows(jobs[j].log, l)
  BY JobFields, GrowsAppend DEF Chunks
<1>4. PICK k : k = [[[[[jobs[j] EXCEPT !.pump = "gone"] EXCEPT !.status = -1] EXCEPT !.pipe = <<>>]
                     EXCEPT !.proc = q] EXCEPT !.log = l]
  OBVIOUS
<1>5. jobs' = [jobs EXCEPT ![j] = k]
  BY <1>2, <1>3, <1>4, JobFields DEF PumpKilled, ShellInv, JobType
<1>6. <<>> \in Seq(Chunks)
  OBVIOUS
<1>7. k \in JobType
  BY <1>4, <1>6, JobFields, JobExcept
<1>8. k.pump = "gone" /\ k.after = jobs[j].after /\ k.log = l /\ k.status = -1 /\ k.proc = q
  BY <1>4, JobFields DEF JobType
<1>9. ~Stored(k)
  BY <1>8 DEF Stored
<1> QED BY <1>1, <1>3, <1>5, <1>7, <1>8, <1>9, PumpMoves

LEMMA PumpDrainedInv == ASSUME ShellInv, NEW j \in JobIds, PumpDrained(j) PROVE ShellInv'
<1>1. jobs[j].pump = "pumping" /\ UNCHANGED <<cwds, reader>>
  BY DEF PumpDrained
<1>2. PICK k : k = [jobs[j] EXCEPT !.pump = "persist"] /\ jobs' = [jobs EXCEPT ![j] = k]
  BY DEF PumpDrained
<1>3. k \in JobType
  BY <1>2, JobFields, JobExcept
<1>4. k.pump = "persist" /\ k.after = jobs[j].after /\ k.log = jobs[j].log
        /\ k.status = jobs[j].status /\ k.proc = jobs[j].proc
  BY <1>2, JobFields DEF JobType
<1>5. ~Stored(k)
  BY <1>1, <1>4, PumpLives DEF Stored, Running
<1> QED BY <1>1, <1>2, <1>3, <1>4, <1>5, PumpLives, JobFields, PumpMoves

LEMMA PublishStatusInv == ASSUME ShellInv, NEW j \in JobIds, PublishStatus(j) PROVE ShellInv'
<1>1. jobs[j].pump = "publish" /\ UNCHANGED <<cwds, reader>>
  BY DEF PublishStatus
<1>2. PICK k : k = [[jobs[j] EXCEPT !.pump = "gone"] EXCEPT !.status = jobs[j].code]
  OBVIOUS
<1>3. jobs' = [jobs EXCEPT ![j] = k]
  BY <1>2, JobFields DEF PublishStatus, ShellInv, JobType
<1>4. k \in JobType
  BY <1>2, JobFields, JobExcept
<1>5. k.pump = "gone" /\ k.after = jobs[j].after /\ k.log = jobs[j].log /\ k.tail = jobs[j].tail
        /\ k.session = jobs[j].session /\ k.status = jobs[j].code /\ k.proc = jobs[j].proc
  BY <1>2, JobFields DEF JobType
<1>6. Stored(k) <=> Stored(jobs[j])
  BY <1>1, <1>5, JobFields DEF Stored
<1>7. jobs[j].proc # "none" /\ jobs[j].status = Running
  BY <1>1, PumpLives
<1>8. Grows(jobs[j].log, k.log) /\ \A i \in k.after : jobs[i].status # Running
  BY <1>5, JobFields
<1> QED BY <1>1, <1>3, <1>4, <1>5, <1>6, <1>7, <1>8, JobMoves

\* The directory is stored while the job has no status yet, so that no job was
\* started after it.
LEMMA PersistCwdInv == ASSUME ShellInv, NEW j \in JobIds, PersistCwd(j) PROVE ShellInv'
<1>1. jobs[j].pump = "persist" /\ UNCHANGED reader
  BY DEF PersistCwd
<1>2. PICK k : k = [jobs[j] EXCEPT !.pump = "publish"] /\ jobs' = [jobs EXCEPT ![j] = k]
  BY DEF PersistCwd
<1>3. k \in JobType
  BY <1>2, JobFields, JobExcept
<1>4. k.pump = "publish" /\ k.after = jobs[j].after /\ k.log = jobs[j].log /\ k.tail = jobs[j].tail
        /\ k.session = jobs[j].session /\ k.status = jobs[j].status /\ k.proc = jobs[j].proc
  BY <1>2, JobFields DEF JobType
<1>5. jobs[j].proc # "none" /\ jobs[j].status = Running /\ ~Stored(jobs[j])
  BY <1>1, PumpLives
<1>a. Grows(jobs[j].log, k.log) /\ \A i \in k.after : jobs[i].status # Running
  BY <1>4, JobFields
<1>6. jobs' \in [JobIds -> JobType] /\ (\A i \in JobIds : JobOK(i)') /\ ReadsResume'
  BY <1>1, <1>2, <1>3, <1>4, <1>5, <1>a, JobSteps
<1>7. CASE ~Stored(k)
  <2>1. UNCHANGED cwds
    BY <1>4, <1>7 DEF PersistCwd, Stored
  <2> QED BY <2>1, <1>1, <1>2, <1>3, <1>4, <1>5, <1>7, JobFields, PumpMoves
<1>8. CASE Stored(k)
  <2>1. jobs'[j] = k /\ \A i \in JobIds : i # j => jobs'[i] = jobs[i]
    BY <1>2 DEF ShellInv
  <2>2. k.session # NoName => cwds' = [cwds EXCEPT ![k.session] = Head(k.tail)]
    BY <1>4, <1>8 DEF PersistCwd, Stored
  <2>3. k.session = NoName => cwds' = cwds
    BY <1>4 DEF PersistCwd
  <2>4. k.session \in ShellNames \cup {NoName} /\ Head(k.tail) \in Dirs
    BY <1>3, <1>8 DEF JobType, Stored
  <2>5. cwds' \in [ShellNames -> Dirs \cup {"unset"}]
    BY <2>2, <2>3, <2>4 DEF ShellInv
  <2>6. ASSUME NEW n \in ShellNames, NEW i \in JobIds, jobs'[i].session = n, Stored(jobs'[i])
        PROVE  \E m \in JobIds :
                 /\ jobs'[m].session = n /\ Stored(jobs'[m])
                 /\ cwds'[n] = Head(jobs'[m].tail)
                 /\ \A l \in JobIds : jobs'[l].session = n /\ Stored(jobs'[l]) => m \notin jobs'[l].after
    <3>1. CASE n = k.session
      <4>1. cwds'[n] = Head(k.tail)
        BY <2>2, <3>1, ShellAssumption DEF ShellInv
      <4>2. \A l \in JobIds : jobs'[l].after = jobs[l].after
        BY <2>1, <1>4
      <4>3. \A l \in JobIds : j \notin jobs'[l].after
        BY <4>2, <1>5, JobFields
      <4> QED BY <2>1, <3>1, <4>1, <4>3, <1>8
    <3>2. CASE n # k.session
      <4>1. i # j /\ jobs[i].session = n /\ Stored(jobs[i])
        BY <2>1, <2>6, <3>2
      <4>2. PICK m \in JobIds : /\ jobs[m].session = n /\ Stored(jobs[m])
                 /\ cwds[n] = Head(jobs[m].tail)
                 /\ \A l \in JobIds : jobs[l].session = n /\ Stored(jobs[l]) => m \notin jobs[l].after
        BY <4>1, CdPersistsAs DEF ShellInv
      <4>3. m # j
        BY <4>2, <1>5
      <4>4. cwds'[n] = cwds[n]
        BY <2>2, <2>3, <2>4, <3>2 DEF ShellInv
      <4>5. \A l \in JobIds : jobs'[l].session = n => l # j /\ jobs'[l] = jobs[l]
        BY <2>1, <3>2
      <4> QED BY <2>1, <4>2, <4>3, <4>4, <4>5
    <3> QED BY <3>1, <3>2
  <2>7. CdPersists'
    BY <2>6 DEF CdPersists, Stored
  <2> QED BY <1>1, <1>6, <2>5, <2>7 DEF ShellInv
<1> QED BY <1>7, <1>8

\* What Inlined makes of a text: it is left as it is, or enough of it follows.
LEMMA InlinedIs ==
    ASSUME NEW a \in Nat, NEW e \in Nat, NEW texts, DOMAIN texts = a + 1 .. e,
           NEW x \in a + 1 .. e
    PROVE  \/ Inlined(texts)[x] = texts[x]
           \/ Inlined(texts)[x] = "noted" /\ x + InlineOutput <= e
<1>1. PICK after : after = {y \in DOMAIN texts : y > x /\ texts[y] # "nothing"}
  OBVIOUS
<1>2. Inlined(texts)[x] = IF texts[x] # "nothing" /\ Cardinality(after) >= InlineOutput
                          THEN "noted" ELSE texts[x]
  BY <1>1 DEF Inlined
<1>3. ASSUME Cardinality(after) >= InlineOutput PROVE x + InlineOutput <= e
  <2>1. after \subseteq x + 1 .. e
    BY <1>1
  <2>2. IsFiniteSet(x + 1 .. e) /\ Cardinality(x + 1 .. e) = IF x + 1 > e THEN 0 ELSE e - (x + 1) + 1
    <3>1. x + 1 \in Int /\ e \in Int
      OBVIOUS
    <3> QED BY <3>1, FS_Interval
  <2>3. Cardinality(after) \in Nat /\ Cardinality(after) <= Cardinality(x + 1 .. e)
    BY <2>1, <2>2, FS_Subset, FS_CardinalityType
  <2> QED BY <1>3, <2>2, <2>3, ShellAssumption
<1> QED BY <1>2, <1>3

LEMMA ReadOutputInv == ASSUME ShellInv, NEW j \in JobIds, ReadOutput(j) PROVE ShellInv'
<1>1. PICK l \in Seq(Chunks) : l = jobs[j].log
  BY JobFields
<1>2. PICK r \in ReaderType : r = reader[j]
  BY DEF ShellInv
<1>3. Len(l) \in Nat /\ r.offset \in 0..Len(l) /\ r.offset < Len(l)
  BY <1>1, <1>2 DEF ReadOutput, ShellInv, JobOK
<1> DEFINE End(cut) == IF cut = "no" THEN Len(jobs[j].log) ELSE Len(jobs[j].log) - 1
           Texts(cut) == [x \in (reader[j].offset + 1)..End(cut) |->
               ShownAs(jobs[j].log[x], IF x = reader[j].offset + 1 THEN reader[j].cut ELSE "no")]
<1>a. PICK cut \in {"no", "between", "inside"} :
        reader' = [reader EXCEPT ![j] =
           [offset |-> End(cut), cut |-> cut,
            cuts |-> IF cut = "no" THEN reader[j].cuts ELSE reader[j].cuts \cup {End(cut) + 1},
            read |-> [x \in 1..End(cut) |-> IF x <= reader[j].offset THEN reader[j].read[x]
                                            ELSE Inlined(Texts(cut))[x]]]]
  BY DEF ReadOutput
<1>b. PICK end : end = End(cut)
  OBVIOUS
<1>c. PICK texts : texts = Texts(cut)
  OBVIOUS
<1>4. /\ end = IF cut = "no" THEN Len(l) ELSE Len(l) - 1
      /\ texts = [x \in (r.offset + 1)..end |->
                    ShownAs(l[x], IF x = r.offset + 1 THEN r.cut ELSE "no")]
      /\ reader' = [reader EXCEPT ![j] =
           [offset |-> end, cut |-> cut,
            cuts |-> IF cut = "no" THEN r.cuts ELSE r.cuts \cup {end + 1},
            read |-> [x \in 1..end |-> IF x <= r.offset THEN r.read[x]
                                       ELSE Inlined(texts)[x]]]]
  <2>1. /\ end = IF cut = "no" THEN Len(l) ELSE Len(l) - 1
        /\ texts = [x \in (r.offset + 1)..end |->
                      ShownAs(l[x], IF x = r.offset + 1 THEN r.cut ELSE "no")]
    BY <1>b, <1>c, <1>1, <1>2
  <2>2. reader' = [reader EXCEPT ![j] =
           [offset |-> end, cut |-> cut,
            cuts |-> IF cut = "no" THEN reader[j].cuts ELSE reader[j].cuts \cup {end + 1},
            read |-> [x \in 1..end |-> IF x <= reader[j].offset THEN reader[j].read[x]
                                       ELSE Inlined(texts)[x]]]]
    BY <1>a, <1>b, <1>c
  <2> QED BY <2>1, <2>2, <1>2
<1> HIDE DEF End, Texts
<1>5. end \in 0..Len(l) /\ r.offset <= end
  BY <1>3, <1>4
<1>6. PICK n : n = reader'[j]
  OBVIOUS
<1>7. /\ n.offset = end /\ n.cut = cut /\ r.cuts \subseteq n.cuts /\ n.cuts \in SUBSET Nat
      /\ n = [offset |-> end, cut |-> cut, cuts |-> n.cuts, read |-> n.read]
      /\ n.read = [x \in 1..end |-> IF x <= r.offset THEN r.read[x] ELSE Inlined(texts)[x]]
      /\ \A i \in JobIds : i # j => reader'[i] = reader[i]
      /\ DOMAIN reader' = JobIds
  BY <1>2, <1>4, <1>5, <1>6 DEF ShellInv, ReaderType
<1>8. UNCHANGED <<jobs, cwds>>
  BY DEF ReadOutput
\* Each chunk of the new part is shown, noted, or was cut.
<1>9. ASSUME NEW x \in 1..end, ~(x <= r.offset)
      PROVE  /\ n.read[x] \in Shown
             /\ \/ n.read[x] = ShownAs(l[x], "no")
                \/ n.read[x] = "noted" /\ x + InlineOutput <= end
                \/ n.read[x] \in {"garbled", "leaked"} /\ x \in n.cuts
  <2>1. x \in (r.offset + 1)..end /\ x \in 1..Len(l) /\ l[x] \in Chunks
    BY <1>1, <1>3, <1>5, <1>9
  <2>2. n.read[x] = Inlined(texts)[x]
    BY <1>7, <1>9
  <2>3. \/ n.read[x] = texts[x]
        \/ n.read[x] = "noted" /\ x + InlineOutput <= end
    <3>1. r.offset \in Nat /\ end \in Nat /\ DOMAIN texts = r.offset + 1 .. end
      BY <1>3, <1>4, <1>5
    <3> QED BY <2>1, <2>2, <3>1, InlinedIs
  <2>4. texts[x] = ShownAs(l[x], IF x = r.offset + 1 THEN r.cut ELSE "no")
    BY <1>4, <2>1
  <2>5. /\ \A c : ShownAs(l[x], c) \in Shown
        /\ \A c : \/ ShownAs(l[x], c) = ShownAs(l[x], "no")
                  \/ ShownAs(l[x], c) \in {"garbled", "leaked"} /\ c # "no"
    BY <2>1 DEF ShownAs, Shown
  <2>6. r.cut # "no" => r.offset + 1 \in r.cuts
    BY <1>2 DEF ShellInv, JobOK
  <2>7. "noted" \in Shown
    BY DEF Shown
  <2> QED BY <2>3, <2>4, <2>5, <2>6, <2>7, <1>7
<1>10. ASSUME NEW x \in 1..r.offset
       PROVE  /\ n.read[x] = r.read[x] /\ n.read[x] \in Shown
              /\ \/ n.read[x] = ShownAs(l[x], "no")
                 \/ n.read[x] = "noted" /\ x + InlineOutput <= end
                 \/ n.read[x] \in {"garbled", "leaked"} /\ x \in n.cuts
  <2>1. x \in 1..end /\ x <= r.offset
    BY <1>3, <1>5
  <2>2. n.read[x] = r.read[x]
    BY <1>7, <2>1
  <2>3. r.read \in Seq(Shown) /\ Len(r.read) = r.offset
    BY <1>2 DEF ShellInv, JobOK, ReaderType
  <2>4. \/ r.read[x] = ShownAs(l[x], "no")
        \/ r.read[x] = "noted" /\ x + InlineOutput <= r.offset
        \/ r.read[x] \in {"garbled", "leaked"} /\ x \in r.cuts
    BY <1>1, <1>2 DEF ShellInv, ReadsResume
  <2>5. x + InlineOutput <= r.offset => x + InlineOutput <= end
    BY <1>3, <1>5, ShellAssumption
  <2> QED BY <2>2, <2>3, <2>4, <2>5, <1>7
<1>11. n.read \in Seq(Shown) /\ Len(n.read) = end
  <2>1. \A x \in 1..end : n.read[x] \in Shown
    BY <1>9, <1>10, <1>3, <1>5
  <2>2. n.read \in [1..end -> Shown]
    <3>1. DOMAIN n.read = 1..end /\ n.read = [x \in 1..end |-> n.read[x]]
      BY <1>7
    <3> QED BY <2>1, <3>1
  <2> QED BY <2>2, <1>5
<1>12. reader' \in [JobIds -> ReaderType]
  <2>1. n \in ReaderType
    <3>1. end \in Nat /\ cut \in {"no", "between", "inside"}
      BY <1>3, <1>5
    <3>2. /\ n.cuts \in SUBSET Nat /\ n.read \in Seq(Shown)
          /\ n = [offset |-> end, cut |-> cut, cuts |-> n.cuts, read |-> n.read]
      BY <1>7, <1>11
    <3> QED BY <3>1, <3>2 DEF ReaderType
  <2>2. \A i \in JobIds : reader'[i] \in ReaderType
    BY <2>1, <1>6, <1>7 DEF ShellInv
  <2>3. reader' = [i \in JobIds |-> reader'[i]]
    BY <1>4 DEF ShellInv
  <2> QED BY <2>2, <2>3
<1>13. ReadsResume'
  <2>1. ASSUME NEW i \in JobIds, NEW x \in 1..reader'[i].offset
        PROVE  \/ reader'[i].read[x] = ShownAs(jobs[i].log[x], "no")
               \/ reader'[i].read[x] = "noted" /\ x + InlineOutput <= reader'[i].offset
               \/ reader'[i].read[x] \in {"garbled", "leaked"} /\ x \in reader'[i].cuts
    <3>1. CASE i = j
      <4>1. x \in 1..end /\ (x <= r.offset => x \in 1..r.offset)
        BY <3>1, <1>3, <1>5, <1>6, <1>7
      <4> QED BY <3>1, <4>1, <1>1, <1>6, <1>7, <1>9, <1>10
    <3>2. CASE i # j
      BY <3>2, <1>7 DEF ShellInv, ReadsResume
    <3> QED BY <3>1, <3>2
  <2> QED BY <2>1, <1>8 DEF ReadsResume
<1>14. \A i \in JobIds : JobOK(i)'
  <2>1. ASSUME NEW i \in JobIds
        PROVE  /\ reader'[i].offset \in 0..Len(jobs[i].log)
               /\ Len(reader'[i].read) = reader'[i].offset
               /\ reader'[i].cut # "no" => reader'[i].offset + 1 \in reader'[i].cuts
    <3>1. CASE i = j
      <4>1. n.cut # "no" => n.offset + 1 \in n.cuts
        BY <1>2, <1>4, <1>6 DEF ShellInv
      <4> QED BY <3>1, <4>1, <1>1, <1>5, <1>6, <1>7, <1>11
    <3>2. CASE i # j
      BY <3>2, <1>7 DEF ShellInv, JobOK
    <3> QED BY <3>1, <3>2
  <2> QED BY <1>8, <2>1 DEF ShellInv, JobOK
<1>15. CdPersists'
  BY <1>8 DEF CdPersists, ShellInv
<1> QED BY <1>8, <1>12, <1>13, <1>14, <1>15 DEF ShellInv

LEMMA ShellInitInv == ShellInit => ShellInv
<1> SUFFICES ASSUME ShellInit PROVE ShellInv
  OBVIOUS
<1>1. \A j \in JobIds : jobs[j] = NoShellJob /\ reader[j] = [offset |-> 0, read |-> <<>>, cut |-> "no", cuts |-> {}]
  BY DEF ShellInit
<1>2. jobs \in [JobIds -> JobType]
  BY NoShellJobTyped DEF ShellInit
<1>3. reader \in [JobIds -> ReaderType]
  BY DEF ShellInit, ReaderType
<1>4. \A j \in JobIds : JobOK(j)
  <2>1. Len(<<>>) = 0 /\ 0 \in 0..0
    OBVIOUS
  <2>2. NoShellJob.log = <<>> /\ NoShellJob.after = {} /\ NoShellJob.status = Running
    BY DEF NoShellJob
  <2> QED BY <1>1, <2>1, <2>2 DEF JobOK
<1>5. CdPersists
  BY <1>1 DEF CdPersists, NoShellJob, Running
<1>6. ReadsResume
  <2>1. \A j \in JobIds : 1..reader[j].offset = {}
    BY <1>1
  <2> QED BY <2>1 DEF ReadsResume
<1> QED BY <1>2, <1>3, <1>4, <1>5, <1>6 DEF ShellInv, ShellInit

LEMMA ShellNextInv == ShellInv /\ [ShellNext]_shellVars => ShellInv'
<1> SUFFICES ASSUME ShellInv, [ShellNext]_shellVars PROVE ShellInv'
  OBVIOUS
<1>1. CASE UNCHANGED shellVars
  BY <1>1 DEF shellVars, ShellInv, JobOK, CdPersists, ReadsResume
<1>2. CASE ShellNext
  BY <1>2, RunCommandInv, PrintsInv, CdInv, ProcessEndsInv, OpenLogInv, PumpChunkInv, PumpPanicsInv,
     PumpKilledInv, PumpDrainedInv, PersistCwdInv, PublishStatusInv, KillJobInv, ReadOutputInv
     DEF ShellNext, PumpStep
<1> QED BY <1>1, <1>2

\* ShellManager: for any number of jobs, sessions and readers, a session is in the
\* directory that its last command left before anybody can see that command's
\* status, and reads that resume pass every chunk of the log once and in order:
\* shown, the sentinel hidden, or announced as left out for its length, and only a
\* chunk that a read ended inside is garbled or a sentinel shown.
THEOREM ShellCorrect == ShellSpec => []ShellKeeps
<1>1. ShellInv => ShellKeeps
  BY DEF ShellInv, JobOK, JobType, ShellKeeps, ShellTypeOK
<1> QED BY <1>1, ShellInitInv, ShellNextInv, PTL DEF ShellSpec

-----------------------------------------------------------------------------
(* A list sorted by rank.                                                    *)

\* ahead gives for each element of S those before it in a strict total order.
Orders(ahead, S) ==
    /\ \A x \in S : ahead[x] \subseteq S /\ x \notin ahead[x]
    /\ \A x, y \in S : x = y \/ x \in ahead[y] \/ y \in ahead[x]
    /\ \A x, y, z \in S : x \in ahead[y] /\ y \in ahead[z] => x \in ahead[z]

LEMMA FewerAhead ==
    ASSUME NEW S, IsFiniteSet(S), NEW ahead, Orders(ahead, S),
           NEW x \in S, NEW y \in S, x \in ahead[y]
    PROVE  Cardinality(ahead[x]) < Cardinality(ahead[y])
<1>1. ahead[y] \in SUBSET S /\ ahead[x] \in SUBSET ahead[y] /\ ahead[x] # ahead[y]
  BY DEF Orders
<1>2. IsFiniteSet(ahead[y]) /\ IsFiniteSet(ahead[x])
  BY <1>1, FS_Subset
<1>3. Cardinality(ahead[x]) \in Nat /\ Cardinality(ahead[y]) \in Nat
  BY <1>2, FS_CardinalityType
<1>4. Cardinality(ahead[x]) <= Cardinality(ahead[y])
      /\ Cardinality(ahead[x]) # Cardinality(ahead[y])
  BY <1>1, <1>2, FS_Subset
<1> QED BY <1>3, <1>4

LEMMA RankNat ==
    ASSUME NEW S, IsFiniteSet(S), NEW ahead, Orders(ahead, S), NEW x \in S
    PROVE  Cardinality(ahead[x]) \in Nat
<1>1. ahead[x] \in SUBSET S
  BY DEF Orders
<1> QED BY <1>1, FS_Subset, FS_CardinalityType

LEMMA RankBounds ==
    ASSUME NEW S, IsFiniteSet(S), NEW ahead, Orders(ahead, S), NEW x \in S
    PROVE  Cardinality(ahead[x]) + 1 \in 1 .. Cardinality(S)
<1>1. ahead[x] \in SUBSET S /\ ahead[x] # S
  BY DEF Orders
<1>2. IsFiniteSet(ahead[x]) /\ Cardinality(ahead[x]) <= Cardinality(S)
      /\ Cardinality(ahead[x]) # Cardinality(S)
  BY <1>1, FS_Subset
<1>3. Cardinality(ahead[x]) \in Nat /\ Cardinality(S) \in Nat
  BY <1>2, FS_CardinalityType
<1> QED BY <1>2, <1>3

\* No two have the same rank, so every rank is taken.
LEMMA RankTaken ==
    ASSUME NEW S, IsFiniteSet(S), NEW ahead, Orders(ahead, S),
           NEW k \in 1 .. Cardinality(S)
    PROVE  \E x \in S : Cardinality(ahead[x]) = k - 1
<1>1. PICK n \in Nat : n = Cardinality(S)
  BY FS_CardinalityType
<1> DEFINE rank == [x \in S |-> Cardinality(ahead[x]) + 1]
<1>2. rank \in [S -> 1 .. n] /\ \A x \in S : rank[x] = Cardinality(ahead[x]) + 1
  BY <1>1, RankBounds
<1>3. ASSUME NEW x \in S, NEW y \in S, rank[x] = rank[y] PROVE x = y
  <2>1. Cardinality(ahead[x]) + 1 \in 1 .. n /\ Cardinality(ahead[y]) + 1 \in 1 .. n
         /\ Cardinality(ahead[x]) \in Nat /\ Cardinality(ahead[y]) \in Nat
    BY <1>1, RankBounds, RankNat
  <2>2. Cardinality(ahead[x]) + 1 = Cardinality(ahead[y]) + 1
    BY <1>2, <1>3
  <2>3. x \in ahead[y] => Cardinality(ahead[x]) < Cardinality(ahead[y])
    BY FewerAhead
  <2>4. y \in ahead[x] => Cardinality(ahead[y]) < Cardinality(ahead[x])
    BY FewerAhead
  <2>5. x \notin ahead[y] /\ y \notin ahead[x]
    BY <1>1, <2>1, <2>2, <2>3, <2>4
  <2> QED BY <2>5 DEF Orders
<1>4. rank \in Injection(S, 1 .. n)
  BY <1>2, <1>3 DEF Injection, IsInjective
<1>5. IsFiniteSet(1 .. n) /\ Cardinality(1 .. n) = n
  <2>1. n \in Int /\ 1 \in Int
    BY <1>1
  <2>2. IsFiniteSet(1 .. n)
    BY <2>1, FS_Interval
  <2>3. PICK m : m = Cardinality(1 .. n) /\ m = IF 1 > n THEN 0 ELSE n - 1 + 1
    BY <2>1, FS_Interval
  <2>4. m = n
    BY <1>1, <2>3
  <2> QED BY <2>2, <2>3, <2>4
<1> HIDE DEF rank
<1>6. rank \in Surjection(S, 1 .. n)
  BY <1>4, <1>5, <1>1, FS_Injection
<1>7. PICK x \in S : rank[x] = k
  BY <1>1, <1>6 DEF Surjection
<1>8. Cardinality(ahead[x]) \in Nat /\ Cardinality(ahead[x]) + 1 = k /\ k \in Nat
  BY <1>1, <1>2, <1>7, RankNat
<1> QED BY <1>8

LEMMA ListedRank ==
    ASSUME NEW S, IsFiniteSet(S), NEW ahead, Orders(ahead, S)
    PROVE  /\ Listed(S, ahead) \in Seq(S) /\ Len(Listed(S, ahead)) = Cardinality(S)
           /\ \A k \in 1 .. Cardinality(S) :
                Listed(S, ahead)[k] \in S /\ Cardinality(ahead[Listed(S, ahead)[k]]) = k - 1
<1>1. PICK n \in Nat : n = Cardinality(S)
  BY FS_CardinalityType
<1>2. PICK l : l = Listed(S, ahead)
  OBVIOUS
<1>3. ASSUME NEW k \in 1 .. n PROVE l[k] \in S /\ Cardinality(ahead[l[k]]) = k - 1
  <2>1. \E x \in S : Cardinality(ahead[x]) = k - 1
    BY <1>1, RankTaken
  <2>2. l[k] = CHOOSE x \in S : Cardinality(ahead[x]) = k - 1
    BY <1>1, <1>2 DEF Listed
  <2> QED BY <2>1, <2>2
<1>4. l = [k \in 1 .. n |-> l[k]]
  BY <1>1, <1>2 DEF Listed
<1>5. l \in Seq(S) /\ Len(l) = n
  BY <1>3, <1>4
<1> QED BY <1>1, <1>2, <1>3, <1>5

\* Those from rank e on are all but e.
LEMMA RestOfRanks ==
    ASSUME NEW S, IsFiniteSet(S), NEW ahead, Orders(ahead, S),
           NEW e \in 0 .. Cardinality(S)
    PROVE  Cardinality(S \ {Listed(S, ahead)[k] : k \in 1 .. e}) = Cardinality(S) - e
<1>1. PICK n \in Nat : n = Cardinality(S)
  BY FS_CardinalityType
<1>2. PICK l : l = Listed(S, ahead)
  OBVIOUS
<1>3. \A k \in 1 .. n : l[k] \in S /\ Cardinality(ahead[l[k]]) = k - 1
  BY <1>1, <1>2, ListedRank
<1> DEFINE E == {l[k] : k \in 1 .. e}
           f == [k \in 1 .. e |-> l[k]]
<1>0. e \in Nat /\ e <= n
  BY <1>1
<1>4. f \in Bijection(1 .. e, E)
  <2>1. f \in [1 .. e -> E]
    OBVIOUS
  <2>2. ASSUME NEW j \in 1 .. e, NEW k \in 1 .. e, f[j] = f[k] PROVE j = k
    <3>1. j \in 1 .. n /\ k \in 1 .. n /\ l[j] = l[k]
      BY <1>0, <2>2
    <3> QED BY <1>3, <3>1
  <2>3. \A x \in E : \E k \in 1 .. e : f[k] = x
    OBVIOUS
  <2> HIDE DEF E, f
  <2>4. DOMAIN f = 1 .. e
    BY <2>1
  <2>5. f \in Injection(1 .. e, E)
    BY <2>1, <2>2, <2>4 DEF Injection, IsInjective
  <2>6. f \in Surjection(1 .. e, E)
    BY <2>1, <2>3 DEF Surjection
  <2> QED BY <2>5, <2>6 DEF Bijection
<1>5. E \subseteq S
  BY <1>0, <1>3
<1> HIDE DEF E, f
<1>6. Cardinality(E) = e
  BY <1>0, <1>4, FS_CountingElements DEF ExistsBijection
<1>7. IsFiniteSet(E) /\ IsFiniteSet(S \ E)
  BY <1>5, FS_Subset
<1>8. Cardinality(E \cup (S \ E)) = Cardinality(E) + Cardinality(S \ E) - Cardinality(E \cap (S \ E))
  BY <1>7, FS_Union
<1>9. E \cup (S \ E) = S /\ E \cap (S \ E) = {}
  BY <1>5
<1>10. Cardinality(S \ E) \in Nat /\ Cardinality({}) = 0
  BY <1>7, FS_CardinalityType, FS_EmptySet
<1>a. Cardinality(S) = Cardinality(E) + Cardinality(S \ E) - Cardinality({})
  BY <1>8, <1>9
<1>b. PICK m \in Nat : m = Cardinality(S \ E)
  BY <1>10
<1>11. Cardinality(S \ E) = n - e
  <2>1. n = e + m - 0
    BY <1>1, <1>6, <1>10, <1>a, <1>b
  <2> QED BY <1>0, <1>b, <2>1
<1> QED BY <1>1, <1>2, <1>11 DEF E

-----------------------------------------------------------------------------
(* Memory. Every version of a record, in the store or in the hands of a      *)
(* request, belongs to the scope sc[id] for good and has a time of its own   *)
(* (own), so that the sorts by time are strict.                              *)

Versions == [scope : ScopeSet, content : Contents, hits : Nat, time : Nat]
Entries  == [id : MemIds, hits : Nat, time : Nat]
MemPcs   == {"idle", "ids", "recs", "put", "index", "capIds", "capRecs", "get", "hit",
             "unindex", "erase", "done", "all"}
MemTasks == [op : {"none", "upsert", "patch", "search", "delete", "list"}, pc : MemPcs,
             id : 0 .. MaxMemories, scope : ScopeSet, content : Contents \cup {<<>>},
             ids : SUBSET MemIds, rec : Seq(Versions), todo : Seq(MemIds),
             found : SUBSET Entries, known : SUBSET (0 .. MaxMemories), fresh : BOOLEAN,
             told : 0 .. MaxMemories]

\* What a request carries at each of its places.
Shape(t) ==
    /\ t \in MemTasks
    /\ t.op \in {"upsert", "patch"} => t.content \in Contents
    /\ t.pc \in {"put", "index", "hit", "unindex", "erase"} => Len(t.rec) = 1
    /\ t.pc \in {"ids", "recs", "capIds", "capRecs", "get"} => t.rec = <<>>
    /\ t.pc = "get" => t.id \in MemIds
    /\ t.pc = "hit" => t.op # "upsert"
    /\ t.fresh => t.op = "upsert"
    /\ t.pc \in {"capIds", "capRecs"} => t.fresh
    /\ t.fresh /\ t.pc \in {"put", "index"} => t.rec[1].scope = t.scope
    /\ t.op = "upsert" /\ t.pc \in {"get", "unindex", "erase"} => t.todo # <<>> /\ t.id = t.todo[1]
    /\ t.op = "upsert" /\ t.pc \in {"put", "index"} => t.told = t.id
    /\ t.op = "upsert" /\ t.pc \in {"capIds", "capRecs", "get", "unindex", "erase", "done"}
         => t.told \in MemIds

VersionFits(v, i, sc, own, c) ==
    /\ i \in MemIds /\ v \in Versions
    /\ v.scope = sc[i] /\ v.time \in 1 .. c /\ own[v.time] = i

Fits(t, sc, own, n, c) ==
    /\ Shape(t)
    /\ t.id <= n /\ t.told <= n
    /\ \A i \in t.ids : i <= n /\ sc[i] = t.scope
    /\ \A j \in DOMAIN t.todo : t.todo[j] <= n
    /\ IsFiniteSet(t.found)
    /\ \A m \in t.found : m.id <= n /\ m.time \in 1 .. c /\ own[m.time] = m.id
    /\ \A j \in DOMAIN t.rec : VersionFits(t.rec[j], t.id, sc, own, c)

RecordsFit(rec, sc, own, n, c) ==
    /\ rec \in [MemIds -> Seq(Versions)]
    /\ \A i \in MemIds : rec[i] # <<>> =>
         i <= n /\ Len(rec[i]) = 1 /\ VersionFits(rec[i][1], i, sc, own, c)

IndexFits(idx, sc, n) ==
    /\ idx \in [ScopeSet -> SUBSET MemIds]
    /\ \A s \in ScopeSet : \A i \in idx[s] : i <= n /\ sc[i] = s

Facts(sc, own) ==
    /\ sc \in [MemIds -> ScopeSet] /\ own \in [Nat -> Nat]
    /\ memNew \in 0 .. MaxMemories /\ memClock \in Nat
    /\ memCrashes \in Nat /\ memBack \in BOOLEAN
    /\ memTold \subseteq 1 .. memNew /\ memGone \subseteq 0 .. MaxMemories
    /\ RecordsFit(memRec, sc, own, memNew, memClock)
    /\ IndexFits(memIdx, sc, memNew)
    /\ memTask = [r \in Requests |-> memTask[r]]
    /\ \A r \in Requests : Fits(memTask[r], sc, own, memNew, memClock)

\* Nobody has begun to remove the memory, or it is where a search looks for it.
Safe(i, sc, rec, idx, marked) == i \in marked \/ (rec[i] # <<>> /\ i \in idx[sc[i]])

\* What a request may later report as written.
Answerable(t, sc, rec, idx, marked) ==
    /\ t.pc = "erase" => t.id \in marked
    /\ t.pc = "index" => t.id \in marked \/ rec[t.id] # <<>>
    /\ t.op = "upsert" /\ t.pc \in {"capIds", "capRecs", "get", "unindex", "erase", "done"}
         => Safe(t.told, sc, rec, idx, marked)

Reported(sc) ==
    /\ \A i \in memTold : Safe(i, sc, memRec, memIdx, memMarked)
    /\ \A r \in Requests : Answerable(memTask[r], sc, memRec, memIdx, memMarked)

\* A request that will erase i.
Dying(t, i) ==
    \/ t.pc \in {"unindex", "erase"} /\ t.id = i
    \/ /\ t.op = "upsert" /\ t.pc \in {"get", "unindex", "erase"}
       /\ \E j \in DOMAIN t.todo : t.todo[j] = i
Alive(T, rec, idx, s) ==
    {i \in idx[s] : rec[i] # <<>> /\ \A r \in Requests : ~Dying(T[r], i)}

\* A request that has made a memory and will count those of its scope; a list that it
\* has already taken holds all of them.
ToCount(t, s, A) ==
    /\ t.fresh /\ t.scope = s
    /\ \/ t.pc \in {"put", "index", "capIds"}
       \/ t.pc = "capRecs" /\ (t.ids = {} \/ A \subseteq t.ids)

\* A request that leaves the record i in the store and out of the index, for now.
Holds(t, i) == t.id = i /\ (t.pc = "erase" \/ (t.pc = "index" /\ t.fresh))
Placed(T, rec, idx, sc) ==
    \A i \in MemIds : rec[i] # <<>> => i \in idx[sc[i]] \/ \E r \in Requests : Holds(T[r], i)
Bounded(T, rec, idx, s) ==
    \/ Cardinality(Alive(T, rec, idx, s)) <= ScopeCap
    \/ \E r \in Requests : ToCount(T[r], s, Alive(T, rec, idx, s))
Capped(sc) ==
    memCrashes = 0 /\ ~memBack =>
      /\ Placed(memTask, memRec, memIdx, sc)
      /\ \A s \in ScopeSet : Bounded(memTask, memRec, memIdx, s)

MemSound(sc, own) == Facts(sc, own) /\ Reported(sc) /\ Capped(sc)
MemInv == \E sc, own : MemSound(sc, own)

-----------------------------------------------------------------------------
(* What the invariant gives.                                                 *)

LEMMA ScopesAre == ScopeSet = {"global", "workspace", "session"}
                   /\ DOMAIN MemoryScopes = 1 .. 3 /\ Len(MemoryScopes) = 3
  BY DEF ScopeSet, MemoryScopes

LEMMA MemIdleShape == Shape(MemIdle) /\ MemIdle \in MemTasks
<1>1. MemIdle \in MemTasks
  BY MemoryAssumption, ScopesAre DEF MemIdle, MemTasks, MemPcs, MemIds
<1> QED BY <1>1 DEF MemIdle, Shape

LEMMA AliveFinite ==
    ASSUME NEW sc, NEW own, Facts(sc, own), NEW s \in ScopeSet, NEW T
    PROVE  IsFiniteSet(Alive(T, memRec, memIdx, s))
<1>1. IsFiniteSet(MemIds)
  BY MemoryAssumption, FS_Interval DEF MemIds
<1>2. Alive(T, memRec, memIdx, s) \in SUBSET MemIds
  BY DEF Alive, Facts, IndexFits
<1> QED BY <1>1, <1>2, FS_Subset

LEMMA MemInvGoal == ASSUME MemInv PROVE MemoriesKept
<1>1. PICK sc, own : MemSound(sc, own)
  BY DEF MemInv
<1>2. MemTypeOK
  <2>1. ASSUME NEW i \in MemIds, memRec[i] # <<>>
        PROVE  /\ Rec(i) \in [scope : ScopeSet, content : Contents, hits : Nat,
                              time : 1 .. memClock]
               /\ i <= memNew
    BY <1>1, <2>1 DEF MemSound, Facts, RecordsFit, VersionFits, Versions, Rec
  <2>2. memIdx \in [ScopeSet -> SUBSET (1 .. memNew)]
    BY <1>1 DEF MemSound, Facts, IndexFits, MemIds
  <2> QED BY <2>1, <2>2 DEF MemTypeOK
<1>3. WrittenIsFound
  <2>1. ASSUME NEW i \in memTold, i \notin memMarked
        PROVE  memRec[i] # <<>> /\ i \in memIdx[Rec(i).scope]
    <3>1. i \in MemIds
      BY <1>1, MemoryAssumption DEF MemSound, Facts, MemIds
    <3>2. memRec[i] # <<>> /\ i \in memIdx[sc[i]]
      BY <1>1, <2>1 DEF MemSound, Reported, Safe
    <3>3. Rec(i).scope = sc[i]
      BY <1>1, <3>1, <3>2 DEF MemSound, Facts, RecordsFit, VersionFits, Rec
    <3> QED BY <3>2, <3>3
  <2> QED BY <2>1 DEF WrittenIsFound
<1>4. CapHolds
  <2> SUFFICES ASSUME \A r \in Requests : memTask[r].pc = "idle",
                      memCrashes = 0 /\ ~memBack, NEW s \in ScopeSet
               PROVE  Cardinality({i \in memIdx[s] : memRec[i] # <<>>}) <= ScopeCap
    BY DEF CapHolds
  <2>1. \A r \in Requests : \A i : ~Dying(memTask[r], i)
    BY DEF Dying
  <2>2. Alive(memTask, memRec, memIdx, s) = {i \in memIdx[s] : memRec[i] # <<>>}
    BY <2>1 DEF Alive
  <2>3. \A r \in Requests : ~ToCount(memTask[r], s, Alive(memTask, memRec, memIdx, s))
    BY DEF ToCount
  <2> QED BY <1>1, <2>2, <2>3 DEF MemSound, Capped, Bounded
<1> QED BY <1>2, <1>3, <1>4 DEF MemoriesKept

LEMMA MemInitInv == ASSUME MemInit PROVE MemInv
<1> DEFINE sc == [i \in MemIds |-> "global"]
           own == [n \in Nat |-> 0]
<1>0. \A r \in Requests : memTask[r] = MemIdle
  BY DEF MemInit
<1>1. Fits(MemIdle, sc, own, memNew, memClock)
  BY MemIdleShape, FS_EmptySet DEF Fits, MemIdle, MemInit
<1>2. Facts(sc, own)
  <2>1. sc \in [MemIds -> ScopeSet] /\ own \in [Nat -> Nat]
    BY ScopesAre
  <2>2. RecordsFit(memRec, sc, own, memNew, memClock) /\ IndexFits(memIdx, sc, memNew)
    BY DEF RecordsFit, IndexFits, MemInit
  <2>3. memTask = [r \in Requests |-> memTask[r]]
    BY DEF MemInit
  <2>4. \A r \in Requests : Fits(memTask[r], sc, own, memNew, memClock)
    BY <1>0, <1>1
  <2>5. /\ memNew \in 0 .. MaxMemories /\ memClock \in Nat
        /\ memCrashes \in Nat /\ memBack \in BOOLEAN
        /\ memTold \subseteq 1 .. memNew /\ memGone \subseteq 0 .. MaxMemories
    <3>1. memBack \in BOOLEAN /\ memTold = {} /\ memGone = {}
      BY DEF MemInit
    <3>2. memNew \in 0 .. MaxMemories /\ memClock \in Nat /\ memCrashes \in Nat
      BY MemoryAssumption DEF MemInit
    <3> QED BY <3>1, <3>2
  <2> HIDE DEF sc, own
  <2> QED BY <2>1, <2>2, <2>3, <2>4, <2>5 DEF Facts
<1>3. Reported(sc)
  BY <1>0 DEF Reported, Answerable, MemIdle, MemInit
<1>4. Capped(sc)
  <2>1. Placed(memTask, memRec, memIdx, sc)
    BY DEF Placed, MemInit
  <2>2. ASSUME NEW s \in ScopeSet PROVE Bounded(memTask, memRec, memIdx, s)
    <3>1. Alive(memTask, memRec, memIdx, s) = {}
      BY DEF Alive, MemInit
    <3> QED BY <3>1, FS_EmptySet, MemoryAssumption DEF Bounded
  <2> QED BY <2>1, <2>2 DEF Capped
<1> HIDE DEF sc, own
<1> QED BY <1>2, <1>3, <1>4 DEF MemSound, MemInv

-----------------------------------------------------------------------------
(* Frames.                                                                   *)

LEMMA FitsOn ==
    ASSUME NEW t, NEW sc, NEW own, NEW n \in Nat, NEW c \in Nat, Fits(t, sc, own, n, c),
           NEW sc2, NEW own2, NEW n2 \in Nat, NEW c2 \in Nat, n <= n2, c <= c2,
           \A i \in 1 .. n : sc2[i] = sc[i], \A x \in 1 .. c : own2[x] = own[x]
    PROVE  Fits(t, sc2, own2, n2, c2)
<1>1. t \in MemTasks /\ Shape(t)
  BY DEF Fits, Shape
<1>2. t.id \in Nat /\ t.told \in Nat /\ t.id <= n2 /\ t.told <= n2
  BY <1>1 DEF Fits, MemTasks
<1>3. \A i \in t.ids : i <= n2 /\ sc2[i] = t.scope
  <2>1. t.ids \subseteq MemIds
    BY <1>1 DEF MemTasks
  <2> QED BY <2>1 DEF Fits, MemIds
<1>4. \A j \in DOMAIN t.todo : t.todo[j] <= n2
  <2>1. \A j \in DOMAIN t.todo : t.todo[j] \in Nat
    <3>1. t.todo \in Seq(MemIds)
      BY <1>1 DEF MemTasks
    <3>2. \A j \in DOMAIN t.todo : t.todo[j] \in MemIds
      BY <3>1
    <3> QED BY <3>2 DEF MemIds
  <2> QED BY <2>1 DEF Fits
<1>5. \A m \in t.found : m.id <= n2 /\ m.time \in 1 .. c2 /\ own2[m.time] = m.id
  <2>1. \A m \in t.found : m.id \in Nat
    BY <1>1 DEF MemTasks, Entries, MemIds
  <2> QED BY <2>1 DEF Fits
<1>6. ASSUME NEW j \in DOMAIN t.rec PROVE VersionFits(t.rec[j], t.id, sc2, own2, c2)
  BY <1>2 DEF Fits, VersionFits, MemIds
<1> QED BY <1>1, <1>2, <1>3, <1>4, <1>5, <1>6 DEF Fits

LEMMA RecordsFitOn ==
    ASSUME NEW rec, NEW sc, NEW own, NEW n \in Nat, NEW c \in Nat, RecordsFit(rec, sc, own, n, c),
           NEW sc2, NEW own2, NEW n2 \in Nat, NEW c2 \in Nat, n <= n2, c <= c2,
           \A i \in 1 .. n : sc2[i] = sc[i], \A x \in 1 .. c : own2[x] = own[x]
    PROVE  RecordsFit(rec, sc2, own2, n2, c2)
<1>1. ASSUME NEW i \in MemIds, rec[i] # <<>>
      PROVE  i <= n2 /\ VersionFits(rec[i][1], i, sc2, own2, c2)
  BY <1>1 DEF RecordsFit, VersionFits, MemIds
<1> QED BY <1>1 DEF RecordsFit

\* Request r goes on with k; the others stay.
LEMMA OneRequest ==
    ASSUME NEW sc, NEW own, Facts(sc, own), NEW r \in Requests, NEW k,
           memTask' = [memTask EXCEPT ![r] = k]
    PROVE  /\ memTask' = [q \in Requests |-> memTask'[q]]
           /\ memTask'[r] = k
           /\ \A q \in Requests : q # r => memTask'[q] = memTask[q]
<1>1. memTask = [q \in Requests |-> memTask[q]]
  BY DEF Facts
<1>2. DOMAIN memTask = Requests
  BY <1>1
<1> QED BY <1>2

LEMMA BoundedOn ==
    ASSUME NEW T, NEW rec, NEW idx, NEW T2, NEW rec2, NEW idx2, NEW s,
           Bounded(T, rec, idx, s), IsFiniteSet(Alive(T, rec, idx, s)),
           Alive(T2, rec2, idx2, s) \subseteq Alive(T, rec, idx, s),
           NEW r \in Requests, \A q \in Requests : q # r => T2[q] = T[q],
           ToCount(T[r], s, Alive(T, rec, idx, s)) =>
             \/ Cardinality(Alive(T2, rec2, idx2, s)) <= ScopeCap
             \/ ToCount(T2[r], s, Alive(T2, rec2, idx2, s))
    PROVE  Bounded(T2, rec2, idx2, s)
<1>1. PICK A : A = Alive(T, rec, idx, s)
  OBVIOUS
<1>2. PICK B : B = Alive(T2, rec2, idx2, s)
  OBVIOUS
<1>3. CASE Cardinality(A) <= ScopeCap
  <2>1. B \in SUBSET A /\ IsFiniteSet(A)
    BY <1>1, <1>2
  <2>2. IsFiniteSet(B) /\ Cardinality(B) <= Cardinality(A)
    BY <2>1, FS_Subset
  <2>3. Cardinality(B) \in Nat /\ Cardinality(A) \in Nat
    BY <2>1, <2>2, FS_CardinalityType
  <2>4. Cardinality(B) <= ScopeCap
    BY <1>3, <2>2, <2>3, MemoryAssumption
  <2> QED BY <1>2, <2>4 DEF Bounded
<1>4. CASE \E q \in Requests : ToCount(T[q], s, A)
  <2>1. PICK q \in Requests : ToCount(T[q], s, A)
    BY <1>4
  <2>2. CASE q = r
    BY <1>1, <1>2, <2>1, <2>2 DEF Bounded
  <2>3. CASE q # r
    <3>1. T2[q] = T[q] /\ B \subseteq A
      BY <1>1, <1>2, <2>3
    <3>2. ToCount(T2[q], s, B)
      BY <2>1, <3>1 DEF ToCount
    <3> QED BY <1>2, <3>2 DEF Bounded
  <2> QED BY <2>2, <2>3
<1> QED BY <1>1, <1>3, <1>4 DEF Bounded

\* Request r goes on with k and the store stays as it is.
LEMMA RequestMoves ==
    ASSUME NEW sc, NEW own, MemSound(sc, own), NEW r \in Requests, NEW k,
           memTask' = [memTask EXCEPT ![r] = k],
           UNCHANGED <<memRec, memIdx, memClock, memNew, memMarked, memBack, memCrashes>>,
           memTold' \subseteq 1 .. memNew, memGone' \subseteq 0 .. MaxMemories,
           \A i \in memTold' : Safe(i, sc, memRec, memIdx, memMarked),
           Fits(k, sc, own, memNew, memClock),
           Answerable(k, sc, memRec, memIdx, memMarked),
           memTask[r].pc \notin {"index", "erase"},
           \A i \in MemIds : memRec[i] # <<>> /\ Dying(memTask[r], i) => Dying(k, i),
           \A s \in ScopeSet : ToCount(memTask[r], s, Alive(memTask, memRec, memIdx, s)) =>
             \/ Cardinality(Alive(memTask', memRec, memIdx, s)) <= ScopeCap
             \/ ToCount(k, s, Alive(memTask', memRec, memIdx, s))
    PROVE  MemInv'
<1>0. Facts(sc, own) /\ Reported(sc) /\ Capped(sc)
  BY DEF MemSound
<1>1. /\ memTask' = [q \in Requests |-> memTask'[q]] /\ memTask'[r] = k
      /\ \A q \in Requests : q # r => memTask'[q] = memTask[q]
  BY <1>0, OneRequest
<1>2. \A q \in Requests : Fits(memTask'[q], sc, own, memNew, memClock)
  BY <1>0, <1>1 DEF Facts
<1>3. Facts(sc, own)'
  BY <1>0, <1>1, <1>2 DEF Facts
<1>4. Reported(sc)'
  <2>1. \A q \in Requests : Answerable(memTask'[q], sc, memRec, memIdx, memMarked)
    BY <1>0, <1>1 DEF Reported
  <2> QED BY <2>1 DEF Reported
<1>5. Capped(sc)'
  <2> SUFFICES ASSUME memCrashes = 0 /\ ~memBack
               PROVE  /\ Placed(memTask', memRec, memIdx, sc)
                      /\ \A s \in ScopeSet : Bounded(memTask', memRec, memIdx, s)
    BY DEF Capped
  <2>1. Placed(memTask, memRec, memIdx, sc)
        /\ \A s \in ScopeSet : Bounded(memTask, memRec, memIdx, s)
    BY <1>0 DEF Capped
  <2>2. \A q \in Requests, i \in MemIds : Holds(memTask[q], i) => Holds(memTask'[q], i)
    BY <1>1 DEF Holds
  <2>3. Placed(memTask', memRec, memIdx, sc)
    BY <2>1, <2>2 DEF Placed
  <2>4. ASSUME NEW s \in ScopeSet PROVE Bounded(memTask', memRec, memIdx, s)
    <3>1. memIdx[s] \subseteq MemIds
      BY <1>0 DEF Facts, IndexFits
    <3>2. \A q \in Requests : \A i \in MemIds :
            memRec[i] # <<>> /\ Dying(memTask[q], i) => Dying(memTask'[q], i)
      BY <1>1
    <3>3. Alive(memTask', memRec, memIdx, s) \subseteq Alive(memTask, memRec, memIdx, s)
      BY <3>1, <3>2 DEF Alive
    <3>4. IsFiniteSet(Alive(memTask, memRec, memIdx, s))
      BY <1>0, AliveFinite
    <3> QED BY <1>1, <2>1, <3>3, <3>4, BoundedOn
  <2> QED BY <2>3, <2>4
<1> QED BY <1>3, <1>4, <1>5 DEF MemSound, MemInv

LEMMA MemTaskExcept ==
    ASSUME NEW t \in MemTasks
    PROVE  /\ \A x \in {"upsert", "patch", "search", "delete", "list"} :
                [t EXCEPT !.op = x] \in MemTasks
           /\ \A x \in MemPcs : [t EXCEPT !.pc = x] \in MemTasks
           /\ \A x \in 0 .. MaxMemories : [t EXCEPT !.id = x] \in MemTasks
           /\ \A x \in ScopeSet : [t EXCEPT !.scope = x] \in MemTasks
           /\ \A x \in Contents : [t EXCEPT !.content = x] \in MemTasks
           /\ \A x \in SUBSET MemIds : [t EXCEPT !.ids = x] \in MemTasks
           /\ \A x \in Seq(Versions) : [t EXCEPT !.rec = x] \in MemTasks
           /\ \A x \in Seq(MemIds) : [t EXCEPT !.todo = x] \in MemTasks
           /\ \A x \in SUBSET Entries : [t EXCEPT !.found = x] \in MemTasks
           /\ \A x \in SUBSET (0 .. MaxMemories) : [t EXCEPT !.known = x] \in MemTasks
           /\ \A x \in BOOLEAN : [t EXCEPT !.fresh = x] \in MemTasks
           /\ \A x \in 0 .. MaxMemories : [t EXCEPT !.told = x] \in MemTasks
  BY DEF MemTasks

LEMMA MemTaskFields ==
    ASSUME NEW t \in MemTasks
    PROVE  /\ t.op \in {"none", "upsert", "patch", "search", "delete", "list"}
           /\ t.pc \in MemPcs /\ t.id \in 0 .. MaxMemories /\ t.scope \in ScopeSet
           /\ t.ids \in SUBSET MemIds /\ t.rec \in Seq(Versions) /\ t.todo \in Seq(MemIds)
           /\ t.found \in SUBSET Entries /\ t.fresh \in BOOLEAN /\ t.told \in 0 .. MaxMemories
  BY DEF MemTasks

\* A request that only goes on, and had not made or changed a memory.
LEMMA PlainMove ==
    ASSUME NEW sc, NEW own, MemSound(sc, own), NEW r \in Requests, NEW k,
           memTask' = [memTask EXCEPT ![r] = k],
           UNCHANGED <<memRec, memIdx, memClock, memNew, memMarked, memBack, memCrashes,
                       memTold, memGone>>,
           Fits(k, sc, own, memNew, memClock),
           Answerable(k, sc, memRec, memIdx, memMarked),
           memTask[r].pc \notin {"put", "index", "capIds", "capRecs", "erase"},
           \A i \in MemIds : memRec[i] # <<>> /\ Dying(memTask[r], i) => Dying(k, i)
    PROVE  MemInv'
<1>1. memTold' \subseteq 1 .. memNew /\ memGone' \subseteq 0 .. MaxMemories
  BY DEF MemSound, Facts
<1>2. \A i \in memTold' : Safe(i, sc, memRec, memIdx, memMarked)
  BY DEF MemSound, Reported
<1>3. \A s, A : ~ToCount(memTask[r], s, A)
  BY DEF ToCount
<1> QED BY <1>1, <1>2, <1>3, RequestMoves

-----------------------------------------------------------------------------
(* Requests begin.                                                           *)

LEMMA RequestBegins ==
    ASSUME MemInv, NEW r \in Requests, NEW k, MemStart(r, k), k \in MemTasks,
           k.op = "upsert" => k.pc = "ids",
           k.op \in {"upsert", "patch"} => k.content \in Contents,
           k.pc \in {"ids", "get", "all"}, k.pc = "get" => k.id \in MemIds,
           k.id <= memNew, k.told = 0, k.ids = {}, k.todo = <<>>, k.found = {}, k.rec = <<>>,
           ~k.fresh
    PROVE  MemInv'
<1>1. PICK sc, own : MemSound(sc, own)
  BY DEF MemInv
<1>2. memTask[r].pc = "idle" /\ memTask' = [memTask EXCEPT ![r] = k]
  BY DEF MemStart, MemAt, MemTo
<1>3. UNCHANGED <<memRec, memIdx, memClock, memNew, memMarked, memBack, memCrashes,
                  memTold, memGone>>
  BY DEF MemStart, memStore, memSaid
<1>4. Shape(k)
  BY DEF Shape
<1>5. k.told <= memNew
  BY <1>1 DEF MemSound, Facts
<1>6. Fits(k, sc, own, memNew, memClock)
  BY <1>4, <1>5, FS_EmptySet DEF Fits
<1>7. Answerable(k, sc, memRec, memIdx, memMarked)
  BY DEF Answerable
<1>8. \A i : ~Dying(memTask[r], i)
  BY <1>2 DEF Dying
<1> QED BY <1>1, <1>2, <1>3, <1>6, <1>7, <1>8, PlainMove

LEMMA MemoryWriteInv ==
    ASSUME MemInv, NEW r \in Requests, NEW s \in WriteScopes, NEW c \in Contents,
           MemoryWrite(r, s, c)
    PROVE  MemInv'
<1>1. PICK k : k = [MemIdle EXCEPT !.op = "upsert", !.pc = "ids", !.scope = s, !.content = c]
  OBVIOUS
<1>2. k \in MemTasks
  <2>1. s \in ScopeSet /\ "ids" \in MemPcs
    BY MemoryAssumption DEF MemPcs
  <2>2. k = [[[[MemIdle EXCEPT !.op = "upsert"] EXCEPT !.pc = "ids"] EXCEPT !.scope = s]
               EXCEPT !.content = c]
    BY <1>1
  <2>3. [MemIdle EXCEPT !.op = "upsert"] \in MemTasks
    BY MemIdleShape, MemTaskExcept
  <2>4. [[MemIdle EXCEPT !.op = "upsert"] EXCEPT !.pc = "ids"] \in MemTasks
    BY <2>1, <2>3, MemTaskExcept
  <2>5. [[[MemIdle EXCEPT !.op = "upsert"] EXCEPT !.pc = "ids"] EXCEPT !.scope = s] \in MemTasks
    BY <2>1, <2>4, MemTaskExcept
  <2> QED BY <2>2, <2>5, MemTaskExcept
<1>3. k.op = "upsert" /\ k.pc = "ids" /\ k.content = c /\ k.id = 0 /\ k.told = 0 /\ k.ids = {}
      /\ k.todo = <<>> /\ k.found = {} /\ k.rec = <<>> /\ ~k.fresh
  BY <1>1 DEF MemIdle
<1>4. k.id <= memNew
  BY <1>3 DEF MemInv, MemSound, Facts
<1>5. MemStart(r, k)
  BY <1>1 DEF MemoryWrite
<1> QED BY <1>2, <1>3, <1>4, <1>5, RequestBegins

LEMMA MemorySearchInv ==
    ASSUME MemInv, NEW r \in Requests, NEW c \in Contents, MemorySearch(r, c)
    PROVE  MemInv'
<1>1. PICK k : k = [MemIdle EXCEPT !.op = "search", !.pc = "ids", !.scope = MemoryScopes[1],
                                   !.content = c, !.known = memGone]
  OBVIOUS
<1>2. k \in MemTasks
  <2>1. MemoryScopes[1] \in ScopeSet /\ "ids" \in MemPcs
    BY ScopesAre DEF MemPcs, MemoryScopes
  <2>2. memGone \in SUBSET (0 .. MaxMemories)
    BY DEF MemInv, MemSound, Facts
  <2>3. PICK k1 : k1 = [[MemIdle EXCEPT !.op = "search"] EXCEPT !.pc = "ids"]
    OBVIOUS
  <2>4. k1 \in MemTasks
    <3>1. [MemIdle EXCEPT !.op = "search"] \in MemTasks
      BY MemIdleShape, MemTaskExcept
    <3> QED BY <2>1, <2>3, <3>1, MemTaskExcept
  <2>5. PICK k2 : k2 = [[k1 EXCEPT !.scope = MemoryScopes[1]] EXCEPT !.content = c]
    OBVIOUS
  <2>6. k2 \in MemTasks
    <3>1. [k1 EXCEPT !.scope = MemoryScopes[1]] \in MemTasks
      BY <2>1, <2>4, MemTaskExcept
    <3> QED BY <2>5, <3>1, MemTaskExcept
  <2>7. k = [k2 EXCEPT !.known = memGone]
    BY <1>1, <2>3, <2>5
  <2> QED BY <2>2, <2>6, <2>7, MemTaskExcept
<1>3. k.op = "search" /\ k.pc = "ids" /\ k.id = 0 /\ k.told = 0 /\ k.ids = {}
      /\ k.todo = <<>> /\ k.found = {} /\ k.rec = <<>> /\ ~k.fresh
  BY <1>1 DEF MemIdle
<1>4. k.id <= memNew
  BY <1>3 DEF MemInv, MemSound, Facts
<1>5. MemStart(r, k)
  BY <1>1 DEF MemorySearch
<1> QED BY <1>2, <1>3, <1>4, <1>5, RequestBegins

LEMMA IdsMade ==
    ASSUME MemInv, NEW i \in 1 .. memNew
    PROVE  i \in MemIds /\ i \in 0 .. MaxMemories /\ i <= memNew /\ i \in Nat
<1>1. memNew \in 0 .. MaxMemories
  BY DEF MemInv, MemSound, Facts
<1> QED BY <1>1, MemoryAssumption DEF MemIds

LEMMA PatchMemoryInv ==
    ASSUME MemInv, NEW r \in Requests, NEW i \in 1 .. memNew, NEW c \in Contents,
           PatchMemory(r, i, c)
    PROVE  MemInv'
<1>1. PICK k : k = [MemIdle EXCEPT !.op = "patch", !.pc = "get", !.id = i, !.content = c]
  OBVIOUS
<1>2. k \in MemTasks
  <2>1. k = [[[[MemIdle EXCEPT !.op = "patch"] EXCEPT !.pc = "get"] EXCEPT !.id = i]
               EXCEPT !.content = c]
    BY <1>1
  <2>2. [MemIdle EXCEPT !.op = "patch"] \in MemTasks /\ "get" \in MemPcs
    BY MemIdleShape, MemTaskExcept DEF MemPcs
  <2>3. [[MemIdle EXCEPT !.op = "patch"] EXCEPT !.pc = "get"] \in MemTasks
    BY <2>2, MemTaskExcept
  <2>4. [[[MemIdle EXCEPT !.op = "patch"] EXCEPT !.pc = "get"] EXCEPT !.id = i] \in MemTasks
    BY <2>3, IdsMade, MemTaskExcept
  <2> QED BY <2>1, <2>4, MemTaskExcept
<1>3. k.op = "patch" /\ k.pc = "get" /\ k.content = c /\ k.id = i /\ k.told = 0 /\ k.ids = {}
      /\ k.todo = <<>> /\ k.found = {} /\ k.rec = <<>> /\ ~k.fresh
  BY <1>1 DEF MemIdle
<1>4. MemStart(r, k)
  BY <1>1 DEF PatchMemory
<1> QED BY <1>2, <1>3, <1>4, IdsMade, RequestBegins

LEMMA MemoryDeleteInv ==
    ASSUME MemInv, NEW r \in Requests, NEW i \in 1 .. memNew,
           MemoryDelete(r, i) \/ DeleteMemoryEntry(r, i)
    PROVE  MemInv'
<1>1. PICK k : k = [MemIdle EXCEPT !.op = "delete", !.pc = "get", !.id = i]
  OBVIOUS
<1>2. k \in MemTasks
  <2>1. k = [[[MemIdle EXCEPT !.op = "delete"] EXCEPT !.pc = "get"] EXCEPT !.id = i]
    BY <1>1
  <2>2. [MemIdle EXCEPT !.op = "delete"] \in MemTasks /\ "get" \in MemPcs
    BY MemIdleShape, MemTaskExcept DEF MemPcs
  <2>3. [[MemIdle EXCEPT !.op = "delete"] EXCEPT !.pc = "get"] \in MemTasks
    BY <2>2, MemTaskExcept
  <2> QED BY <2>1, <2>3, IdsMade, MemTaskExcept
<1>3. k.op = "delete" /\ k.pc = "get" /\ k.id = i /\ k.told = 0 /\ k.ids = {}
      /\ k.todo = <<>> /\ k.found = {} /\ k.rec = <<>> /\ ~k.fresh
  BY <1>1 DEF MemIdle
<1>4. MemStart(r, k)
  BY <1>1 DEF MemoryDelete, DeleteMemoryEntry
<1> QED BY <1>2, <1>3, <1>4, IdsMade, RequestBegins

LEMMA LoadMemoriesInv ==
    ASSUME MemInv, NEW r \in Requests, LoadMemories(r)
    PROVE  MemInv'
<1>1. PICK k : k = [MemIdle EXCEPT !.op = "list", !.pc = "all"]
  OBVIOUS
<1>2. k \in MemTasks
  <2>1. k = [[MemIdle EXCEPT !.op = "list"] EXCEPT !.pc = "all"]
    BY <1>1
  <2>2. [MemIdle EXCEPT !.op = "list"] \in MemTasks /\ "all" \in MemPcs
    BY MemIdleShape, MemTaskExcept DEF MemPcs
  <2> QED BY <2>1, <2>2, MemTaskExcept
<1>3. k.op = "list" /\ k.pc = "all" /\ k.id = 0 /\ k.told = 0 /\ k.ids = {}
      /\ k.todo = <<>> /\ k.found = {} /\ k.rec = <<>> /\ ~k.fresh
  BY <1>1 DEF MemIdle
<1>4. k.id <= memNew
  BY <1>3 DEF MemInv, MemSound, Facts
<1>5. MemStart(r, k)
  BY <1>1 DEF LoadMemories
<1> QED BY <1>2, <1>3, <1>4, <1>5, RequestBegins

-----------------------------------------------------------------------------
(* Requests read.                                                            *)

LEMMA RequestFacts ==
    ASSUME NEW sc, NEW own, MemSound(sc, own), NEW r \in Requests
    PROVE  /\ Fits(memTask[r], sc, own, memNew, memClock) /\ Shape(memTask[r])
           /\ memTask[r] \in MemTasks
           /\ Answerable(memTask[r], sc, memRec, memIdx, memMarked)
           /\ memNew \in Nat /\ memClock \in Nat
           /\ RecordsFit(memRec, sc, own, memNew, memClock) /\ IndexFits(memIdx, sc, memNew)
<1>1. memNew \in 0 .. MaxMemories /\ memClock \in Nat
  BY DEF MemSound, Facts
<1>2. memNew \in Nat
  BY <1>1, MemoryAssumption
<1> QED BY <1>1, <1>2 DEF MemSound, Facts, Reported, Fits, Shape

LEMMA IdleFits ==
    ASSUME NEW sc, NEW own, NEW n \in Nat, NEW c
    PROVE  /\ Fits(MemIdle, sc, own, n, c)
           /\ \A rec, idx, marked : Answerable(MemIdle, sc, rec, idx, marked)
           /\ \A i : ~Dying(MemIdle, i)
  BY MemIdleShape, FS_EmptySet DEF Fits, MemIdle, Answerable, Dying

LEMMA ListIdsInv == ASSUME MemInv, NEW r \in Requests, ListIds(r) PROVE MemInv'
<1>1. PICK sc, own : MemSound(sc, own)
  BY DEF MemInv
<1>2. PICK t : t = memTask[r]
  OBVIOUS
<1>3. /\ Fits(t, sc, own, memNew, memClock) /\ Shape(t) /\ t \in MemTasks
      /\ Answerable(t, sc, memRec, memIdx, memMarked) /\ IndexFits(memIdx, sc, memNew)
  BY <1>1, <1>2, RequestFacts
<1>4. PICK k : k = [t EXCEPT !.pc = IF t.pc = "ids" THEN "recs" ELSE "capRecs",
                             !.ids = memIdx[t.scope]]
  OBVIOUS
<1>5. memTask' = [memTask EXCEPT ![r] = k] /\ t.pc \in {"ids", "capIds"}
  BY <1>2, <1>4 DEF ListIds, MemRead, MemTo, MemAt
<1>6. UNCHANGED <<memRec, memIdx, memClock, memNew, memMarked, memBack, memCrashes,
                  memTold, memGone>>
  BY DEF ListIds, MemRead, memStore, memSaid
<1>7. t.scope \in ScopeSet /\ memIdx[t.scope] \in SUBSET MemIds
  BY <1>3, MemTaskFields DEF IndexFits
<1>8. k \in MemTasks
  <2>1. PICK p \in MemPcs : p = IF t.pc = "ids" THEN "recs" ELSE "capRecs"
    BY DEF MemPcs
  <2>2. k = [[t EXCEPT !.pc = p] EXCEPT !.ids = memIdx[t.scope]]
    BY <1>4, <2>1
  <2>3. [t EXCEPT !.pc = p] \in MemTasks
    BY <1>3, MemTaskExcept
  <2> QED BY <1>7, <2>2, <2>3, MemTaskExcept
<1>9. /\ k.pc = (IF t.pc = "ids" THEN "recs" ELSE "capRecs") /\ k.ids = memIdx[t.scope]
      /\ k.op = t.op /\ k.id = t.id /\ k.scope = t.scope /\ k.content = t.content
      /\ k.rec = t.rec /\ k.todo = t.todo /\ k.found = t.found /\ k.fresh = t.fresh
      /\ k.told = t.told
  BY <1>3, <1>4 DEF MemTasks
<1>10. Shape(k)
  BY <1>3, <1>5, <1>8, <1>9 DEF Shape
<1>11. Fits(k, sc, own, memNew, memClock)
  <2>1. \A i \in k.ids : i <= memNew /\ sc[i] = k.scope
    BY <1>3, <1>7, <1>9 DEF IndexFits
  <2> QED BY <1>3, <1>9, <1>10, <2>1 DEF Fits
<1>12. Answerable(k, sc, memRec, memIdx, memMarked)
  BY <1>3, <1>5, <1>9 DEF Answerable
<1>13. \A i : ~Dying(t, i)
  BY <1>5 DEF Dying
<1>14. ASSUME NEW s \in ScopeSet, NEW A, ToCount(t, s, A)
       PROVE  ToCount(k, s, Alive(memTask', memRec, memIdx, s))
  BY <1>5, <1>9, <1>14 DEF ToCount, Alive
<1>15. memTold' \subseteq 1 .. memNew /\ memGone' \subseteq 0 .. MaxMemories
       /\ \A i \in memTold' : Safe(i, sc, memRec, memIdx, memMarked)
  BY <1>1, <1>6 DEF MemSound, Facts, Reported
<1>16. t.pc \notin {"index", "erase"}
  BY <1>5
<1> QED BY <1>1, <1>2, <1>5, <1>6, <1>11, <1>12, <1>13, <1>14, <1>15, <1>16, RequestMoves

\* list_by_scope finds records of the scope, and all of them where the index has none.
LEMMA InScopeIs ==
    ASSUME NEW sc, NEW own, MemSound(sc, own), NEW r \in Requests
    PROVE  /\ InScope(memTask[r]) \subseteq MemIds /\ IsFiniteSet(InScope(memTask[r]))
           /\ \A i \in InScope(memTask[r]) : memRec[i] # <<>> /\ sc[i] = memTask[r].scope
           /\ \A A : (A \subseteq {i \in memIdx[memTask[r].scope] : memRec[i] # <<>>})
                 /\ (memTask[r].ids = {} \/ A \subseteq memTask[r].ids)
                => A \subseteq InScope(memTask[r])
<1>1. PICK t : t = memTask[r]
  OBVIOUS
<1>2. Fits(t, sc, own, memNew, memClock) /\ t \in MemTasks
      /\ RecordsFit(memRec, sc, own, memNew, memClock) /\ IndexFits(memIdx, sc, memNew)
  BY <1>1, RequestFacts
<1>3. t.scope \in ScopeSet /\ t.ids \subseteq MemIds
  BY <1>2, MemTaskFields
<1>4. \A i \in MemIds : memRec[i] # <<>> => Rec(i).scope = sc[i]
  BY <1>2 DEF RecordsFit, VersionFits, Rec
<1>5. InScope(t) \subseteq MemIds /\ \A i \in InScope(t) : memRec[i] # <<>> /\ sc[i] = t.scope
  BY <1>2, <1>3, <1>4 DEF InScope, Fits, Rec
<1>6. IsFiniteSet(MemIds)
  BY MemoryAssumption, FS_Interval DEF MemIds
<1>7. IsFiniteSet(InScope(t))
  BY <1>5, <1>6, FS_Subset
<1>8. ASSUME NEW A, A \subseteq {i \in memIdx[t.scope] : memRec[i] # <<>>},
             t.ids = {} \/ A \subseteq t.ids, NEW i \in A
      PROVE  i \in InScope(t)
  <2>1. i \in MemIds /\ sc[i] = t.scope /\ memRec[i] # <<>>
    BY <1>2, <1>3, <1>8 DEF IndexFits
  <2> QED BY <1>4, <1>8, <2>1 DEF InScope, Rec
<1> QED BY <1>1, <1>5, <1>7, <1>8

\* The fewest hits first, then the oldest: no two are level.
LEMMA WeakerOrders ==
    ASSUME NEW sc, NEW own, MemSound(sc, own), NEW r \in Requests, NEW S,
           S \subseteq MemIds, \A i \in S : memRec[i] # <<>>
    PROVE  Orders([i \in S |-> {j \in S : Weaker(j, i)}], S)
<1>1. RecordsFit(memRec, sc, own, memNew, memClock)
  BY RequestFacts
<1>2. \A i \in S : Rec(i).hits \in Nat /\ Rec(i).time \in Nat /\ own[Rec(i).time] = i
  BY <1>1 DEF RecordsFit, VersionFits, Versions, Rec
<1>3. \A i, j \in S : i = j \/ Weaker(i, j) \/ Weaker(j, i)
  BY <1>2 DEF Weaker
<1>4. \A i \in S : ~Weaker(i, i)
  BY <1>2 DEF Weaker
<1>5. \A i, j, l \in S : Weaker(i, j) /\ Weaker(j, l) => Weaker(i, l)
  BY <1>2 DEF Weaker
<1> QED BY <1>3, <1>4, <1>5 DEF Orders

LEMMA EnforceCapacityInv == ASSUME MemInv, NEW r \in Requests, EnforceCapacity(r) PROVE MemInv'
<1>1. PICK sc, own : MemSound(sc, own)
  BY DEF MemInv
<1>2. PICK t : t = memTask[r]
  OBVIOUS
<1>3. /\ Fits(t, sc, own, memNew, memClock) /\ Shape(t) /\ t \in MemTasks
      /\ Answerable(t, sc, memRec, memIdx, memMarked)
      /\ RecordsFit(memRec, sc, own, memNew, memClock)
  BY <1>1, <1>2, RequestFacts
<1> DEFINE here == InScope(memTask[r])
           l == Listed(here, [i \in here |-> {j \in here : Weaker(j, i)}])
           out == SubSeq(l, 1, Excess(Cardinality(here)))
<1>0. MemRead(r, [memTask[r] EXCEPT !.pc = IF out = <<>> THEN "done" ELSE "get",
                                    !.ids = {}, !.todo = out,
                                    !.id = IF out = <<>> THEN @ ELSE Head(out)])
  BY Zenon DEF EnforceCapacity
<1> HIDE DEF here, l, out
<1>4. here = InScope(t)
  BY <1>2 DEF here
<1>5. /\ here \subseteq MemIds /\ IsFiniteSet(here) /\ \A i \in here : memRec[i] # <<>>
      /\ \A A : (A \subseteq {i \in memIdx[t.scope] : memRec[i] # <<>>})
            /\ (t.ids = {} \/ A \subseteq t.ids) => A \subseteq here
  BY <1>1, <1>2, <1>4, InScopeIs
<1>6. PICK ahead : ahead = [i \in here |-> {j \in here : Weaker(j, i)}]
  OBVIOUS
<1>11. l = Listed(here, ahead)
  BY <1>6 DEF l
<1>7. Orders(ahead, here)
  BY <1>1, <1>5, <1>6, WeakerOrders
<1>8. PICK n \in Nat : n = Cardinality(here)
  BY <1>5, FS_CardinalityType
<1>9. PICK e : e = Excess(n)
  OBVIOUS
<1>10. e \in 0 .. n /\ e \in Nat /\ (e = 0 => n <= ScopeCap) /\ (e # 0 => n - e = ScopeCap)
  BY <1>8, <1>9, MemoryAssumption DEF Excess
<1>12. l \in Seq(here) /\ Len(l) = n
  BY <1>5, <1>7, <1>8, <1>11, ListedRank
<1>13. Cardinality(here \ {l[j] : j \in 1 .. e}) = n - e
  BY <1>5, <1>7, <1>8, <1>10, <1>11, RestOfRanks
<1>14. out = SubSeq(l, 1, e)
  BY <1>8, <1>9 DEF out
<1>15. out \in Seq(here) /\ Len(out) = e /\ \A j \in 1 .. e : out[j] = l[j] /\ out[j] \in here
  BY <1>10, <1>12, <1>14
<1>16. PICK k : k = [t EXCEPT !.pc = IF out = <<>> THEN "done" ELSE "get",
                              !.ids = {}, !.todo = out,
                              !.id = IF out = <<>> THEN @ ELSE Head(out)]
  OBVIOUS
<1>17. t.pc = "capRecs" /\ MemRead(r, k)
  BY <1>0, <1>2, <1>16 DEF EnforceCapacity, MemAt
<1>18. memTask' = [memTask EXCEPT ![r] = k]
       /\ UNCHANGED <<memRec, memIdx, memClock, memNew, memMarked, memBack, memCrashes,
                      memTold, memGone>>
  BY <1>17 DEF MemRead, MemTo, memStore, memSaid
<1>19. PICK p : p = IF out = <<>> THEN "done" ELSE "get"
  OBVIOUS
<1>20. PICK d : d = IF out = <<>> THEN t.id ELSE out[1]
  OBVIOUS
<1>21. d \in 0 .. MaxMemories /\ (out # <<>> => d \in MemIds)
  <2>1. CASE out = <<>>
    BY <1>3, <1>20, <2>1, MemTaskFields
  <2>2. CASE out # <<>>
    <3>1. e # 0 /\ d = out[1]
      BY <1>15, <1>20, <2>2
    <3>2. d \in here
      BY <1>10, <1>15, <3>1
    <3> QED BY <1>5, <3>2, MemoryAssumption DEF MemIds
  <2> QED BY <2>1, <2>2
<1>22. k = [[[[t EXCEPT !.pc = p] EXCEPT !.ids = {}] EXCEPT !.todo = out] EXCEPT !.id = d]
  <2>1. out # <<>> => Head(out) = out[1]
    BY <1>15
  <2> QED BY <1>16, <1>19, <1>20, <2>1
<1>23. /\ k.pc = p /\ k.ids = {} /\ k.todo = out /\ k.id = d
       /\ k.op = t.op /\ k.scope = t.scope /\ k.content = t.content
       /\ k.rec = t.rec /\ k.found = t.found /\ k.fresh = t.fresh /\ k.told = t.told
  BY <1>3, <1>22 DEF MemTasks
<1>24. k \in MemTasks
  <2>1. p \in MemPcs
    BY <1>19 DEF MemPcs
  <2>2. out \in Seq(MemIds)
    <3>1. \A j \in 1 .. e : out[j] \in MemIds
      BY <1>5, <1>15
    <3> QED BY <1>15, <3>1
  <2>3. [t EXCEPT !.pc = p] \in MemTasks
    BY <1>3, <2>1, MemTaskExcept
  <2>4. [[t EXCEPT !.pc = p] EXCEPT !.ids = {}] \in MemTasks
    BY <2>3, MemTaskExcept
  <2>5. [[[t EXCEPT !.pc = p] EXCEPT !.ids = {}] EXCEPT !.todo = out] \in MemTasks
    BY <2>2, <2>4, MemTaskExcept
  <2> QED BY <1>21, <1>22, <2>5, MemTaskExcept
<1>25. t.fresh /\ t.op = "upsert" /\ t.told \in MemIds /\ t.rec = <<>>
  BY <1>3, <1>17 DEF Shape
<1>26. Shape(k)
  <2>1. k.pc \in {"done", "get"} /\ (k.pc = "get" => out # <<>>)
    BY <1>19, <1>23
  <2>2. out # <<>> => k.id = out[1]
    BY <1>20, <1>23
  <2>3. k.content \in Contents
    BY <1>3, <1>23, <1>25 DEF Shape
  <2> QED BY <1>21, <1>23, <1>24, <1>25, <2>1, <2>2, <2>3 DEF Shape
<1>27. \A i \in here : i <= memNew
  BY <1>3, <1>5 DEF RecordsFit
<1>28. Fits(k, sc, own, memNew, memClock)
  <2>1. \A j \in DOMAIN k.todo : k.todo[j] <= memNew
    BY <1>15, <1>23, <1>27
  <2>2. k.id <= memNew
    <3>1. CASE out = <<>>
      BY <1>3, <1>20, <1>23, <3>1 DEF Fits
    <3>2. CASE out # <<>>
      <4>1. out[1] \in here
        BY <1>10, <1>15, <3>2
      <4> QED BY <1>20, <1>23, <1>27, <3>2, <4>1
    <3> QED BY <3>1, <3>2
  <2> QED BY <1>3, <1>23, <1>25, <1>26, <2>1, <2>2 DEF Fits
<1>29. Answerable(k, sc, memRec, memIdx, memMarked)
  BY <1>3, <1>17, <1>19, <1>23, <1>25 DEF Answerable
<1>30. \A i : ~Dying(t, i)
  BY <1>17 DEF Dying
<1>31. ASSUME NEW s \in ScopeSet, ToCount(t, s, Alive(memTask, memRec, memIdx, s))
       PROVE  Cardinality(Alive(memTask', memRec, memIdx, s)) <= ScopeCap
  <2>1. PICK A : A = Alive(memTask, memRec, memIdx, s)
    OBVIOUS
  <2>2. PICK B : B = Alive(memTask', memRec, memIdx, s)
    OBVIOUS
  <2>3. s = t.scope /\ (t.ids = {} \/ A \subseteq t.ids)
    BY <1>17, <1>31, <2>1 DEF ToCount
  <2>4. A \subseteq here
    <3>1. A \subseteq {i \in memIdx[t.scope] : memRec[i] # <<>>}
      BY <2>1, <2>3 DEF Alive
    <3> QED BY <1>5, <2>3, <3>1
  <2>5. memTask'[r] = k /\ \A q \in Requests : q # r => memTask'[q] = memTask[q]
    BY <1>1, <1>18, OneRequest DEF MemSound
  <2>6. B \subseteq A
    BY <1>2, <1>30, <2>1, <2>2, <2>5 DEF Alive
  <2>7. \A i \in B : ~Dying(k, i)
    BY <2>2, <2>5 DEF Alive
  <2>8. B \subseteq here \ {l[j] : j \in 1 .. e}
    <3>1. ASSUME NEW j \in 1 .. e, l[j] \in B PROVE FALSE
      <4>1. out # <<>> /\ j \in DOMAIN out /\ out[j] = l[j]
        BY <1>10, <1>15
      <4>2. Dying(k, l[j])
        BY <1>19, <1>23, <1>25, <4>1 DEF Dying
      <4> QED BY <2>7, <3>1, <4>2
    <3> QED BY <2>4, <2>6, <3>1
  <2>9. PICK R : R = here \ {l[j] : j \in 1 .. e}
    OBVIOUS
  <2>10. IsFiniteSet(R) /\ B \in SUBSET R
    BY <1>5, <2>8, <2>9, FS_Subset
  <2>11. Cardinality(B) <= Cardinality(R) /\ Cardinality(B) \in Nat
    BY <2>10, FS_Subset, FS_CardinalityType
  <2>12. Cardinality(R) = n - e
    BY <1>13, <2>9
  <2>13. Cardinality(B) <= ScopeCap
    BY <1>10, <2>11, <2>12, MemoryAssumption
  <2> QED BY <2>2, <2>13
<1>32. memTold' \subseteq 1 .. memNew /\ memGone' \subseteq 0 .. MaxMemories
       /\ \A i \in memTold' : Safe(i, sc, memRec, memIdx, memMarked)
  BY <1>1, <1>18 DEF MemSound, Facts, Reported
<1>33. t.pc \notin {"index", "erase"}
  BY <1>17
<1> QED BY <1>1, <1>2, <1>18, <1>28, <1>29, <1>30, <1>31, <1>32, <1>33, RequestMoves

\* The rest of a list is gone through, or there is none.
LEMMA SkipFits ==
    ASSUME NEW sc, NEW own, NEW n, NEW c, NEW u, Fits(u, sc, own, n, c),
           u.pc \in {"get", "erase", "hit"}, NEW t, t = [u EXCEPT !.rec = <<>>]
    PROVE  /\ Fits(Skip(t), sc, own, n, c)
           /\ Skip(t).pc \in {"get", "done"} /\ Skip(t).op = u.op /\ Skip(t).told = u.told
           /\ \A j \in DOMAIN u.todo : j # 1 =>
                Skip(t).pc = "get" /\ \E m \in DOMAIN Skip(t).todo : Skip(t).todo[m] = u.todo[j]
<1>1. u \in MemTasks /\ Shape(u) /\ u.todo \in Seq(MemIds)
  BY MemTaskFields DEF Fits, Shape
<1>2. t \in MemTasks
  <2>1. <<>> \in Seq(Versions)
    OBVIOUS
  <2> QED BY <1>1, <2>1, MemTaskExcept
<1>3. /\ t.op = u.op /\ t.pc = u.pc /\ t.id = u.id /\ t.scope = u.scope /\ t.rec = <<>>
      /\ t.content = u.content /\ t.ids = u.ids /\ t.todo = u.todo /\ t.found = u.found
      /\ t.fresh = u.fresh /\ t.told = u.told
  BY <1>1 DEF MemTasks
<1>4. u.op = "upsert" => u.told \in MemIds
  BY <1>1 DEF Shape
<1>5. PICK k : k = Skip(t)
  OBVIOUS
<1>6. CASE Len(u.todo) > 1
  <2>1. PICK rest : rest = Tail(u.todo)
    OBVIOUS
  <2>2. /\ rest \in Seq(MemIds) /\ rest # <<>> /\ rest[1] = u.todo[2] /\ u.todo[2] \in MemIds
        /\ \A j \in DOMAIN rest : j + 1 \in DOMAIN u.todo /\ rest[j] = u.todo[j + 1]
        /\ \A j \in DOMAIN u.todo : j # 1 => j - 1 \in DOMAIN rest /\ rest[j - 1] = u.todo[j]
    <3>1. PICK m \in Nat : m = Len(u.todo)
      BY <1>1
    <3>2. rest \in Seq(MemIds) /\ Len(rest) = m - 1 /\ m > 1
          /\ \A j \in 1 .. m - 1 : rest[j] = u.todo[j + 1]
      BY <1>1, <1>6, <2>1, <3>1
    <3>3. DOMAIN rest = 1 .. m - 1 /\ DOMAIN u.todo = 1 .. m
      BY <1>1, <3>1, <3>2
    <3>4. \A j \in DOMAIN u.todo : j # 1 => j - 1 \in DOMAIN rest /\ rest[j - 1] = u.todo[j]
      <4> SUFFICES ASSUME NEW j \in 1 .. m, j # 1
                   PROVE  j - 1 \in 1 .. m - 1 /\ rest[j - 1] = u.todo[j]
        BY <3>3
      <4>1. j - 1 \in 1 .. m - 1 /\ (j - 1) + 1 = j
        BY <3>2
      <4> QED BY <3>2, <4>1
    <3>5. u.todo[2] \in MemIds /\ rest[1] = u.todo[2] /\ rest # <<>>
      BY <1>1, <3>2, <3>3
    <3> QED BY <3>2, <3>3, <3>4, <3>5
  <2>3. k = [[[t EXCEPT !.pc = "get"] EXCEPT !.todo = rest] EXCEPT !.id = u.todo[2]]
    BY <1>3, <1>5, <1>6, <2>1 DEF Skip
  <2>4. k \in MemTasks
    <3>1. [t EXCEPT !.pc = "get"] \in MemTasks
      BY <1>2, MemTaskExcept DEF MemPcs
    <3>2. [[t EXCEPT !.pc = "get"] EXCEPT !.todo = rest] \in MemTasks
      BY <2>2, <3>1, MemTaskExcept
    <3>3. u.todo[2] \in 0 .. MaxMemories
      BY <2>2, MemoryAssumption DEF MemIds
    <3> QED BY <2>3, <3>2, <3>3, MemTaskExcept
  <2>5. /\ k.pc = "get" /\ k.todo = rest /\ k.id = u.todo[2] /\ k.op = u.op
        /\ k.scope = u.scope /\ k.rec = <<>> /\ k.content = u.content /\ k.ids = u.ids
        /\ k.found = u.found /\ k.fresh = u.fresh /\ k.told = u.told
    BY <1>2, <1>3, <2>3 DEF MemTasks
  <2>6. Shape(k)
    BY <1>1, <1>4, <2>2, <2>4, <2>5 DEF Shape
  <2>7. \A j \in DOMAIN k.todo : k.todo[j] <= n
    BY <2>2, <2>5 DEF Fits
  <2>8. k.id <= n
    BY <1>1, <1>6, <2>5 DEF Fits
  <2>9. Fits(k, sc, own, n, c)
    BY <2>5, <2>6, <2>7, <2>8 DEF Fits
  <2> QED BY <1>5, <2>2, <2>5, <2>9
<1>7. CASE ~(Len(u.todo) > 1)
  <2>1. k = [[t EXCEPT !.pc = "done"] EXCEPT !.todo = <<>>]
    BY <1>3, <1>5, <1>7 DEF Skip
  <2>2. k \in MemTasks
    <3>1. "done" \in MemPcs /\ <<>> \in Seq(MemIds)
      BY DEF MemPcs
    <3>2. [t EXCEPT !.pc = "done"] \in MemTasks
      BY <1>2, <3>1, MemTaskExcept
    <3> QED BY <2>1, <3>1, <3>2, MemTaskExcept
  <2>3. /\ k.pc = "done" /\ k.todo = <<>> /\ k.id = u.id /\ k.op = u.op
        /\ k.scope = u.scope /\ k.rec = <<>> /\ k.content = u.content /\ k.ids = u.ids
        /\ k.found = u.found /\ k.fresh = u.fresh /\ k.told = u.told
    BY <1>2, <1>3, <2>1 DEF MemTasks
  <2>4. Shape(k)
    BY <1>1, <1>4, <2>2, <2>3 DEF Shape
  <2>5. Fits(k, sc, own, n, c)
    BY <2>3, <2>4 DEF Fits
  <2>6. \A j \in DOMAIN u.todo : j = 1
    BY <1>1, <1>7
  <2> QED BY <1>5, <2>3, <2>5, <2>6
<1> QED BY <1>6, <1>7

LEMMA MemGetInv == ASSUME MemInv, NEW r \in Requests, MemGet(r) PROVE MemInv'
<1>1. PICK sc, own : MemSound(sc, own)
  BY DEF MemInv
<1>2. PICK t : t = memTask[r]
  OBVIOUS
<1>3. /\ Fits(t, sc, own, memNew, memClock) /\ Shape(t) /\ t \in MemTasks
      /\ Answerable(t, sc, memRec, memIdx, memMarked) /\ memNew \in Nat
      /\ RecordsFit(memRec, sc, own, memNew, memClock)
  BY <1>1, <1>2, RequestFacts
<1>4. t.pc = "get" /\ t.rec = <<>> /\ t.id \in MemIds
  BY <1>2, <1>3 DEF MemGet, MemAt, Shape
<1>5. t.op = "upsert" => t.told \in MemIds /\ t.todo # <<>> /\ t.id = t.todo[1]
  BY <1>3, <1>4 DEF Shape
<1>a. ASSUME NEW k, MemRead(r, k), Fits(k, sc, own, memNew, memClock),
             Answerable(k, sc, memRec, memIdx, memMarked),
             \A i \in MemIds : memRec[i] # <<>> /\ Dying(t, i) => Dying(k, i)
      PROVE  MemInv'
  <2>1. memTask' = [memTask EXCEPT ![r] = k]
        /\ UNCHANGED <<memRec, memIdx, memClock, memNew, memMarked, memBack, memCrashes,
                       memTold, memGone>>
    BY <1>a DEF MemRead, MemTo, memStore, memSaid
  <2>2. t.pc \notin {"put", "index", "capIds", "capRecs", "erase"}
    BY <1>4
  <2> QED BY <1>1, <1>2, <1>a, <2>1, <2>2, PlainMove
<1>6. CASE memRec[t.id] = <<>> /\ t.op \in {"delete", "patch"}
  <2>1. MemRead(r, MemIdle)
    BY <1>2, <1>6 DEF MemGet
  <2>2. \A i : ~Dying(t, i)
    BY <1>4, <1>6 DEF Dying
  <2> QED BY <1>3, <1>a, <2>1, <2>2, IdleFits
<1>7. CASE memRec[t.id] = <<>> /\ t.op \notin {"delete", "patch"}
  <2>1. MemRead(r, Skip(t))
    BY <1>2, <1>7 DEF MemGet
  <2>2. t = [t EXCEPT !.rec = <<>>]
    BY <1>3, <1>4 DEF MemTasks
  <2>3. /\ Fits(Skip(t), sc, own, memNew, memClock)
        /\ Skip(t).pc \in {"get", "done"} /\ Skip(t).op = t.op /\ Skip(t).told = t.told
        /\ \A j \in DOMAIN t.todo : j # 1 =>
             Skip(t).pc = "get" /\ \E m \in DOMAIN Skip(t).todo : Skip(t).todo[m] = t.todo[j]
    BY <1>3, <1>4, <2>2, SkipFits
  <2>4. Answerable(Skip(t), sc, memRec, memIdx, memMarked)
    BY <1>3, <1>4, <2>3 DEF Answerable
  <2>5. ASSUME NEW i \in MemIds, memRec[i] # <<>>, Dying(t, i) PROVE Dying(Skip(t), i)
    <3>1. PICK j \in DOMAIN t.todo : t.op = "upsert" /\ t.todo[j] = i
      BY <1>4, <2>5 DEF Dying
    <3>2. j # 1
      BY <1>5, <1>7, <2>5, <3>1
    <3> QED BY <2>3, <3>1, <3>2 DEF Dying
  <2> QED BY <1>a, <2>1, <2>3, <2>4, <2>5
<1>8. CASE memRec[t.id] # <<>> /\ t.op \in {"delete", "upsert"}
  <2>1. PICK k : k = [[t EXCEPT !.pc = "unindex"] EXCEPT !.rec = memRec[t.id]]
    OBVIOUS
  <2>2. MemRead(r, k)
    BY <1>2, <1>8, <2>1 DEF MemGet
  <2>3. memRec[t.id] \in Seq(Versions) /\ Len(memRec[t.id]) = 1
        /\ VersionFits(memRec[t.id][1], t.id, sc, own, memClock)
    BY <1>3, <1>4, <1>8 DEF RecordsFit
  <2>4. k \in MemTasks
    <3>1. "unindex" \in MemPcs
      BY DEF MemPcs
    <3>2. [t EXCEPT !.pc = "unindex"] \in MemTasks
      BY <1>3, <3>1, MemTaskExcept
    <3> QED BY <2>1, <2>3, <3>2, MemTaskExcept
  <2>5. /\ k.pc = "unindex" /\ k.rec = memRec[t.id] /\ k.op = t.op /\ k.id = t.id
        /\ k.scope = t.scope /\ k.content = t.content /\ k.ids = t.ids /\ k.todo = t.todo
        /\ k.found = t.found /\ k.fresh = t.fresh /\ k.told = t.told
    BY <1>3, <2>1 DEF MemTasks
  <2>6. Shape(k)
    BY <1>3, <1>4, <1>5, <2>3, <2>4, <2>5 DEF Shape
  <2>7. \A j \in DOMAIN k.rec : VersionFits(k.rec[j], k.id, sc, own, memClock)
    <3>1. DOMAIN k.rec = {1}
      BY <2>3, <2>5
    <3> QED BY <2>3, <2>5, <3>1
  <2>8. Fits(k, sc, own, memNew, memClock)
    BY <1>3, <2>5, <2>6, <2>7 DEF Fits
  <2>9. Answerable(k, sc, memRec, memIdx, memMarked)
    BY <1>3, <1>4, <2>5 DEF Answerable
  <2>10. \A i : Dying(t, i) => Dying(k, i)
    BY <1>4, <2>5 DEF Dying
  <2> QED BY <1>a, <2>2, <2>8, <2>9, <2>10
<1>9. CASE memRec[t.id] # <<>> /\ t.op \notin {"delete", "upsert"}
  <2>1. PICK v : v = [Rec(t.id) EXCEPT !.hits = @ + 1]
    OBVIOUS
  <2>2. PICK k : k = [[t EXCEPT !.pc = "hit"] EXCEPT !.rec = <<v>>]
    OBVIOUS
  <2>3. MemRead(r, k)
    BY <1>2, <1>9, <2>1, <2>2 DEF MemGet
  <2>4. VersionFits(Rec(t.id), t.id, sc, own, memClock)
    BY <1>3, <1>4, <1>9 DEF RecordsFit, Rec
  <2>5. VersionFits(v, t.id, sc, own, memClock)
    BY <2>1, <2>4 DEF VersionFits, Versions
  <2>6. <<v>> \in Seq(Versions) /\ Len(<<v>>) = 1 /\ DOMAIN <<v>> = {1} /\ <<v>>[1] = v
    BY <2>5 DEF VersionFits
  <2>7. k \in MemTasks
    <3>1. "hit" \in MemPcs
      BY DEF MemPcs
    <3>2. [t EXCEPT !.pc = "hit"] \in MemTasks
      BY <1>3, <3>1, MemTaskExcept
    <3> QED BY <2>2, <2>6, <3>2, MemTaskExcept
  <2>8. /\ k.pc = "hit" /\ k.rec = <<v>> /\ k.op = t.op /\ k.id = t.id
        /\ k.scope = t.scope /\ k.content = t.content /\ k.ids = t.ids /\ k.todo = t.todo
        /\ k.found = t.found /\ k.fresh = t.fresh /\ k.told = t.told
    BY <1>3, <2>2 DEF MemTasks
  <2>9. Shape(k)
    BY <1>3, <1>9, <2>6, <2>7, <2>8 DEF Shape
  <2>10. Fits(k, sc, own, memNew, memClock)
    BY <1>3, <2>5, <2>6, <2>8, <2>9 DEF Fits
  <2>11. Answerable(k, sc, memRec, memIdx, memMarked)
    BY <2>8 DEF Answerable
  <2>12. \A i : ~Dying(t, i)
    BY <1>4, <1>9 DEF Dying
  <2> QED BY <1>a, <2>3, <2>10, <2>11, <2>12
<1> QED BY <1>6, <1>7, <1>8, <1>9

\* What has been found are finitely many memories, each with its time.
Hits(F, own, n, c) ==
    /\ F \subseteq Entries /\ IsFiniteSet(F)
    /\ \A m \in F : m.id <= n /\ m.time \in 1 .. c /\ own[m.time] = m.id

LEMMA FoundHits ==
    ASSUME NEW sc, NEW own, MemSound(sc, own), NEW r \in Requests
    PROVE  Hits(memTask[r].found \cup Found(memTask[r]), own, memNew, memClock)
<1>1. PICK t : t = memTask[r]
  OBVIOUS
<1>2. /\ Fits(t, sc, own, memNew, memClock) /\ t \in MemTasks
      /\ RecordsFit(memRec, sc, own, memNew, memClock)
  BY <1>1, RequestFacts
<1>3. InScope(t) \subseteq MemIds /\ IsFiniteSet(InScope(t))
      /\ \A i \in InScope(t) : memRec[i] # <<>>
  BY <1>1, InScopeIs
<1>4. Same(t) \subseteq MemIds /\ IsFiniteSet(Same(t)) /\ \A i \in Same(t) : memRec[i] # <<>>
  <2>1. Same(t) \in SUBSET InScope(t)
    BY DEF Same
  <2>2. IsFiniteSet(Same(t))
    BY <1>3, <2>1, FS_Subset
  <2> QED BY <1>3, <2>1, <2>2
<1>5. \A i \in Same(t) : /\ i \in MemIds /\ i <= memNew
                         /\ Rec(i).hits \in Nat /\ Rec(i).time \in Nat
                         /\ Rec(i).time \in 1 .. memClock /\ own[Rec(i).time] = i
  BY <1>2, <1>4 DEF RecordsFit, VersionFits, Versions, Rec
<1> DEFINE E(i) == [id |-> i, hits |-> Rec(i).hits, time |-> Rec(i).time]
           f == [i \in Same(t) |-> E(i)]
<1>6. IsFiniteSet(Found(t))
  <2>1. f \in [Same(t) -> Found(t)]
    BY DEF Found
  <2>2. \A m \in Found(t) : \E i \in Same(t) : f[i] = m
    BY DEF Found
  <2> HIDE DEF f
  <2>3. f \in Surjection(Same(t), Found(t))
    BY <2>1, <2>2 DEF Surjection
  <2> QED BY <1>4, <2>3, FS_Surjection
<1>7. \A m \in Found(t) : m \in Entries /\ m.id <= memNew /\ m.time \in 1 .. memClock
                          /\ own[m.time] = m.id
  BY <1>5 DEF Found, Entries
<1>8. t.found \subseteq Entries
  BY <1>2, MemTaskFields
<1>9. IsFiniteSet(t.found \cup Found(t))
  BY <1>2, <1>6, FS_Union DEF Fits
<1> QED BY <1>1, <1>2, <1>7, <1>8, <1>9 DEF Hits, Fits

\* The most hits first, then the newest.
LEMMA BetterOrders ==
    ASSUME NEW F, NEW own, NEW n, NEW c, Hits(F, own, n, c)
    PROVE  Orders([m \in F |-> {j \in F : Better(j, m)}], F)
<1>1. \A m \in F : m \in Entries /\ own[m.time] = m.id
  BY DEF Hits
<1>2. \A m \in F : m.hits \in Nat /\ m.time \in Nat
  BY <1>1 DEF Entries
<1>3. ASSUME NEW i \in F, NEW j \in F, i # j PROVE Better(i, j) \/ Better(j, i)
  <2>1. i.hits # j.hits \/ i.time # j.time
    <3> SUFFICES ASSUME i.hits = j.hits, i.time = j.time PROVE FALSE
      OBVIOUS
    <3>1. i.id = j.id
      BY <1>1
    <3>2. i = [id |-> i.id, hits |-> i.hits, time |-> i.time]
          /\ j = [id |-> j.id, hits |-> j.hits, time |-> j.time]
      BY <1>1 DEF Entries
    <3> QED BY <1>3, <3>1, <3>2
  <2> QED BY <1>2, <2>1 DEF Better
<1>4. \A i \in F : ~Better(i, i)
  BY <1>2 DEF Better
<1>5. \A i, j, l \in F : Better(i, j) /\ Better(j, l) => Better(i, l)
  BY <1>2 DEF Better
<1> QED BY <1>3, <1>4, <1>5 DEF Orders

LEMMA SearchRecsInv == ASSUME MemInv, NEW r \in Requests, SearchRecs(r) PROVE MemInv'
<1> DEFINE t == memTask[r]
           x == CHOOSE n \in DOMAIN MemoryScopes : MemoryScopes[n] = t.scope
           F == t.found \cup Found(t)
           best == Listed(F, [m \in F |-> {n \in F : Better(n, m)}])
           e == IF Len(best) < SearchLimit THEN Len(best) ELSE SearchLimit
           top == SubSeq(best, 1, e)
           list == [n \in DOMAIN top |-> top[n].id]
           G == {top[n] : n \in DOMAIN top}
<1>0. MemRead(r, IF x < Len(MemoryScopes)
                   THEN [t EXCEPT !.pc = "ids", !.ids = {}, !.scope = MemoryScopes[x + 1],
                                  !.found = F]
                 ELSE IF top = <<>> THEN [t EXCEPT !.pc = "done", !.ids = {}, !.found = {}]
                 ELSE [t EXCEPT !.pc = "get", !.ids = {}, !.id = Head(top).id, !.todo = list,
                                !.found = G])
  BY Zenon DEF SearchRecs
<1> HIDE DEF t, x, F, best, e, top, list, G
<1>1. PICK sc, own : MemSound(sc, own)
  BY DEF MemInv
<1>2. t = memTask[r]
  BY DEF t
<1>3. /\ Fits(t, sc, own, memNew, memClock) /\ Shape(t) /\ t \in MemTasks
      /\ memNew \in Nat
  BY <1>1, RequestFacts, Zenon DEF t
<1>4. t.pc = "recs" /\ t.op = "search" /\ t.rec = <<>> /\ ~t.fresh
  BY <1>2, <1>3 DEF SearchRecs, MemAt, Shape
<1>5. F = t.found \cup Found(t)
  BY DEF F
<1>6. Hits(F, own, memNew, memClock)
  BY <1>1, <1>2, <1>5, FoundHits
<1>7. F \subseteq Entries /\ IsFiniteSet(F)
  BY <1>6 DEF Hits
<1>8. PICK ahead : ahead = [m \in F |-> {n \in F : Better(n, m)}]
  OBVIOUS
<1>9. Orders(ahead, F)
  BY <1>6, <1>8, BetterOrders
<1>10. best = Listed(F, ahead)
  BY <1>8 DEF best
<1>11. best \in Seq(F)
  BY <1>7, <1>9, <1>10, ListedRank
<1>12. e = IF Len(best) < SearchLimit THEN Len(best) ELSE SearchLimit
  BY DEF e
<1>13. e \in Nat /\ e <= Len(best)
  <2>1. Len(best) \in Nat
    BY <1>11
  <2> QED BY <1>12, <2>1, MemoryAssumption
<1>14. top = SubSeq(best, 1, e)
  BY DEF top
<1>15. top \in Seq(F) /\ Len(top) = e /\ DOMAIN top = 1 .. e /\ \A j \in 1 .. e : top[j] \in F
  BY <1>11, <1>13, <1>14
<1>a. ASSUME NEW k, MemRead(r, k), Fits(k, sc, own, memNew, memClock),
             k.op = "search", k.pc \in {"ids", "done", "get"}
      PROVE  MemInv'
  <2>1. memTask' = [memTask EXCEPT ![r] = k]
        /\ UNCHANGED <<memRec, memIdx, memClock, memNew, memMarked, memBack, memCrashes,
                       memTold, memGone>>
    BY <1>a DEF MemRead, MemTo, memStore, memSaid
  <2>2. t.pc \notin {"put", "index", "capIds", "capRecs", "erase"}
    BY <1>4
  <2>3. Answerable(k, sc, memRec, memIdx, memMarked)
    BY <1>a DEF Answerable
  <2>4. \A i : ~Dying(t, i)
    BY <1>4 DEF Dying
  <2> QED BY <1>1, <1>2, <1>a, <2>1, <2>2, <2>3, <2>4, PlainMove
<1>17. x \in 1 .. 3 /\ (x < 3 => MemoryScopes[x + 1] \in ScopeSet)
  <2>1. \E m \in DOMAIN MemoryScopes : MemoryScopes[m] = t.scope
    BY <1>3, MemTaskFields DEF ScopeSet
  <2>2. x \in 1 .. 3
    BY <2>1, ScopesAre DEF x
  <2>3. x < 3 => x + 1 \in DOMAIN MemoryScopes
    BY <2>2, ScopesAre
  <2> QED BY <2>2, <2>3 DEF ScopeSet
<1>18. CASE x < 3
  <2>1. PICK s \in ScopeSet : s = MemoryScopes[x + 1]
    BY <1>17, <1>18
  <2>2. PICK k : k = [[[[t EXCEPT !.pc = "ids"] EXCEPT !.ids = {}] EXCEPT !.scope = s]
                      EXCEPT !.found = F]
    OBVIOUS
  <2>3. MemRead(r, k)
    BY <1>0, <1>18, <2>1, <2>2, ScopesAre
  <2>4. k \in MemTasks
    <3>1. [t EXCEPT !.pc = "ids"] \in MemTasks
      BY <1>3, MemTaskExcept DEF MemPcs
    <3>2. [[t EXCEPT !.pc = "ids"] EXCEPT !.ids = {}] \in MemTasks
      BY <3>1, MemTaskExcept
    <3>3. [[[t EXCEPT !.pc = "ids"] EXCEPT !.ids = {}] EXCEPT !.scope = s] \in MemTasks
      BY <3>2, MemTaskExcept
    <3> QED BY <1>7, <2>2, <3>3, MemTaskExcept
  <2>5. /\ k.pc = "ids" /\ k.rec = t.rec /\ k.op = t.op /\ k.id = t.id
        /\ k.scope = s /\ k.ids = {} /\ k.todo = t.todo
        /\ k.found = F /\ k.fresh = t.fresh /\ k.told = t.told
    BY <1>3, <2>2 DEF MemTasks
  <2>6. Shape(k)
    BY <1>4, <2>4, <2>5 DEF Shape
  <2>7. Fits(k, sc, own, memNew, memClock)
    BY <1>3, <1>4, <1>6, <2>5, <2>6 DEF Fits, Hits
  <2> QED BY <1>4, <1>a, <2>3, <2>5, <2>7
<1>19. CASE ~(x < 3) /\ top = <<>>
  <2>1. PICK k : k = [[[t EXCEPT !.pc = "done"] EXCEPT !.ids = {}] EXCEPT !.found = {}]
    OBVIOUS
  <2>2. MemRead(r, k)
    BY <1>0, <1>19, <2>1, ScopesAre
  <2>3. k \in MemTasks
    <3>1. [t EXCEPT !.pc = "done"] \in MemTasks
      BY <1>3, MemTaskExcept DEF MemPcs
    <3>2. [[t EXCEPT !.pc = "done"] EXCEPT !.ids = {}] \in MemTasks
      BY <3>1, MemTaskExcept
    <3> QED BY <2>1, <3>2, MemTaskExcept
  <2>4. /\ k.pc = "done" /\ k.rec = t.rec /\ k.op = t.op /\ k.id = t.id
        /\ k.scope = t.scope /\ k.ids = {} /\ k.todo = t.todo
        /\ k.found = {} /\ k.fresh = t.fresh /\ k.told = t.told
    BY <1>3, <2>1 DEF MemTasks
  <2>5. Shape(k)
    BY <1>4, <2>3, <2>4 DEF Shape
  <2>6. Fits(k, sc, own, memNew, memClock)
    BY <1>3, <1>4, <2>4, <2>5, FS_EmptySet DEF Fits
  <2> QED BY <1>4, <1>a, <2>2, <2>4, <2>6
<1>20. CASE ~(x < 3) /\ top # <<>>
  <2>0. e >= 1 /\ 1 \in 1 .. e /\ Head(top) = top[1]
    BY <1>13, <1>15, <1>20
  <2>1. PICK i : i = Head(top).id
    OBVIOUS
  <2>2. list = [m \in DOMAIN top |-> top[m].id]
    BY DEF list
  <2>3. G = {top[m] : m \in DOMAIN top}
    BY DEF G
  <2>4. \A m \in 1 .. e : top[m].id \in MemIds /\ top[m].id <= memNew
    <3>1. \A m \in F : m.id \in MemIds /\ m.id <= memNew
      BY <1>6 DEF Hits, Entries
    <3> QED BY <1>15, <3>1
  <2>5. i \in MemIds /\ i <= memNew /\ i \in 0 .. MaxMemories
    <3>1. i \in MemIds /\ i <= memNew
      BY <2>0, <2>1, <2>4
    <3> QED BY <3>1, MemoryAssumption DEF MemIds
  <2>6. list \in Seq(MemIds) /\ \A m \in DOMAIN list : list[m] <= memNew
    <3>1. list \in [1 .. e -> MemIds] /\ DOMAIN list = 1 .. e
          /\ \A m \in 1 .. e : list[m] = top[m].id
      BY <1>15, <2>2, <2>4
    <3>2. list \in Seq(MemIds)
      BY <1>13, <3>1
    <3> QED BY <2>4, <3>1, <3>2
  <2>7. G \subseteq F /\ IsFiniteSet(G) /\ G \subseteq Entries
    <3>1. G \in SUBSET F
      BY <1>15, <2>3
    <3> QED BY <1>7, <3>1, FS_Subset
  <2>8. PICK k : k = [[[[[t EXCEPT !.pc = "get"] EXCEPT !.ids = {}] EXCEPT !.id = i]
                       EXCEPT !.todo = list] EXCEPT !.found = G]
    OBVIOUS
  <2>9. MemRead(r, k)
    <3>2. MemRead(r, [t EXCEPT !.pc = "get", !.ids = {}, !.id = i, !.todo = list, !.found = G])
      BY <1>0, <1>17, <1>20, <2>1, ScopesAre
    <3>3. k = [t EXCEPT !.pc = "get", !.ids = {}, !.id = i, !.todo = list, !.found = G]
      BY <2>8
    <3> QED BY <3>2, <3>3
  <2>10. k \in MemTasks
    <3>1. [t EXCEPT !.pc = "get"] \in MemTasks
      BY <1>3, MemTaskExcept DEF MemPcs
    <3>2. [[t EXCEPT !.pc = "get"] EXCEPT !.ids = {}] \in MemTasks
      BY <3>1, MemTaskExcept
    <3>3. [[[t EXCEPT !.pc = "get"] EXCEPT !.ids = {}] EXCEPT !.id = i] \in MemTasks
      BY <2>5, <3>2, MemTaskExcept
    <3>4. [[[[t EXCEPT !.pc = "get"] EXCEPT !.ids = {}] EXCEPT !.id = i] EXCEPT !.todo = list]
            \in MemTasks
      BY <2>6, <3>3, MemTaskExcept
    <3> QED BY <2>7, <2>8, <3>4, MemTaskExcept
  <2>11. /\ k.pc = "get" /\ k.rec = t.rec /\ k.op = t.op /\ k.id = i
         /\ k.scope = t.scope /\ k.ids = {} /\ k.todo = list
         /\ k.found = G /\ k.fresh = t.fresh /\ k.told = t.told
    BY <1>3, <2>8 DEF MemTasks
  <2>12. Shape(k)
    BY <1>4, <2>5, <2>10, <2>11 DEF Shape
  <2>13. Fits(k, sc, own, memNew, memClock)
    BY <1>3, <1>4, <1>6, <2>5, <2>6, <2>7, <2>11, <2>12 DEF Fits, Hits
  <2> QED BY <1>4, <1>a, <2>9, <2>11, <2>13
<1> QED BY <1>18, <1>19, <1>20, Zenon

LEMMA MemDoneInv == ASSUME MemInv, NEW r \in Requests, MemDone(r) PROVE MemInv'
<1>1. PICK sc, own : MemSound(sc, own)
  BY DEF MemInv
<1>2. PICK t : t = memTask[r]
  OBVIOUS
<1>3. /\ Fits(t, sc, own, memNew, memClock) /\ Shape(t) /\ t \in MemTasks
      /\ Answerable(t, sc, memRec, memIdx, memMarked) /\ memNew \in Nat
  BY <1>1, <1>2, RequestFacts
<1>4. t.pc = "done" /\ memTask' = [memTask EXCEPT ![r] = MemIdle]
      /\ memTold' = (IF t.op = "upsert" THEN memTold \cup {t.told} ELSE memTold)
      /\ memGone' = (IF t.op = "delete" THEN memGone \cup {t.id} ELSE memGone)
      /\ UNCHANGED <<memRec, memIdx, memClock, memNew, memMarked, memBack, memCrashes>>
  BY <1>2 DEF MemDone, MemAt, MemTo, memStore
<1>5. t.op = "upsert" => t.told \in 1 .. memNew /\ Safe(t.told, sc, memRec, memIdx, memMarked)
  <2>1. t.op = "upsert" => t.told \in MemIds /\ t.told <= memNew
    BY <1>3, <1>4 DEF Shape, Fits
  <2> QED BY <1>3, <1>4, <2>1 DEF Answerable, MemIds
<1>6. memTold' \subseteq 1 .. memNew
      /\ \A i \in memTold' : Safe(i, sc, memRec, memIdx, memMarked)
  <2>1. memTold \subseteq 1 .. memNew /\ \A i \in memTold : Safe(i, sc, memRec, memIdx, memMarked)
    BY <1>1 DEF MemSound, Facts, Reported
  <2> QED BY <1>4, <1>5, <2>1
<1>7. memGone' \subseteq 0 .. MaxMemories
  <2>1. memGone \subseteq 0 .. MaxMemories /\ t.id \in 0 .. MaxMemories
    BY <1>1, <1>3, MemTaskFields DEF MemSound, Facts
  <2> QED BY <1>4, <2>1
<1>8. \A i : ~Dying(t, i)
  BY <1>4 DEF Dying
<1>9. \A s, A : ~ToCount(t, s, A)
  BY <1>4 DEF ToCount
<1>10. t.pc \notin {"index", "erase"}
  BY <1>4
<1>11. Fits(MemIdle, sc, own, memNew, memClock)
       /\ Answerable(MemIdle, sc, memRec, memIdx, memMarked)
  BY <1>3, IdleFits
<1> QED BY <1>1, <1>2, <1>4, <1>6, <1>7, <1>8, <1>9, <1>10, <1>11, RequestMoves

LEMMA ListAllInv == ASSUME MemInv, NEW r \in Requests, ListAll(r) PROVE MemInv'
<1>1. PICK sc, own : MemSound(sc, own)
  BY DEF MemInv
<1>2. memTask' = [memTask EXCEPT ![r] = MemIdle] /\ memTask[r].pc = "all"
      /\ UNCHANGED <<memRec, memIdx, memClock, memNew, memMarked, memBack, memCrashes,
                     memTold, memGone>>
  BY DEF ListAll, MemAt, MemTo, memStore, memSaid
<1>3. Fits(MemIdle, sc, own, memNew, memClock)
      /\ Answerable(MemIdle, sc, memRec, memIdx, memMarked)
  BY <1>1, RequestFacts, IdleFits
<1>4. \A i : ~Dying(memTask[r], i)
  BY <1>2 DEF Dying
<1>5. memTask[r].pc \notin {"put", "index", "capIds", "capRecs", "erase"}
  BY <1>2
<1> QED BY <1>1, <1>2, <1>3, <1>4, <1>5, PlainMove

LEMMA MemStill ==
    ASSUME MemInv, UNCHANGED <<memRec, memIdx, memTask, memClock, memNew, memTold, memGone,
                               memMarked, memBack, memCrashes>>
    PROVE  MemInv'
<1>1. PICK sc, own : MemSound(sc, own)
  BY DEF MemInv
<1>2. Facts(sc, own)'
  BY <1>1 DEF MemSound, Facts
<1>3. Reported(sc)'
  BY <1>1 DEF MemSound, Reported
<1>4. Capped(sc)'
  BY <1>1 DEF MemSound, Capped
<1> QED BY <1>2, <1>3, <1>4 DEF MemSound, MemInv

LEMMA MemCrashInv == ASSUME MemInv, MemCrash PROVE MemInv'
<1>1. PICK sc, own : MemSound(sc, own)
  BY DEF MemInv
<1>2. memTask' = [r \in Requests |-> MemIdle] /\ memCrashes' = memCrashes + 1
      /\ UNCHANGED <<memRec, memIdx, memClock, memNew, memTold, memGone, memMarked, memBack>>
  BY DEF MemCrash, memStore, memSaid
<1>3. memNew \in Nat
  BY <1>1, MemoryAssumption DEF MemSound, Facts
<1>4. \A r \in Requests : Fits(memTask'[r], sc, own, memNew, memClock)
                          /\ Answerable(memTask'[r], sc, memRec, memIdx, memMarked)
  BY <1>2, <1>3, IdleFits
<1>5. memCrashes \in Nat /\ memCrashes' \in Nat /\ memCrashes' # 0
  <2>1. memCrashes \in Nat
    BY <1>1 DEF MemSound, Facts
  <2> QED BY <1>2, <2>1
<1>6. Facts(sc, own)'
  <2>1. memTask' = [r \in Requests |-> memTask'[r]]
    BY <1>2
  <2> QED BY <1>1, <1>2, <1>4, <1>5, <2>1 DEF MemSound, Facts
<1>7. Reported(sc)'
  BY <1>1, <1>2, <1>4 DEF MemSound, Reported
<1>8. Capped(sc)'
  BY <1>5 DEF Capped
<1> QED BY <1>6, <1>7, <1>8 DEF MemSound, MemInv

-----------------------------------------------------------------------------
(* Requests make a version of a record: the clock goes on.                   *)

\* Scopes of ids, or owners of times, that have been given stay.
Extends(g, f, n) == \A i \in 1 .. n : g[i] = f[i]

LEMMA VersionMade ==
    ASSUME NEW sc, NEW own, MemSound(sc, own), NEW r \in Requests, NEW k,
           NEW sc2, NEW own2, sc2 \in [MemIds -> ScopeSet], own2 \in [Nat -> Nat],
           Extends(sc2, sc, memNew), Extends(own2, own, memClock),
           memTask' = [memTask EXCEPT ![r] = k],
           memNew' \in 0 .. MaxMemories, memNew <= memNew', memClock' = memClock + 1,
           UNCHANGED <<memRec, memIdx, memMarked, memBack, memCrashes, memTold, memGone>>,
           Fits(k, sc2, own2, memNew', memClock'),
           k.pc = "put", memTask[r].pc \in {"recs", "get"}, memTask[r].op \in {"upsert", "patch"},
           memTask[r].op = "upsert" => memTask[r].pc = "recs"
    PROVE  MemInv'
<1>0. Facts(sc, own) /\ Reported(sc) /\ Capped(sc) /\ memNew \in Nat /\ memClock \in Nat
  BY RequestFacts DEF MemSound
<1>a. (\A i \in 1 .. memNew : sc2[i] = sc[i]) /\ \A x \in 1 .. memClock : own2[x] = own[x]
  BY DEF Extends
<1>1. memNew' \in Nat /\ memClock' \in Nat /\ memClock <= memClock'
  BY <1>0, MemoryAssumption
<1>2. /\ memTask' = [q \in Requests |-> memTask'[q]] /\ memTask'[r] = k
      /\ \A q \in Requests : q # r => memTask'[q] = memTask[q]
  BY <1>0, OneRequest
<1>3. ASSUME NEW q \in Requests PROVE Fits(memTask'[q], sc2, own2, memNew', memClock')
  <2>1. CASE q = r
    BY <1>2, <2>1
  <2>2. CASE q # r
    <3>1. Fits(memTask[q], sc, own, memNew, memClock)
      BY <1>0 DEF Facts
    <3>2. Fits(memTask[q], sc2, own2, memNew', memClock')
      BY <1>0, <1>1, <1>a, <3>1, FitsOn
    <3> QED BY <1>2, <2>2, <3>2
  <2> QED BY <2>1, <2>2
<1>4. RecordsFit(memRec, sc2, own2, memNew', memClock')
  <2>1. RecordsFit(memRec, sc, own, memNew, memClock)
    BY <1>0 DEF Facts
  <2> QED BY <1>0, <1>1, <1>a, <2>1, RecordsFitOn
<1>5. IndexFits(memIdx, sc2, memNew')
  <2>1. IndexFits(memIdx, sc, memNew)
    BY <1>0 DEF Facts
  <2>2. ASSUME NEW s \in ScopeSet, NEW i \in memIdx[s] PROVE i <= memNew' /\ sc2[i] = s
    <3>1. i \in 1 .. memNew
      BY <2>1 DEF IndexFits, MemIds
    <3> QED BY <1>0, <1>1, <1>a, <2>1, <3>1 DEF IndexFits
  <2> QED BY <2>1, <2>2 DEF IndexFits
<1>6. memTold' \subseteq 1 .. memNew'
  BY <1>0, <1>1 DEF Facts
<1>7. Facts(sc2, own2)'
  BY <1>0, <1>1, <1>2, <1>3, <1>4, <1>5, <1>6 DEF Facts
<1>8. \A i \in 1 .. memNew : Safe(i, sc, memRec, memIdx, memMarked)
                              => Safe(i, sc2, memRec, memIdx, memMarked)
  BY <1>a DEF Safe
<1>9. Reported(sc2)'
  <2>1. \A i \in memTold' : Safe(i, sc2, memRec, memIdx, memMarked)
    BY <1>0, <1>8 DEF Facts, Reported
  <2>2. ASSUME NEW q \in Requests
        PROVE  Answerable(memTask'[q], sc2, memRec, memIdx, memMarked)
    <3>1. CASE q = r
      BY <1>2, <3>1 DEF Answerable
    <3>2. CASE q # r
      <4>1. PICK t : t = memTask[q]
        OBVIOUS
      <4>2. Answerable(t, sc, memRec, memIdx, memMarked)
        BY <1>0, <4>1 DEF Reported
      <4>3. ASSUME t.op = "upsert",
                   t.pc \in {"capIds", "capRecs", "get", "unindex", "erase", "done"}
            PROVE  t.told \in 1 .. memNew
        <5>1. Fits(t, sc, own, memNew, memClock)
          BY <1>0, <4>1 DEF Facts
        <5>2. t.told <= memNew /\ t.told \in MemIds
          BY <4>3, <5>1 DEF Fits, Shape
        <5>3. memNew \in Nat
          BY <1>0
        <5>4. t.told \in Int /\ 1 <= t.told
          <6>1. t.told \in 1 .. MaxMemories
            BY <5>2 DEF MemIds
          <6> QED BY <6>1
        <5> QED BY <5>2, <5>3, <5>4
      <4>4. Answerable(t, sc2, memRec, memIdx, memMarked)
        BY <1>8, <4>2, <4>3 DEF Answerable
      <4> QED BY <1>2, <3>2, <4>1, <4>4
    <3> QED BY <3>1, <3>2
  <2> QED BY <2>1, <2>2 DEF Reported
<1>10. Capped(sc2)'
  <2> SUFFICES ASSUME memCrashes = 0 /\ ~memBack
               PROVE  /\ Placed(memTask', memRec, memIdx, sc2)
                      /\ \A s \in ScopeSet : Bounded(memTask', memRec, memIdx, s)
    BY DEF Capped
  <2>1. Placed(memTask, memRec, memIdx, sc)
        /\ \A s \in ScopeSet : Bounded(memTask, memRec, memIdx, s)
    BY <1>0 DEF Capped
  <2>2. Placed(memTask', memRec, memIdx, sc2)
    <3>1. ASSUME NEW i \in MemIds, memRec[i] # <<>> PROVE sc2[i] = sc[i]
      <4>1. i \in 1 .. memNew
        BY <1>0, <3>1 DEF Facts, RecordsFit, MemIds
      <4> QED BY <1>a, <4>1
    <3>2. \A q \in Requests, i \in MemIds : Holds(memTask[q], i) => Holds(memTask'[q], i)
      BY <1>2 DEF Holds
    <3> QED BY <2>1, <3>1, <3>2 DEF Placed
  <2>3. ASSUME NEW s \in ScopeSet PROVE Bounded(memTask', memRec, memIdx, s)
    <3>1. \A i : ~Dying(memTask[r], i)
      BY DEF Dying
    <3>2. Alive(memTask', memRec, memIdx, s) \subseteq Alive(memTask, memRec, memIdx, s)
      BY <1>2, <3>1 DEF Alive
    <3>3. ~ToCount(memTask[r], s, Alive(memTask, memRec, memIdx, s))
      BY DEF ToCount
    <3>4. IsFiniteSet(Alive(memTask, memRec, memIdx, s))
      BY <1>0, AliveFinite
    <3>5. Bounded(memTask, memRec, memIdx, s) /\ \A q \in Requests : q # r => memTask'[q] = memTask[q]
      BY <1>2, <2>1
    <3> QED BY <3>2, <3>3, <3>4, <3>5, BoundedOn
  <2> QED BY <2>2, <2>3
<1> QED BY <1>7, <1>9, <1>10 DEF MemSound, MemInv

LEMMA PatchGetInv == ASSUME MemInv, NEW r \in Requests, PatchGet(r) PROVE MemInv'
<1>1. PICK sc, own : MemSound(sc, own)
  BY DEF MemInv
<1>2. PICK t : t = memTask[r]
  OBVIOUS
<1>3. /\ Fits(t, sc, own, memNew, memClock) /\ Shape(t) /\ t \in MemTasks
      /\ RecordsFit(memRec, sc, own, memNew, memClock) /\ memNew \in Nat /\ memClock \in Nat
  BY <1>1, <1>2, RequestFacts
<1>4. t.pc = "get" /\ t.op = "patch" /\ memRec[t.id] # <<>> /\ memClock' = memClock + 1
      /\ UNCHANGED <<memRec, memIdx, memNew, memMarked, memBack, memCrashes, memTold, memGone>>
  BY <1>2 DEF PatchGet, MemAt, memStore, memSaid
<1>5. t.id \in MemIds /\ t.content \in Contents /\ ~t.fresh
  BY <1>3, <1>4 DEF Shape
<1>6. VersionFits(Rec(t.id), t.id, sc, own, memClock)
  BY <1>3, <1>4, <1>5 DEF RecordsFit, Rec
<1>7. PICK v : v = [Rec(t.id) EXCEPT !.content = t.content, !.time = memClock + 1]
  OBVIOUS
<1>8. PICK own2 : own2 = [own EXCEPT ![memClock + 1] = t.id]
  OBVIOUS
<1>9. own2 \in [Nat -> Nat] /\ own2[memClock + 1] = t.id /\ \A x \in 1 .. memClock : own2[x] = own[x]
  <2>1. own \in [Nat -> Nat]
    BY <1>1 DEF MemSound, Facts
  <2>2. t.id \in Nat
    BY <1>5, MemoryAssumption DEF MemIds
  <2> QED BY <1>3, <1>8, <2>1, <2>2
<1>10. VersionFits(v, t.id, sc, own2, memClock + 1)
  <2>1. v \in Versions /\ v.scope = sc[t.id] /\ v.time = memClock + 1
    <3>1. PICK w \in Versions : w = Rec(t.id)
      BY <1>6 DEF VersionFits
    <3>2. w.scope = sc[t.id]
      BY <1>6, <3>1 DEF VersionFits
    <3>3. v = [[w EXCEPT !.content = t.content] EXCEPT !.time = memClock + 1]
      BY <1>7, <3>1
    <3>4. memClock + 1 \in Nat
      BY <1>3
    <3> QED BY <1>5, <3>2, <3>3, <3>4 DEF Versions
  <2> QED BY <1>3, <1>5, <1>9, <2>1 DEF VersionFits
<1>11. PICK k : k = [[t EXCEPT !.pc = "put"] EXCEPT !.rec = <<v>>]
  OBVIOUS
<1>12. memTask' = [memTask EXCEPT ![r] = k]
  BY <1>2, <1>7, <1>11 DEF PatchGet, MemTo
<1>13. <<v>> \in Seq(Versions) /\ Len(<<v>>) = 1 /\ DOMAIN <<v>> = {1} /\ <<v>>[1] = v
  BY <1>10 DEF VersionFits
<1>14. k \in MemTasks
  <2>1. "put" \in MemPcs
    BY DEF MemPcs
  <2>2. [t EXCEPT !.pc = "put"] \in MemTasks
    BY <1>3, <2>1, MemTaskExcept
  <2> QED BY <1>11, <1>13, <2>2, MemTaskExcept
<1>15. /\ k.pc = "put" /\ k.rec = <<v>> /\ k.op = t.op /\ k.id = t.id
       /\ k.scope = t.scope /\ k.content = t.content /\ k.ids = t.ids /\ k.todo = t.todo
       /\ k.found = t.found /\ k.fresh = t.fresh /\ k.told = t.told
  BY <1>3, <1>11 DEF MemTasks
<1>16. Shape(k)
  BY <1>4, <1>5, <1>13, <1>14, <1>15 DEF Shape
<1>17. Fits(t, sc, own2, memNew, memClock + 1)
  BY <1>3, <1>9, FitsOn
<1>18. Fits(k, sc, own2, memNew, memClock + 1)
  BY <1>10, <1>13, <1>15, <1>16, <1>17 DEF Fits
<1>19. sc \in [MemIds -> ScopeSet] /\ memNew' \in 0 .. MaxMemories /\ memNew <= memNew'
  <2>1. sc \in [MemIds -> ScopeSet] /\ memNew \in 0 .. MaxMemories
    BY <1>1 DEF MemSound, Facts
  <2>2. memNew <= memNew
    BY <1>3
  <2> QED BY <1>4, <2>1, <2>2
<1>20. Fits(k, sc, own2, memNew', memClock')
  BY <1>4, <1>18
<1>21. memTask[r].pc \in {"recs", "get"} /\ memTask[r].op \in {"upsert", "patch"}
       /\ (memTask[r].op = "upsert" => memTask[r].pc = "recs")
  BY <1>2, <1>4
<1>22. UNCHANGED <<memRec, memIdx, memMarked, memBack, memCrashes, memTold, memGone>>
       /\ memClock' = memClock + 1 /\ Extends(sc, sc, memNew) /\ Extends(own2, own, memClock)
  BY <1>4, <1>9 DEF Extends
<1> QED BY <1>1, <1>9, <1>12, <1>15, <1>19, <1>20, <1>21, <1>22, VersionMade

LEMMA UpsertRecsInv == ASSUME MemInv, NEW r \in Requests, UpsertRecs(r) PROVE MemInv'
<1>1. PICK sc, own : MemSound(sc, own)
  BY DEF MemInv
<1>2. PICK t : t = memTask[r]
  OBVIOUS
<1>3. /\ Fits(t, sc, own, memNew, memClock) /\ Shape(t) /\ t \in MemTasks
      /\ RecordsFit(memRec, sc, own, memNew, memClock) /\ memNew \in Nat /\ memClock \in Nat
  BY <1>1, <1>2, RequestFacts
<1>4. t.pc = "recs" /\ t.op = "upsert" /\ memClock' = memClock + 1
      /\ UNCHANGED <<memRec, memIdx, memMarked, memBack, memCrashes, memTold, memGone>>
  BY <1>2 DEF UpsertRecs, MemAt, memStore, memSaid
<1>5. t.content \in Contents /\ t.scope \in ScopeSet
  BY <1>3, <1>4, MemTaskFields DEF Shape
<1>6. sc \in [MemIds -> ScopeSet] /\ own \in [Nat -> Nat] /\ memNew \in 0 .. MaxMemories
  BY <1>1 DEF MemSound, Facts
<1>7. memTask[r].pc \in {"recs", "get"} /\ memTask[r].op \in {"upsert", "patch"}
      /\ (memTask[r].op = "upsert" => memTask[r].pc = "recs")
  BY <1>2, <1>4
\* Whatever id gets the version.
<1>8. ASSUME NEW i \in MemIds, NEW v, NEW f \in BOOLEAN, NEW n2 \in Nat, i <= n2, memNew <= n2,
             n2 \in 0 .. MaxMemories, NEW sc2 \in [MemIds -> ScopeSet],
             \A j \in 1 .. memNew : sc2[j] = sc[j], sc2[i] = t.scope, NEW own2,
             own2 = [own EXCEPT ![memClock + 1] = i],
             v \in Versions, v.scope = t.scope, v.time = memClock + 1, NEW k,
             k = [[[[[[t EXCEPT !.pc = "put"] EXCEPT !.id = i] EXCEPT !.told = i] EXCEPT !.ids = {}]
                   EXCEPT !.fresh = f] EXCEPT !.rec = <<v>>],
             memTask' = [memTask EXCEPT ![r] = k], memNew' = n2
      PROVE  MemInv'
  <2>1. own2 \in [Nat -> Nat] /\ own2[memClock + 1] = i
        /\ \A x \in 1 .. memClock : own2[x] = own[x]
    <3>1. i \in Nat
      BY MemoryAssumption DEF MemIds
    <3> QED BY <1>3, <1>6, <1>8, <3>1
  <2>2. VersionFits(v, i, sc2, own2, memClock + 1)
    BY <1>3, <1>8, <2>1 DEF VersionFits
  <2>3. <<v>> \in Seq(Versions) /\ Len(<<v>>) = 1 /\ DOMAIN <<v>> = {1} /\ <<v>>[1] = v
    BY <1>8
  <2>4. i \in 0 .. MaxMemories
    BY MemoryAssumption DEF MemIds
  <2>5. PICK k1 : k1 = [[[t EXCEPT !.pc = "put"] EXCEPT !.id = i] EXCEPT !.told = i]
    OBVIOUS
  <2>6. k1 \in MemTasks
    <3>1. "put" \in MemPcs
      BY DEF MemPcs
    <3>2. [t EXCEPT !.pc = "put"] \in MemTasks
      BY <1>3, <3>1, MemTaskExcept
    <3>3. [[t EXCEPT !.pc = "put"] EXCEPT !.id = i] \in MemTasks
      BY <2>4, <3>2, MemTaskExcept
    <3> QED BY <2>4, <2>5, <3>3, MemTaskExcept
  <2>7. k = [[[k1 EXCEPT !.ids = {}] EXCEPT !.fresh = f] EXCEPT !.rec = <<v>>]
    BY <1>8, <2>5
  <2>8. k \in MemTasks
    <3>1. [k1 EXCEPT !.ids = {}] \in MemTasks
      BY <2>6, MemTaskExcept
    <3>2. [[k1 EXCEPT !.ids = {}] EXCEPT !.fresh = f] \in MemTasks
      BY <3>1, MemTaskExcept
    <3> QED BY <2>3, <2>7, <3>2, MemTaskExcept
  <2>9. /\ k1.pc = "put" /\ k1.id = i /\ k1.told = i /\ k1.op = t.op /\ k1.scope = t.scope
        /\ k1.content = t.content /\ k1.todo = t.todo /\ k1.found = t.found
    BY <1>3, <2>5 DEF MemTasks
  <2>10. /\ k.pc = k1.pc /\ k.rec = <<v>> /\ k.op = k1.op /\ k.id = k1.id /\ k.scope = k1.scope
         /\ k.content = k1.content /\ k.ids = {} /\ k.todo = k1.todo /\ k.found = k1.found
         /\ k.told = k1.told
    BY <2>6, <2>7 DEF MemTasks
  <2>11. Shape(k)
    BY <1>4, <1>5, <1>8, <2>3, <2>8, <2>9, <2>10 DEF Shape
  <2>12. Fits(t, sc2, own2, n2, memClock + 1)
    <3>1. memClock + 1 \in Nat /\ memClock <= memClock + 1
      BY <1>3
    <3>2. memNew <= n2 /\ \A j \in 1 .. memNew : sc2[j] = sc[j]
      BY <1>8
    <3> QED BY <1>3, <2>1, <3>1, <3>2, FitsOn
  <2>13. Fits(k, sc2, own2, n2, memClock + 1)
    BY <1>8, <2>2, <2>3, <2>9, <2>10, <2>11, <2>12 DEF Fits
  <2>14. Fits(k, sc2, own2, memNew', memClock')
    BY <1>4, <1>8, <2>13
  <2>15. k.pc = "put" /\ memNew' \in 0 .. MaxMemories /\ memNew <= memNew'
         /\ UNCHANGED <<memRec, memIdx, memMarked, memBack, memCrashes, memTold, memGone>>
         /\ memClock' = memClock + 1
    BY <1>4, <1>8, <2>9, <2>10
  <2>16. sc2 \in [MemIds -> ScopeSet] /\ Extends(sc2, sc, memNew)
         /\ memTask' = [memTask EXCEPT ![r] = k]
    BY <1>8 DEF Extends
  <2>17. own2 \in [Nat -> Nat] /\ Extends(own2, own, memClock)
    BY <2>1 DEF Extends
  <2> QED BY <1>1, <1>7, <2>14, <2>15, <2>16, <2>17, VersionMade
<1>9. CASE Same(t) # {}
  <2>1. PICK i : i = CHOOSE j \in Same(t) : \A l \in Same(t) : Rec(l).time <= Rec(j).time
    OBVIOUS
  <2>2. i \in Same(t)
    <3>1. Same(t) \subseteq MemIds /\ \A j \in Same(t) : memRec[j] # <<>>
      BY <1>1, <1>2, InScopeIs DEF Same
    <3>2. PICK T : T = {Rec(j).time : j \in Same(t)}
      OBVIOUS
    <3>3. \A j \in Same(t) : Rec(j).time \in 1 .. memClock
      BY <1>3, <3>1 DEF RecordsFit, VersionFits, Rec
    <3>4. T \subseteq Nat /\ T # {} /\ \A x \in T : x <= memClock
      BY <1>3, <1>9, <3>2, <3>3
    <3>5. PICK m \in T : \A x \in T : x <= m
      BY <1>3, <3>4, Greatest
    <3>6. \E j \in Same(t) : \A l \in Same(t) : Rec(l).time <= Rec(j).time
      BY <3>2, <3>5
    <3> QED BY <2>1, <3>6
  <2>3. i \in MemIds /\ memRec[i] # <<>> /\ sc[i] = t.scope /\ i <= memNew
    <3>1. i \in InScope(t)
      BY <2>2 DEF Same
    <3>2. i \in MemIds /\ memRec[i] # <<>> /\ sc[i] = t.scope
      BY <1>1, <1>2, <3>1, InScopeIs
    <3> QED BY <1>3, <3>2 DEF RecordsFit
  <2>4. PICK v : v = [Rec(i) EXCEPT !.content = t.content, !.time = memClock + 1]
    OBVIOUS
  <2>5. v \in Versions /\ v.scope = t.scope /\ v.time = memClock + 1
    <3>1. PICK w \in Versions : w = Rec(i) /\ w.scope = sc[i]
      BY <1>3, <2>3 DEF RecordsFit, VersionFits, Rec
    <3>2. v = [[w EXCEPT !.content = t.content] EXCEPT !.time = memClock + 1]
      BY <2>4, <3>1
    <3>3. memClock + 1 \in Nat
      BY <1>3
    <3> QED BY <1>5, <2>3, <3>1, <3>2, <3>3 DEF Versions
  <2>6. PICK k : k = [t EXCEPT !.pc = "put", !.id = i, !.told = i, !.ids = {}, !.rec = <<v>>]
    OBVIOUS
  <2>7. memTask' = [memTask EXCEPT ![r] = k] /\ memNew' = memNew
    BY <1>2, <1>9, <2>1, <2>4, <2>6 DEF UpsertRecs, MemTo
  <2>8. k = [[[[[[t EXCEPT !.pc = "put"] EXCEPT !.id = i] EXCEPT !.told = i] EXCEPT !.ids = {}]
              EXCEPT !.fresh = t.fresh] EXCEPT !.rec = <<v>>]
    BY <1>3, <2>6 DEF MemTasks
  <2>9. t.fresh \in BOOLEAN
    BY <1>3, MemTaskFields
  <2>10. memNew <= memNew /\ \A j \in 1 .. memNew : sc[j] = sc[j]
    BY <1>3
  <2> QED BY <1>3, <1>6, <1>8, <2>3, <2>5, <2>7, <2>8, <2>9, <2>10
<1>10. CASE Same(t) = {}
  <2>1. PICK i : i = memNew + 1
    OBVIOUS
  <2>2. PICK v : v = [scope |-> t.scope, content |-> t.content, hits |-> 0, time |-> memClock + 1]
    OBVIOUS
  <2>3. PICK k : k = [t EXCEPT !.pc = "put", !.id = i, !.told = i, !.ids = {}, !.fresh = TRUE,
                               !.rec = <<v>>]
    OBVIOUS
  <2>4. memNew < MaxMemories /\ memNew' = memNew + 1 /\ memTask' = [memTask EXCEPT ![r] = k]
    BY <1>2, <1>10, <2>1, <2>2, <2>3 DEF UpsertRecs, MemTo
  <2>5. i \in MemIds /\ i \in Nat /\ i <= i /\ memNew <= i /\ i \in 0 .. MaxMemories
        /\ i \notin 1 .. memNew
    BY <1>3, <2>1, <2>4, MemoryAssumption DEF MemIds
  <2>6. v \in Versions /\ v.scope = t.scope /\ v.time = memClock + 1
    <3>1. memClock + 1 \in Nat /\ 0 \in Nat
      BY <1>3
    <3> QED BY <1>5, <2>2, <3>1 DEF Versions
  <2>7. PICK sc2 : sc2 = [sc EXCEPT ![i] = t.scope]
    OBVIOUS
  <2>8. sc2 \in [MemIds -> ScopeSet] /\ sc2[i] = t.scope /\ \A j \in 1 .. memNew : sc2[j] = sc[j]
    <3>1. \A j \in 1 .. memNew : j \in MemIds
      BY <1>3, <2>4, MemoryAssumption DEF MemIds
    <3> QED BY <1>5, <1>6, <2>5, <2>7, <3>1
  <2>9. k = [[[[[[t EXCEPT !.pc = "put"] EXCEPT !.id = i] EXCEPT !.told = i] EXCEPT !.ids = {}]
              EXCEPT !.fresh = TRUE] EXCEPT !.rec = <<v>>]
    BY <2>3
  <2> QED BY <1>8, <2>1, <2>4, <2>5, <2>6, <2>8, <2>9
<1> QED BY <1>9, <1>10

-----------------------------------------------------------------------------
(* Requests write.                                                           *)

LEMMA StoreMoves ==
    ASSUME NEW sc, NEW own, MemSound(sc, own), NEW r \in Requests, NEW k,
           memTask' = [memTask EXCEPT ![r] = k],
           UNCHANGED <<memNew, memClock, memCrashes, memTold, memGone>>,
           memBack' \in BOOLEAN,
           RecordsFit(memRec', sc, own, memNew, memClock), IndexFits(memIdx', sc, memNew),
           Fits(k, sc, own, memNew, memClock),
           Answerable(k, sc, memRec', memIdx', memMarked'),
           memMarked \subseteq memMarked',
           \A i \in MemIds : memRec[i] # <<>> => memRec'[i] # <<>> \/ i \in memMarked',
           \A s \in ScopeSet : \A i \in memIdx[s] : i \in memIdx'[s] \/ i \in memMarked',
           Capped(sc)'
    PROVE  MemInv'
<1>0. Facts(sc, own) /\ Reported(sc) /\ memNew \in Nat
  BY RequestFacts DEF MemSound
<1>1. /\ memTask' = [q \in Requests |-> memTask'[q]] /\ memTask'[r] = k
      /\ \A q \in Requests : q # r => memTask'[q] = memTask[q]
  BY <1>0, OneRequest
<1>2. \A q \in Requests : Fits(memTask'[q], sc, own, memNew, memClock)
  BY <1>0, <1>1 DEF Facts
<1>3. Facts(sc, own)'
  BY <1>0, <1>1, <1>2 DEF Facts
<1>4. \A i \in MemIds : Safe(i, sc, memRec, memIdx, memMarked)
                          => Safe(i, sc, memRec', memIdx', memMarked')
  <2>1. \A i \in MemIds : sc[i] \in ScopeSet
    BY <1>0 DEF Facts
  <2> QED BY <2>1 DEF Safe
<1>5. Reported(sc)'
  <2>1. \A i \in memTold' : Safe(i, sc, memRec', memIdx', memMarked')
    <3>1. memTold \subseteq MemIds
      <4>1. memTold \subseteq 1 .. memNew /\ memNew \in 0 .. MaxMemories
        BY <1>0 DEF Facts
      <4> QED BY <4>1, MemoryAssumption DEF MemIds
    <3> QED BY <1>0, <1>4, <3>1 DEF Reported
  <2>2. ASSUME NEW q \in Requests
        PROVE  Answerable(memTask'[q], sc, memRec', memIdx', memMarked')
    <3>1. CASE q = r
      BY <1>1, <3>1
    <3>2. CASE q # r
      <4>1. PICK t : t = memTask[q]
        OBVIOUS
      <4>2. Answerable(t, sc, memRec, memIdx, memMarked)
        BY <1>0, <4>1 DEF Reported
      <4>3. Shape(t) /\ \A j \in DOMAIN t.rec : t.id \in MemIds
        BY <1>0, <4>1 DEF Facts, Fits, VersionFits
      <4>4. t.pc = "index" => t.id \in MemIds
        <5>1. t.pc = "index" => Len(t.rec) = 1 /\ t.rec \in Seq(Versions)
          BY <4>3, MemTaskFields DEF Shape
        <5> QED BY <4>3, <5>1
      <4>5. t.op = "upsert" /\ t.pc \in {"capIds", "capRecs", "get", "unindex", "erase", "done"}
              => t.told \in MemIds
        BY <4>3 DEF Shape
      <4>6. Answerable(t, sc, memRec', memIdx', memMarked')
        BY <1>4, <4>2, <4>4, <4>5 DEF Answerable
      <4> QED BY <1>1, <3>2, <4>1, <4>6
    <3> QED BY <3>1, <3>2
  <2> QED BY <2>1, <2>2 DEF Reported
<1> QED BY <1>3, <1>5 DEF MemSound, MemInv

\* The cap, when the memories that stay grow by none, or by one that its maker counts.
LEMMA CappedOn ==
    ASSUME NEW sc, NEW own, MemSound(sc, own), NEW r \in Requests, NEW k,
           memTask' = [memTask EXCEPT ![r] = k], memCrashes' = memCrashes, memBack => memBack',
           ~memBack' /\ Placed(memTask, memRec, memIdx, sc) =>
             /\ Placed(memTask', memRec', memIdx', sc)
             /\ \A s \in ScopeSet :
                  \/ /\ Alive(memTask', memRec', memIdx', s)
                          \subseteq Alive(memTask, memRec, memIdx, s)
                     /\ ToCount(memTask[r], s, Alive(memTask, memRec, memIdx, s))
                          => ToCount(k, s, Alive(memTask', memRec', memIdx', s))
                  \/ \E q \in Requests :
                       ToCount(memTask'[q], s, Alive(memTask', memRec', memIdx', s))
    PROVE  Capped(sc)'
<1> SUFFICES ASSUME memCrashes = 0 /\ ~memBack'
             PROVE  /\ Placed(memTask', memRec', memIdx', sc)
                    /\ \A s \in ScopeSet : Bounded(memTask', memRec', memIdx', s)
  BY DEF Capped
<1>1. Placed(memTask, memRec, memIdx, sc)
      /\ \A s \in ScopeSet : Bounded(memTask, memRec, memIdx, s)
  BY DEF MemSound, Capped
<1>2. memTask'[r] = k /\ \A q \in Requests : q # r => memTask'[q] = memTask[q]
  BY OneRequest DEF MemSound
<1>3. ASSUME NEW s \in ScopeSet PROVE Bounded(memTask', memRec', memIdx', s)
  <2>1. CASE /\ Alive(memTask', memRec', memIdx', s) \subseteq Alive(memTask, memRec, memIdx, s)
             /\ ToCount(memTask[r], s, Alive(memTask, memRec, memIdx, s))
                  => ToCount(k, s, Alive(memTask', memRec', memIdx', s))
    <3>1. IsFiniteSet(Alive(memTask, memRec, memIdx, s)) /\ Bounded(memTask, memRec, memIdx, s)
      BY <1>1, AliveFinite DEF MemSound
    <3>2. ToCount(memTask[r], s, Alive(memTask, memRec, memIdx, s)) =>
            ToCount(memTask'[r], s, Alive(memTask', memRec', memIdx', s))
      BY <1>2, <2>1
    <3>3. \A q \in Requests : q # r => memTask'[q] = memTask[q]
      BY <1>2
    <3> QED BY <2>1, <3>1, <3>2, <3>3, BoundedOn
  <2>2. CASE \E q \in Requests : ToCount(memTask'[q], s, Alive(memTask', memRec', memIdx', s))
    BY <2>2 DEF Bounded
  <2> QED BY <1>1, <2>1, <2>2
<1> QED BY <1>1, <1>3

\* A request at one of the writing steps, with its version.
LEMMA WriterFacts ==
    ASSUME NEW sc, NEW own, MemSound(sc, own), NEW r \in Requests, NEW t, t = memTask[r],
           t.pc \in {"put", "index", "hit", "unindex", "erase"}
    PROVE  /\ t.id \in MemIds /\ t.id <= memNew /\ t.rec \in Seq(Versions) /\ Len(t.rec) = 1
           /\ VersionFits(t.rec[1], t.id, sc, own, memClock) /\ t.rec[1].scope = sc[t.id]
           /\ sc[t.id] \in ScopeSet
<1>1. Fits(t, sc, own, memNew, memClock) /\ Shape(t) /\ t \in MemTasks
  BY RequestFacts
<1>2. t.rec \in Seq(Versions) /\ Len(t.rec) = 1
  BY <1>1, MemTaskFields DEF Shape
<1>3. 1 \in DOMAIN t.rec
  BY <1>2
<1>4. VersionFits(t.rec[1], t.id, sc, own, memClock)
  BY <1>1, <1>3 DEF Fits
<1>5. t.id \in MemIds /\ t.rec[1].scope = sc[t.id]
  BY <1>4 DEF VersionFits
<1>6. sc[t.id] \in ScopeSet
  BY <1>5 DEF MemSound, Facts
<1> QED BY <1>1, <1>2, <1>4, <1>5, <1>6 DEF Fits

LEMMA SavePutInv == ASSUME MemInv, NEW r \in Requests, SavePut(r) PROVE MemInv'
<1>1. PICK sc, own : MemSound(sc, own)
  BY DEF MemInv
<1>2. PICK t : t = memTask[r]
  OBVIOUS
<1>3. /\ Fits(t, sc, own, memNew, memClock) /\ Shape(t) /\ t \in MemTasks
      /\ RecordsFit(memRec, sc, own, memNew, memClock) /\ IndexFits(memIdx, sc, memNew)
  BY <1>1, <1>2, RequestFacts
<1>4. PICK k : k = [t EXCEPT !.pc = "index"]
  OBVIOUS
<1>5. /\ t.pc = "put" /\ memTask' = [memTask EXCEPT ![r] = k]
      /\ memRec' = [memRec EXCEPT ![t.id] = t.rec]
      /\ UNCHANGED <<memIdx, memClock, memNew, memTold, memGone, memMarked, memCrashes>>
  BY <1>2, <1>4 DEF SavePut, MemAt, MemTo, memSaid
<1>6. memBack' = (memBack \/ (~t.fresh /\ memRec[t.id] = <<>>))
  BY <1>2 DEF SavePut
<1>7. /\ t.id \in MemIds /\ t.id <= memNew /\ t.rec \in Seq(Versions) /\ Len(t.rec) = 1
      /\ VersionFits(t.rec[1], t.id, sc, own, memClock) /\ t.rec[1].scope = sc[t.id]
      /\ sc[t.id] \in ScopeSet
  BY <1>1, <1>2, <1>5, WriterFacts
<1>8. k \in MemTasks
  BY <1>3, <1>4, MemTaskExcept DEF MemPcs
<1>9. /\ k.pc = "index" /\ k.rec = t.rec /\ k.op = t.op /\ k.id = t.id
      /\ k.scope = t.scope /\ k.content = t.content /\ k.ids = t.ids /\ k.todo = t.todo
      /\ k.found = t.found /\ k.fresh = t.fresh /\ k.told = t.told
  BY <1>3, <1>4 DEF MemTasks
<1>10. Shape(k)
  BY <1>3, <1>5, <1>8, <1>9 DEF Shape
<1>11. Fits(k, sc, own, memNew, memClock)
  BY <1>3, <1>9, <1>10 DEF Fits
<1>12. memRec' \in [MemIds -> Seq(Versions)] /\ memRec'[t.id] = t.rec /\ t.rec # <<>>
       /\ \A i \in MemIds : i # t.id => memRec'[i] = memRec[i]
  BY <1>3, <1>5, <1>7 DEF RecordsFit
<1>13. RecordsFit(memRec', sc, own, memNew, memClock)
  <2>1. ASSUME NEW i \in MemIds, memRec'[i] # <<>>
        PROVE  /\ i <= memNew /\ Len(memRec'[i]) = 1
               /\ VersionFits(memRec'[i][1], i, sc, own, memClock)
    BY <1>3, <1>7, <1>12, <2>1 DEF RecordsFit
  <2> QED BY <1>12, <2>1 DEF RecordsFit
<1>14. IndexFits(memIdx', sc, memNew)
  BY <1>3, <1>5
<1>15. Answerable(k, sc, memRec', memIdx', memMarked')
  BY <1>9, <1>12 DEF Answerable
<1>16. \A i \in MemIds : memRec[i] # <<>> => memRec'[i] # <<>>
  BY <1>12
<1>17. memBack' \in BOOLEAN /\ (memBack => memBack') /\ memCrashes' = memCrashes
  BY <1>1, <1>5, <1>6 DEF MemSound, Facts
<1>18. memTask'[r] = k /\ \A q \in Requests : q # r => memTask'[q] = memTask[q]
  BY <1>1, <1>5, OneRequest DEF MemSound
<1>19. ASSUME ~memBack', Placed(memTask, memRec, memIdx, sc)
       PROVE  Placed(memTask', memRec', memIdx', sc)
  <2> SUFFICES ASSUME NEW i \in MemIds, memRec'[i] # <<>>
               PROVE  i \in memIdx[sc[i]] \/ \E q \in Requests : Holds(memTask'[q], i)
    BY <1>5 DEF Placed
  <2>1. CASE memRec[i] # <<>>
    <3>1. \A q \in Requests : Holds(memTask[q], i) => Holds(memTask'[q], i)
      BY <1>2, <1>5, <1>18 DEF Holds
    <3> QED BY <1>19, <2>1, <3>1 DEF Placed
  <2>2. CASE memRec[i] = <<>>
    <3>1. i = t.id /\ t.fresh
      BY <1>6, <1>12, <1>19, <2>2
    <3> QED BY <1>9, <1>18, <3>1 DEF Holds
  <2> QED BY <2>1, <2>2
<1>20. ASSUME ~memBack', NEW s \in ScopeSet
       PROVE  \/ /\ Alive(memTask', memRec', memIdx', s) \subseteq Alive(memTask, memRec, memIdx, s)
                 /\ ToCount(memTask[r], s, Alive(memTask, memRec, memIdx, s))
                      => ToCount(k, s, Alive(memTask', memRec', memIdx', s))
              \/ \E q \in Requests :
                   ToCount(memTask'[q], s, Alive(memTask', memRec', memIdx', s))
  <2>1. CASE t.fresh /\ t.scope = s
    BY <1>9, <1>18, <2>1 DEF ToCount
  <2>2. CASE ~(t.fresh /\ t.scope = s)
    <3>1. ASSUME NEW i \in Alive(memTask', memRec', memIdx', s)
          PROVE  i \in Alive(memTask, memRec, memIdx, s)
      <4>1. i \in memIdx[s] /\ memRec'[i] # <<>> /\ \A q \in Requests : ~Dying(memTask'[q], i)
        BY <1>5 DEF Alive
      <4>2. i \in MemIds /\ sc[i] = s
        BY <1>3, <4>1 DEF IndexFits
      <4>3. memRec[i] # <<>>
        <5>1. CASE i # t.id
          BY <1>12, <4>1, <4>2, <5>1
        <5>2. CASE i = t.id
          <6>1. t.fresh => t.scope = s
            BY <1>3, <1>5, <1>7, <4>2, <5>2 DEF Shape
          <6> QED BY <1>6, <1>20, <2>2, <5>2, <6>1
        <5> QED BY <5>1, <5>2
      <4>4. \A q \in Requests : ~Dying(memTask[q], i)
        <5>1. ~Dying(t, i)
          BY <1>5 DEF Dying
        <5> QED BY <1>2, <1>18, <4>1, <5>1
      <4> QED BY <4>1, <4>3, <4>4 DEF Alive
    <3>2. ~ToCount(memTask[r], s, Alive(memTask, memRec, memIdx, s))
      BY <1>2, <2>2 DEF ToCount
    <3> QED BY <3>1, <3>2
  <2> QED BY <2>1, <2>2
<1>21. Capped(sc)'
  BY <1>1, <1>5, <1>17, <1>19, <1>20, CappedOn
<1>22. UNCHANGED <<memNew, memClock, memCrashes, memTold, memGone>> /\ memMarked \subseteq memMarked'
       /\ \A s \in ScopeSet : \A i \in memIdx[s] : i \in memIdx'[s]
  BY <1>5
<1> QED BY <1>1, <1>5, <1>11, <1>13, <1>14, <1>15, <1>16, <1>17, <1>21, <1>22, StoreMoves

LEMMA SaveIndexInv == ASSUME MemInv, NEW r \in Requests, SaveIndex(r) PROVE MemInv'
<1>1. PICK sc, own : MemSound(sc, own)
  BY DEF MemInv
<1>2. PICK t : t = memTask[r]
  OBVIOUS
<1>3. /\ Fits(t, sc, own, memNew, memClock) /\ Shape(t) /\ t \in MemTasks
      /\ Answerable(t, sc, memRec, memIdx, memMarked)
      /\ RecordsFit(memRec, sc, own, memNew, memClock) /\ IndexFits(memIdx, sc, memNew)
  BY <1>1, <1>2, RequestFacts
<1>4. PICK k : k = [t EXCEPT !.pc = IF t.fresh THEN "capIds" ELSE "done", !.rec = <<>>]
  OBVIOUS
<1>5. /\ t.pc = "index" /\ memTask' = [memTask EXCEPT ![r] = k]
      /\ UNCHANGED <<memRec, memClock, memNew, memTold, memGone, memMarked, memBack, memCrashes>>
  BY <1>2, <1>4 DEF SaveIndex, MemAt, MemTo, memSaid
<1>7. /\ t.id \in MemIds /\ t.id <= memNew /\ t.rec[1].scope = sc[t.id]
      /\ sc[t.id] \in ScopeSet
  BY <1>1, <1>2, <1>5, WriterFacts
<1>6. memIdx' = [memIdx EXCEPT ![sc[t.id]] = memIdx[sc[t.id]] \cup {t.id}]
  BY <1>2, <1>7 DEF SaveIndex
<1>8. k \in MemTasks
  <2>1. PICK p \in MemPcs : p = IF t.fresh THEN "capIds" ELSE "done"
    BY DEF MemPcs
  <2>2. k = [[t EXCEPT !.pc = p] EXCEPT !.rec = <<>>] /\ <<>> \in Seq(Versions)
    BY <1>4, <2>1
  <2>3. [t EXCEPT !.pc = p] \in MemTasks
    BY <1>3, MemTaskExcept
  <2> QED BY <2>2, <2>3, MemTaskExcept
<1>9. /\ k.pc = (IF t.fresh THEN "capIds" ELSE "done") /\ k.rec = <<>> /\ k.op = t.op
      /\ k.id = t.id /\ k.scope = t.scope /\ k.content = t.content /\ k.ids = t.ids
      /\ k.todo = t.todo /\ k.found = t.found /\ k.fresh = t.fresh /\ k.told = t.told
  BY <1>3, <1>4 DEF MemTasks
<1>10. Shape(k)
  BY <1>3, <1>5, <1>7, <1>8, <1>9 DEF Shape
<1>11. Fits(k, sc, own, memNew, memClock)
  BY <1>3, <1>9, <1>10 DEF Fits
<1>12. /\ memIdx' \in [ScopeSet -> SUBSET MemIds]
       /\ memIdx'[sc[t.id]] = memIdx[sc[t.id]] \cup {t.id}
       /\ \A s \in ScopeSet : s # sc[t.id] => memIdx'[s] = memIdx[s]
  BY <1>3, <1>6, <1>7 DEF IndexFits
<1>13. IndexFits(memIdx', sc, memNew)
  <2>1. ASSUME NEW s \in ScopeSet, NEW i \in memIdx'[s] PROVE i <= memNew /\ sc[i] = s
    BY <1>3, <1>7, <1>12, <2>1 DEF IndexFits
  <2> QED BY <1>12, <2>1 DEF IndexFits
<1>14. RecordsFit(memRec', sc, own, memNew, memClock)
  BY <1>3, <1>5
<1>15. Answerable(k, sc, memRec', memIdx', memMarked')
  BY <1>3, <1>5, <1>9, <1>12 DEF Answerable, Safe, Shape
<1>16. memBack' \in BOOLEAN /\ (memBack => memBack') /\ memCrashes' = memCrashes
  BY <1>1, <1>5 DEF MemSound, Facts
<1>17. memTask'[r] = k /\ \A q \in Requests : q # r => memTask'[q] = memTask[q]
  BY <1>1, <1>5, OneRequest DEF MemSound
<1>18. \A s \in ScopeSet : memIdx[s] \subseteq memIdx'[s]
  BY <1>12
<1>19. ASSUME Placed(memTask, memRec, memIdx, sc)
       PROVE  Placed(memTask', memRec', memIdx', sc)
  <2> SUFFICES ASSUME NEW i \in MemIds, memRec[i] # <<>>
               PROVE  i \in memIdx'[sc[i]] \/ \E q \in Requests : Holds(memTask'[q], i)
    BY <1>5 DEF Placed
  <2>1. CASE i = t.id
    BY <1>12, <2>1
  <2>2. CASE i # t.id
    <3>1. \A q \in Requests : Holds(memTask[q], i) => Holds(memTask'[q], i)
      BY <1>2, <1>17, <2>2 DEF Holds
    <3>2. sc[i] \in ScopeSet
      BY <1>1 DEF MemSound, Facts
    <3> QED BY <1>18, <1>19, <3>1, <3>2 DEF Placed
  <2> QED BY <2>1, <2>2
<1>20. ASSUME Placed(memTask, memRec, memIdx, sc), NEW s \in ScopeSet
       PROVE  \/ /\ Alive(memTask', memRec', memIdx', s) \subseteq Alive(memTask, memRec, memIdx, s)
                 /\ ToCount(memTask[r], s, Alive(memTask, memRec, memIdx, s))
                      => ToCount(k, s, Alive(memTask', memRec', memIdx', s))
              \/ \E q \in Requests :
                   ToCount(memTask'[q], s, Alive(memTask', memRec', memIdx', s))
  <2>0. t.fresh => sc[t.id] = t.scope
    BY <1>3, <1>5, <1>7 DEF Shape
  <2>1. CASE t.fresh /\ t.scope = s
    BY <1>9, <1>17, <2>1 DEF ToCount
  <2>2. CASE ~(t.fresh /\ t.scope = s)
    <3>1. ~ToCount(memTask[r], s, Alive(memTask, memRec, memIdx, s))
      BY <1>2, <2>2 DEF ToCount
    <3>2. CASE Alive(memTask', memRec', memIdx', s) \subseteq Alive(memTask, memRec, memIdx, s)
      BY <3>1, <3>2
    <3>3. CASE ~(Alive(memTask', memRec', memIdx', s) \subseteq Alive(memTask, memRec, memIdx, s))
      <4>1. PICK i \in Alive(memTask', memRec', memIdx', s) :
              i \notin Alive(memTask, memRec, memIdx, s)
        BY <3>3
      <4>2. i \in memIdx'[s] /\ memRec[i] # <<>> /\ \A q \in Requests : ~Dying(memTask'[q], i)
        BY <1>5 DEF Alive
      <4>3. ~Dying(t, i)
        BY <1>5 DEF Dying
      <4>4. \A q \in Requests : ~Dying(memTask[q], i)
        BY <1>2, <1>17, <4>2, <4>3
      <4>5. i \notin memIdx[s]
        BY <4>1, <4>2, <4>4 DEF Alive
      <4>6. i = t.id /\ s = sc[t.id]
        BY <1>12, <4>2, <4>5
      <4>7. ~t.fresh
        BY <2>0, <2>2, <4>6
      <4>8. PICK q \in Requests : Holds(memTask[q], i)
        BY <1>7, <1>20, <4>2, <4>5, <4>6 DEF Placed
      <4>9. PICK u : u = memTask[q]
        OBVIOUS
      <4>10. u.id = i /\ u.pc = "index" /\ u.fresh
        BY <4>4, <4>8, <4>9 DEF Holds, Dying
      <4>11. q # r
        BY <1>2, <4>7, <4>9, <4>10
      <4>12. u.scope = s
        <5>1. Shape(u)
          BY <1>1, <4>9, RequestFacts
        <5>2. u.rec[1].scope = sc[u.id]
          BY <1>1, <4>9, <4>10, WriterFacts
        <5> QED BY <4>6, <4>10, <5>1, <5>2 DEF Shape
      <4>13. ToCount(memTask'[q], s, Alive(memTask', memRec', memIdx', s))
        BY <1>17, <4>9, <4>10, <4>11, <4>12 DEF ToCount
      <4> QED BY <4>13
    <3> QED BY <3>2, <3>3
  <2> QED BY <2>1, <2>2
<1>21. Capped(sc)'
  BY <1>1, <1>5, <1>16, <1>19, <1>20, CappedOn
<1>22. UNCHANGED <<memNew, memClock, memCrashes, memTold, memGone>> /\ memMarked \subseteq memMarked'
       /\ (\A s \in ScopeSet : \A i \in memIdx[s] : i \in memIdx'[s])
       /\ (\A i \in MemIds : memRec[i] # <<>> => memRec'[i] # <<>>)
  BY <1>5, <1>18
<1> QED BY <1>1, <1>5, <1>11, <1>13, <1>14, <1>15, <1>16, <1>21, <1>22, StoreMoves

LEMMA UnindexInv == ASSUME MemInv, NEW r \in Requests, Unindex(r) PROVE MemInv'
<1>1. PICK sc, own : MemSound(sc, own)
  BY DEF MemInv
<1>2. PICK t : t = memTask[r]
  OBVIOUS
<1>3. /\ Fits(t, sc, own, memNew, memClock) /\ Shape(t) /\ t \in MemTasks
      /\ Answerable(t, sc, memRec, memIdx, memMarked)
      /\ RecordsFit(memRec, sc, own, memNew, memClock) /\ IndexFits(memIdx, sc, memNew)
  BY <1>1, <1>2, RequestFacts
<1>4. PICK k : k = [t EXCEPT !.pc = "erase"]
  OBVIOUS
<1>5. /\ t.pc = "unindex" /\ memTask' = [memTask EXCEPT ![r] = k]
      /\ memMarked' = memMarked \cup {t.id}
      /\ UNCHANGED <<memRec, memClock, memNew, memTold, memGone, memBack, memCrashes>>
  BY <1>2, <1>4 DEF Unindex, MemAt, MemTo
<1>7. /\ t.id \in MemIds /\ t.rec[1].scope = sc[t.id] /\ sc[t.id] \in ScopeSet
  BY <1>1, <1>2, <1>5, WriterFacts
<1>6. memIdx' = [memIdx EXCEPT ![sc[t.id]] = memIdx[sc[t.id]] \ {t.id}]
  BY <1>2, <1>7 DEF Unindex
<1>8. k \in MemTasks
  BY <1>3, <1>4, MemTaskExcept DEF MemPcs
<1>9. /\ k.pc = "erase" /\ k.rec = t.rec /\ k.op = t.op /\ k.id = t.id
      /\ k.scope = t.scope /\ k.content = t.content /\ k.ids = t.ids /\ k.todo = t.todo
      /\ k.found = t.found /\ k.fresh = t.fresh /\ k.told = t.told
  BY <1>3, <1>4 DEF MemTasks
<1>10. Shape(k)
  BY <1>3, <1>5, <1>8, <1>9 DEF Shape
<1>11. Fits(k, sc, own, memNew, memClock)
  BY <1>3, <1>9, <1>10 DEF Fits
<1>12. /\ memIdx' \in [ScopeSet -> SUBSET MemIds]
       /\ \A s \in ScopeSet : memIdx'[s] \subseteq memIdx[s]
       /\ \A s \in ScopeSet : \A i \in memIdx[s] : i # t.id => i \in memIdx'[s]
  BY <1>3, <1>6, <1>7 DEF IndexFits
<1>13. IndexFits(memIdx', sc, memNew)
  BY <1>3, <1>12 DEF IndexFits
<1>14. RecordsFit(memRec', sc, own, memNew, memClock)
  BY <1>3, <1>5
<1>15. Answerable(k, sc, memRec', memIdx', memMarked')
  <2>1. k.op = "upsert" => Safe(k.told, sc, memRec', memIdx', memMarked')
    <3> SUFFICES ASSUME t.op = "upsert" PROVE Safe(t.told, sc, memRec', memIdx', memMarked')
      BY <1>9
    <3>1. Safe(t.told, sc, memRec, memIdx, memMarked) /\ t.told \in MemIds
      BY <1>3, <1>5 DEF Answerable, Shape
    <3>2. sc[t.told] \in ScopeSet
      BY <1>1, <3>1 DEF MemSound, Facts
    <3> QED BY <1>5, <1>12, <3>1, <3>2 DEF Safe
  <2> QED BY <1>5, <1>9, <2>1 DEF Answerable
<1>16. memBack' \in BOOLEAN /\ (memBack => memBack') /\ memCrashes' = memCrashes
  BY <1>1, <1>5 DEF MemSound, Facts
<1>17. memTask'[r] = k /\ \A q \in Requests : q # r => memTask'[q] = memTask[q]
  BY <1>1, <1>5, OneRequest DEF MemSound
<1>18. \A s \in ScopeSet : \A i \in memIdx[s] : i \in memIdx'[s] \/ i \in memMarked'
  BY <1>5, <1>12
<1>19. ASSUME Placed(memTask, memRec, memIdx, sc)
       PROVE  Placed(memTask', memRec', memIdx', sc)
  <2> SUFFICES ASSUME NEW i \in MemIds, memRec[i] # <<>>
               PROVE  i \in memIdx'[sc[i]] \/ \E q \in Requests : Holds(memTask'[q], i)
    BY <1>5 DEF Placed
  <2>1. CASE i = t.id
    BY <1>9, <1>17, <2>1 DEF Holds
  <2>2. CASE i # t.id
    <3>1. \A q \in Requests : Holds(memTask[q], i) => Holds(memTask'[q], i)
      BY <1>2, <1>17, <2>2 DEF Holds
    <3>2. sc[i] \in ScopeSet
      BY <1>1 DEF MemSound, Facts
    <3> QED BY <1>12, <1>19, <2>2, <3>1, <3>2 DEF Placed
  <2> QED BY <2>1, <2>2
<1>20. ASSUME NEW s \in ScopeSet
       PROVE  /\ Alive(memTask', memRec', memIdx', s) \subseteq Alive(memTask, memRec, memIdx, s)
              /\ ~ToCount(memTask[r], s, Alive(memTask, memRec, memIdx, s))
  <2>1. \A i : Dying(t, i) => Dying(k, i)
    BY <1>5, <1>9 DEF Dying
  <2>2. \A i : \A q \in Requests : Dying(memTask[q], i) => Dying(memTask'[q], i)
    BY <1>2, <1>17, <2>1
  <2>3. Alive(memTask', memRec', memIdx', s) \subseteq Alive(memTask, memRec, memIdx, s)
    BY <1>5, <1>12, <2>2 DEF Alive
  <2>4. ~ToCount(memTask[r], s, Alive(memTask, memRec, memIdx, s))
    BY <1>2, <1>5 DEF ToCount
  <2> QED BY <2>3, <2>4
<1>21. Capped(sc)'
  BY <1>1, <1>5, <1>16, <1>19, <1>20, CappedOn
<1>22. UNCHANGED <<memNew, memClock, memCrashes, memTold, memGone>> /\ memMarked \subseteq memMarked'
       /\ (\A i \in MemIds : memRec[i] # <<>> => memRec'[i] # <<>>)
  BY <1>5
<1> QED BY <1>1, <1>5, <1>11, <1>13, <1>14, <1>15, <1>16, <1>18, <1>21, <1>22, StoreMoves

LEMMA EraseInv == ASSUME MemInv, NEW r \in Requests, Erase(r) PROVE MemInv'
<1>1. PICK sc, own : MemSound(sc, own)
  BY DEF MemInv
<1>2. PICK t : t = memTask[r]
  OBVIOUS
<1>3. /\ Fits(t, sc, own, memNew, memClock) /\ Shape(t) /\ t \in MemTasks
      /\ Answerable(t, sc, memRec, memIdx, memMarked)
      /\ RecordsFit(memRec, sc, own, memNew, memClock) /\ IndexFits(memIdx, sc, memNew)
  BY <1>1, <1>2, RequestFacts
<1>4. PICK k : k = IF t.op = "delete" THEN [t EXCEPT !.pc = "done"]
                   ELSE Skip([t EXCEPT !.rec = <<>>])
  OBVIOUS
<1>5. /\ t.pc = "erase" /\ memTask' = [memTask EXCEPT ![r] = k]
      /\ memRec' = [memRec EXCEPT ![t.id] = <<>>]
      /\ UNCHANGED <<memIdx, memClock, memNew, memTold, memGone, memMarked, memBack, memCrashes>>
  BY <1>2, <1>4 DEF Erase, MemAt, MemTo, memSaid
<1>6. t.id \in MemIds /\ t.id \in memMarked
  <2>1. t.id \in MemIds
    BY <1>1, <1>2, <1>5, WriterFacts
  <2> QED BY <1>3, <1>5, <2>1 DEF Answerable
<1>7. t.op = "upsert" => t.told \in MemIds /\ t.todo # <<>> /\ t.id = t.todo[1]
  BY <1>3, <1>5 DEF Shape
<1>8. /\ Fits(k, sc, own, memNew, memClock) /\ k.pc \in {"get", "done"}
      /\ k.op = t.op /\ k.told = t.told
      /\ \A i \in MemIds : i # t.id /\ Dying(t, i) => Dying(k, i)
  <2>1. CASE t.op = "delete"
    <3>1. k = [t EXCEPT !.pc = "done"] /\ "done" \in MemPcs
      BY <1>4, <2>1 DEF MemPcs
    <3>2. k \in MemTasks
      BY <1>3, <3>1, MemTaskExcept
    <3>3. /\ k.pc = "done" /\ k.rec = t.rec /\ k.op = t.op /\ k.id = t.id
          /\ k.scope = t.scope /\ k.content = t.content /\ k.ids = t.ids /\ k.todo = t.todo
          /\ k.found = t.found /\ k.fresh = t.fresh /\ k.told = t.told
      BY <1>3, <3>1 DEF MemTasks
    <3>4. Shape(k)
      BY <1>3, <2>1, <3>2, <3>3 DEF Shape
    <3>5. Fits(k, sc, own, memNew, memClock)
      BY <1>3, <3>3, <3>4 DEF Fits
    <3>6. \A i : Dying(t, i) => i = t.id
      BY <2>1 DEF Dying
    <3> QED BY <3>3, <3>5, <3>6
  <2>2. CASE t.op # "delete"
    <3>1. k = Skip([t EXCEPT !.rec = <<>>])
      BY <1>4, <2>2
    <3>2. /\ Fits(k, sc, own, memNew, memClock)
          /\ k.pc \in {"get", "done"} /\ k.op = t.op /\ k.told = t.told
          /\ \A j \in DOMAIN t.todo : j # 1 =>
               k.pc = "get" /\ \E m \in DOMAIN k.todo : k.todo[m] = t.todo[j]
      BY <1>3, <1>5, <3>1, SkipFits
    <3>3. ASSUME NEW i \in MemIds, i # t.id, Dying(t, i) PROVE Dying(k, i)
      <4>1. PICK j \in DOMAIN t.todo : t.op = "upsert" /\ t.todo[j] = i
        BY <3>3 DEF Dying
      <4>2. j # 1
        BY <1>7, <3>3, <4>1
      <4> QED BY <3>2, <4>1, <4>2 DEF Dying
    <3> QED BY <3>2, <3>3
  <2> QED BY <2>1, <2>2
<1>9. /\ memRec' \in [MemIds -> Seq(Versions)] /\ memRec'[t.id] = <<>>
      /\ \A i \in MemIds : i # t.id => memRec'[i] = memRec[i]
  <2>1. <<>> \in Seq(Versions)
    OBVIOUS
  <2> QED BY <1>3, <1>5, <1>6, <2>1 DEF RecordsFit
<1>10. RecordsFit(memRec', sc, own, memNew, memClock)
  <2>1. ASSUME NEW i \in MemIds, memRec'[i] # <<>>
        PROVE  /\ i <= memNew /\ Len(memRec'[i]) = 1
               /\ VersionFits(memRec'[i][1], i, sc, own, memClock)
    BY <1>3, <1>9, <2>1 DEF RecordsFit
  <2> QED BY <1>9, <2>1 DEF RecordsFit
<1>11. IndexFits(memIdx', sc, memNew)
  BY <1>3, <1>5
<1>12. \A i \in MemIds : memRec[i] # <<>> => memRec'[i] # <<>> \/ i \in memMarked'
  BY <1>5, <1>6, <1>9
<1>13. Answerable(k, sc, memRec', memIdx', memMarked')
  <2>1. k.op = "upsert" => Safe(k.told, sc, memRec', memIdx', memMarked')
    <3> SUFFICES ASSUME t.op = "upsert" PROVE Safe(t.told, sc, memRec', memIdx', memMarked')
      BY <1>8
    <3>1. Safe(t.told, sc, memRec, memIdx, memMarked) /\ t.told \in MemIds
      BY <1>3, <1>5, <1>7 DEF Answerable
    <3> QED BY <1>5, <1>12, <3>1 DEF Safe
  <2> QED BY <1>8, <2>1 DEF Answerable
<1>14. memBack' \in BOOLEAN /\ (memBack => memBack') /\ memCrashes' = memCrashes
  BY <1>1, <1>5 DEF MemSound, Facts
<1>15. memTask'[r] = k /\ \A q \in Requests : q # r => memTask'[q] = memTask[q]
  BY <1>1, <1>5, OneRequest DEF MemSound
<1>16. ASSUME Placed(memTask, memRec, memIdx, sc)
       PROVE  Placed(memTask', memRec', memIdx', sc)
  <2> SUFFICES ASSUME NEW i \in MemIds, memRec'[i] # <<>>
               PROVE  i \in memIdx[sc[i]] \/ \E q \in Requests : Holds(memTask'[q], i)
    BY <1>5 DEF Placed
  <2>1. i # t.id /\ memRec[i] # <<>>
    BY <1>9
  <2>2. \A q \in Requests : Holds(memTask[q], i) => Holds(memTask'[q], i)
    BY <1>2, <1>15, <2>1 DEF Holds
  <2> QED BY <1>16, <2>1, <2>2 DEF Placed
<1>17. ASSUME NEW s \in ScopeSet
       PROVE  /\ Alive(memTask', memRec', memIdx', s) \subseteq Alive(memTask, memRec, memIdx, s)
              /\ ~ToCount(memTask[r], s, Alive(memTask, memRec, memIdx, s))
  <2>1. ASSUME NEW i \in Alive(memTask', memRec', memIdx', s)
        PROVE  i \in Alive(memTask, memRec, memIdx, s)
    <3>1. i \in memIdx[s] /\ memRec'[i] # <<>> /\ \A q \in Requests : ~Dying(memTask'[q], i)
      BY <1>5 DEF Alive
    <3>2. i \in MemIds
      BY <1>3, <3>1 DEF IndexFits
    <3>3. i # t.id /\ memRec[i] # <<>>
      BY <1>9, <3>1, <3>2
    <3>4. \A q \in Requests : ~Dying(memTask[q], i)
      BY <1>2, <1>8, <1>15, <3>1, <3>2, <3>3
    <3> QED BY <3>1, <3>3, <3>4 DEF Alive
  <2>2. ~ToCount(memTask[r], s, Alive(memTask, memRec, memIdx, s))
    BY <1>2, <1>5 DEF ToCount
  <2> QED BY <2>1, <2>2
<1>18. Capped(sc)'
  BY <1>1, <1>5, <1>14, <1>16, <1>17, CappedOn
<1>19. UNCHANGED <<memNew, memClock, memCrashes, memTold, memGone>> /\ memMarked \subseteq memMarked'
       /\ (\A s \in ScopeSet : \A i \in memIdx[s] : i \in memIdx'[s])
  BY <1>5
<1> QED BY <1>1, <1>5, <1>8, <1>10, <1>11, <1>12, <1>13, <1>14, <1>18, <1>19, StoreMoves

LEMMA CountHitInv == ASSUME MemInv, NEW r \in Requests, CountHit(r) PROVE MemInv'
<1>1. PICK sc, own : MemSound(sc, own)
  BY DEF MemInv
<1>2. PICK t : t = memTask[r]
  OBVIOUS
<1>3. /\ Fits(t, sc, own, memNew, memClock) /\ Shape(t) /\ t \in MemTasks
      /\ RecordsFit(memRec, sc, own, memNew, memClock) /\ IndexFits(memIdx, sc, memNew)
  BY <1>1, <1>2, RequestFacts
<1>4. PICK k : k = Skip([t EXCEPT !.rec = <<>>])
  OBVIOUS
<1>5. /\ t.pc = "hit" /\ memTask' = [memTask EXCEPT ![r] = k]
      /\ memRec' = [memRec EXCEPT ![t.id] = t.rec]
      /\ UNCHANGED <<memIdx, memClock, memNew, memTold, memGone, memMarked, memCrashes>>
  BY <1>2, <1>4 DEF CountHit, MemAt, MemTo, memSaid
<1>6. memBack' = (memBack \/ memRec[t.id] = <<>>)
  BY <1>2 DEF CountHit
<1>7. /\ t.id \in MemIds /\ t.id <= memNew /\ t.rec \in Seq(Versions) /\ Len(t.rec) = 1
      /\ VersionFits(t.rec[1], t.id, sc, own, memClock)
  BY <1>1, <1>2, <1>5, WriterFacts
<1>8. t.op # "upsert"
  BY <1>3, <1>5 DEF Shape
<1>9. Fits(k, sc, own, memNew, memClock) /\ k.pc \in {"get", "done"} /\ k.op = t.op
  BY <1>3, <1>4, <1>5, SkipFits
<1>10. memRec' \in [MemIds -> Seq(Versions)] /\ memRec'[t.id] = t.rec /\ t.rec # <<>>
       /\ \A i \in MemIds : i # t.id => memRec'[i] = memRec[i]
  BY <1>3, <1>5, <1>7 DEF RecordsFit
<1>11. RecordsFit(memRec', sc, own, memNew, memClock)
  <2>1. ASSUME NEW i \in MemIds, memRec'[i] # <<>>
        PROVE  /\ i <= memNew /\ Len(memRec'[i]) = 1
               /\ VersionFits(memRec'[i][1], i, sc, own, memClock)
    BY <1>3, <1>7, <1>10, <2>1 DEF RecordsFit
  <2> QED BY <1>10, <2>1 DEF RecordsFit
<1>12. IndexFits(memIdx', sc, memNew)
  BY <1>3, <1>5
<1>13. Answerable(k, sc, memRec', memIdx', memMarked')
  BY <1>8, <1>9 DEF Answerable
<1>14. \A i \in MemIds : memRec[i] # <<>> => memRec'[i] # <<>>
  BY <1>10
<1>15. memBack' \in BOOLEAN /\ (memBack => memBack') /\ memCrashes' = memCrashes
  BY <1>1, <1>5, <1>6 DEF MemSound, Facts
<1>16. memTask'[r] = k /\ \A q \in Requests : q # r => memTask'[q] = memTask[q]
  BY <1>1, <1>5, OneRequest DEF MemSound
<1>17. ASSUME ~memBack' PROVE \A i \in MemIds : memRec'[i] # <<>> => memRec[i] # <<>>
  BY <1>6, <1>10, <1>17
<1>18. ASSUME ~memBack', Placed(memTask, memRec, memIdx, sc)
       PROVE  Placed(memTask', memRec', memIdx', sc)
  <2>1. \A q \in Requests, i \in MemIds : Holds(memTask[q], i) => Holds(memTask'[q], i)
    BY <1>2, <1>5, <1>16 DEF Holds
  <2> QED BY <1>5, <1>17, <1>18, <2>1 DEF Placed
<1>19. ASSUME ~memBack', NEW s \in ScopeSet
       PROVE  /\ Alive(memTask', memRec', memIdx', s) \subseteq Alive(memTask, memRec, memIdx, s)
              /\ ~ToCount(memTask[r], s, Alive(memTask, memRec, memIdx, s))
  <2>1. memIdx[s] \subseteq MemIds /\ memIdx' = memIdx
    BY <1>3, <1>5 DEF IndexFits
  <2>2. \A i : ~Dying(t, i)
    BY <1>5, <1>8 DEF Dying
  <2>3. \A i : \A q \in Requests : Dying(memTask[q], i) => Dying(memTask'[q], i)
    BY <1>2, <1>16, <2>2
  <2>4. Alive(memTask', memRec', memIdx', s) \subseteq Alive(memTask, memRec, memIdx, s)
    BY <1>17, <1>19, <2>1, <2>3 DEF Alive
  <2>5. ~ToCount(memTask[r], s, Alive(memTask, memRec, memIdx, s))
    BY <1>2, <1>5 DEF ToCount
  <2> QED BY <2>4, <2>5
<1>20. Capped(sc)'
  BY <1>1, <1>5, <1>15, <1>18, <1>19, CappedOn
<1>21. UNCHANGED <<memNew, memClock, memCrashes, memTold, memGone>> /\ memMarked \subseteq memMarked'
       /\ \A s \in ScopeSet : \A i \in memIdx[s] : i \in memIdx'[s]
  BY <1>5
<1> QED BY <1>1, <1>5, <1>9, <1>11, <1>12, <1>13, <1>14, <1>15, <1>20, <1>21, StoreMoves

-----------------------------------------------------------------------------
(* Every memory that was reported as written, and that nobody removes, is      *)
(* found by the scope it was written to, whatever overlaps and wherever        *)
(* agentd is killed; and once nothing is under way a scope lists no more than  *)
(* its cap, unless a crash cut a write short or a removed record was brought   *)
(* back (upsert, save, list_by_scope, enforce_capacity, delete).               *)
THEOREM MemoriesCorrect == MemSpec => []MemoriesKept
<1>1. MemInit => MemInv
  BY MemInitInv
<1>2. MemInv /\ [MemNext]_memVars => MemInv'
  <2> SUFFICES ASSUME MemInv, [MemNext]_memVars PROVE MemInv'
    OBVIOUS
  <2>1. CASE UNCHANGED memVars
    BY <2>1, MemStill DEF memVars
  <2>2. ASSUME NEW r \in Requests, NEW c \in Contents, MemorySearch(r, c) PROVE MemInv'
    BY <2>2, MemorySearchInv
  <2>3. ASSUME NEW r \in Requests, NEW c \in Contents, NEW s \in WriteScopes,
               MemoryWrite(r, s, c)
        PROVE  MemInv'
    BY <2>3, MemoryWriteInv
  <2>4. ASSUME NEW r \in Requests, NEW c \in Contents, NEW i \in 1 .. memNew,
               PatchMemory(r, i, c)
        PROVE  MemInv'
    BY <2>4, PatchMemoryInv
  <2>5. ASSUME NEW r \in Requests, NEW i \in 1 .. memNew,
               MemoryDelete(r, i) \/ DeleteMemoryEntry(r, i)
        PROVE  MemInv'
    BY <2>5, MemoryDeleteInv
  <2>6. ASSUME NEW r \in Requests,
               LoadMemories(r) \/ ListIds(r) \/ UpsertRecs(r) \/ SavePut(r) \/ SaveIndex(r)
        PROVE  MemInv'
    BY <2>6, LoadMemoriesInv, ListIdsInv, UpsertRecsInv, SavePutInv, SaveIndexInv
  <2>7. ASSUME NEW r \in Requests,
               EnforceCapacity(r) \/ MemGet(r) \/ PatchGet(r) \/ Unindex(r) \/ Erase(r)
        PROVE  MemInv'
    BY <2>7, EnforceCapacityInv, MemGetInv, PatchGetInv, UnindexInv, EraseInv
  <2>8. ASSUME NEW r \in Requests, SearchRecs(r) \/ CountHit(r) \/ MemDone(r) \/ ListAll(r)
        PROVE  MemInv'
    BY <2>8, SearchRecsInv, CountHitInv, MemDoneInv, ListAllInv
  <2>9. CASE OnMemoriesLoaded
    BY <2>9, MemStill DEF OnMemoriesLoaded, memStore, memSaid
  <2>10. CASE MemCrash
    BY <2>10, MemCrashInv
  <2> QED BY <2>1, <2>2, <2>3, <2>4, <2>5, <2>6, <2>7, <2>8, <2>9, <2>10 DEF MemNext
<1>3. MemInv => MemoriesKept
  BY MemInvGoal
<1> QED BY <1>1, <1>2, <1>3, PTL DEF MemSpec

=============================================================================
