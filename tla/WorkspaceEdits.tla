--------------------------- MODULE WorkspaceEdits ---------------------------
(***************************************************************************)
(* Everything that writes the workspace on the agent's behalf: the edit      *)
(* tools (agent-core/src/engine/edits.rs), code-edit proposals and their      *)
(* registry (code_edit.rs, handlers/proposals.rs) and checkpoints             *)
(* (checkpoint.rs, handlers/checkpoints.rs).  None of them locks the files:   *)
(* each reads and writes them one by one while the others do the same, any   *)
(* single file operation may fail, and what was written stays written.       *)
(*                                                                         *)
(* A file's content is a version number, 0 when there is no file and Empty   *)
(* when there is nothing in it.                                             *)
(***************************************************************************)
EXTENDS Integers, Sequences, FiniteSets

CONSTANTS
    Paths, Tasks,
    MaxFiles,       \* bound: operations of a patch, changes of a proposal
    MaxVersion, MaxProposals, MaxCheckpoints, MaxJobs

NoPath == 0             \* the path of a change that names no file
Empty == MaxVersion + 1

ASSUME EditsAssumption ==
    /\ Paths # {} /\ IsFiniteSet(Paths) /\ NoPath \notin Paths /\ Tasks # {}
    /\ MaxFiles \in Nat /\ MaxVersion \in Nat \ {0}
    /\ MaxProposals \in Nat /\ MaxCheckpoints \in Nat /\ MaxJobs \in Nat

VARIABLES
    files,      \* path -> content
    version,    \* the newest content made so far
    proposals,  \* the registry, in creation order
    snaps,      \* the checkpoints, each for some of the paths: kept is the content
                \* stored, was (a history) what the file held
    editTask,       \* tool calls and requests under way; left is a history: the
                \* files a rewind could not remove
    editJobs,
    wrote,      \* history: proposal -> paths its changes were written to
    clean       \* history: task -> no other task wrote since it began

editVars == <<files, version, proposals, snaps, editTask, editJobs, wrote, clean>>

OpKinds == {"add", "delete", "update"}
Change(path, from, to) == [path |-> path, from |-> from, to |-> to]
NoTask == [pc |-> "idle", ops |-> <<>>, i |-> 1, seen |-> 0, changes |-> <<>>,
           prop |-> 0, snap |-> 0, left |-> {}]

PathsOf(changes) == {changes[k].path : k \in DOMAIN changes} \ {NoPath}

EditInit ==
    /\ files = [p \in Paths |-> IF p = CHOOSE q \in Paths : TRUE THEN 1 ELSE 0]
    /\ version = 1
    /\ proposals = <<>> /\ snaps = <<>>
    /\ editTask = [t \in Tasks |-> NoTask]
    /\ editJobs = 0 /\ wrote = <<>>
    /\ clean = [t \in Tasks |-> TRUE]

TaskAt(t, pc) == editTask[t].pc = pc
StartJob == editJobs < MaxJobs /\ editJobs' = editJobs + 1
Write(t, p, v) ==
    /\ files' = [files EXCEPT ![p] = v]
    /\ clean' = [u \in Tasks |-> IF u = t THEN clean[u] ELSE FALSE]

(***************************************************************************)
(* str_replace_edit is one update; apply_patch is a list of operations, done  *)
(* one at a time.  An operation looks at its file in one step and writes it   *)
(* in a later one.  A missing or existing file, a conflict or an I/O error    *)
(* ends the tool with an error: the operations before it stay done and are    *)
(* not recorded.                                                            *)
(***************************************************************************)
StartEdit(t) ==
    /\ TaskAt(t, "idle") /\ StartJob
    /\ \E n \in 1..MaxFiles : \E ops \in [1..n -> [op : OpKinds, path : Paths]] :
         editTask' = [editTask EXCEPT ![t] = [NoTask EXCEPT !.pc = "look", !.ops = ops]]
    /\ UNCHANGED <<files, version, proposals, snaps, wrote, clean>>

CurrentOp(t) == editTask[t].ops[editTask[t].i]

LookAt(t) ==
    LET here == files[CurrentOp(t).path]
    IN
    /\ TaskAt(t, "look")
    /\ editTask' = [editTask EXCEPT ![t].seen = here,
                   ![t].pc = IF (CurrentOp(t).op = "add") = (here = 0) THEN "write" ELSE "failed"]
    /\ UNCHANGED <<files, version, proposals, snaps, editJobs, wrote, clean>>

WriteOp(t) ==
    LET o == CurrentOp(t)
        new == IF o.op = "delete" THEN 0 ELSE version + 1
    IN
    /\ TaskAt(t, "write")
    /\ version < MaxVersion
    /\ version' = IF o.op = "delete" THEN version ELSE version + 1
    /\ Write(t, o.path, new)
    /\ editTask' = [editTask EXCEPT ![t].changes = Append(@, Change(o.path, editTask[t].seen, new)),
                   ![t].i = @ + 1,
                   ![t].pc = IF editTask[t].i = Len(editTask[t].ops) THEN "record" ELSE "look"]
    /\ UNCHANGED <<proposals, snaps, editJobs, wrote>>

\* A hunk or old_string that does not match exactly once, or an I/O error.
FailOp(t) ==
    /\ TaskAt(t, "write")
    /\ editTask' = [editTask EXCEPT ![t].pc = "failed"]
    /\ UNCHANGED <<files, version, proposals, snaps, editJobs, wrote, clean>>

Proposal(status, changes, applied) ==
    [status |-> status, changes |-> changes, applied |-> applied, error |-> FALSE]

\* record_applied_edit: record saves the edit as a pending proposal.
RecordEdit(t) ==
    /\ TaskAt(t, "record")
    /\ Len(proposals) < MaxProposals
    /\ proposals' = Append(proposals, Proposal("pending", editTask[t].changes, {}))
    /\ wrote' = Append(wrote, PathsOf(editTask[t].changes))
    /\ editTask' = [editTask EXCEPT ![t].pc = "mark", ![t].prop = Len(proposals) + 1]
    /\ UNCHANGED <<files, version, snaps, editJobs, clean>>

\* mark_applied: whatever has been done to the proposal in between.
Mark(t) ==
    /\ proposals' = [proposals EXCEPT ![editTask[t].prop].status = "applied",
                       ![editTask[t].prop].error = FALSE,
                       ![editTask[t].prop].applied = PathsOf(editTask[t].changes)]
    /\ editTask' = [editTask EXCEPT ![t] = NoTask]
    /\ UNCHANGED <<files, version, snaps, editJobs, wrote, clean>>

\* record_applied_edit: then mark_applied saves it as an applied one.
MarkEdit(t) == TaskAt(t, "mark") /\ Mark(t)

EndFailed(t) ==
    /\ TaskAt(t, "failed")
    /\ editTask' = [editTask EXCEPT ![t] = NoTask]
    /\ UNCHANGED <<files, version, proposals, snaps, editJobs, wrote, clean>>

(***************************************************************************)
(* After a successful plan run execute_plan may record a pending proposal:    *)
(* the heuristic repair of the active file, else the model's changes, else     *)
(* the heuristic again.  Changes that change nothing are dropped, and a        *)
(* proposal without changes is not made.  The original content is what the     *)
(* editor showed when the message was sent, not what is on disk now, and a      *)
(* path the model gave is not looked at: it may be blank.  `real' is what is    *)
(* left of the changes after the ones that change nothing.                     *)
(***************************************************************************)
Differs(c) == c.from # c.to

Propose ==
    /\ Len(proposals) < MaxProposals /\ StartJob
    /\ \E n \in 1..MaxFiles :
       \E real \in [1..n -> {c \in [path : Paths \cup {NoPath}, from : 1..MaxVersion,
                                    to : 1..MaxVersion] : Differs(c)}] :
         /\ proposals' = Append(proposals, Proposal("pending", real, {}))
         /\ wrote' = Append(wrote, {})
    /\ UNCHANGED <<files, version, snaps, editTask, clean>>

(***************************************************************************)
(* apply_proposal writes the changes of a pending proposal one by one, and    *)
(* passes over one that names no file.  What it writes is the proposed text,   *)
(* which is empty where an edit tool deleted the file.                        *)
(***************************************************************************)
Proposed(c) == IF c.to = 0 THEN Empty ELSE c.to

StartApply(t) ==
    /\ TaskAt(t, "idle") /\ StartJob
    /\ \E k \in DOMAIN proposals :
         /\ proposals[k].status = "pending"
         /\ editTask' = [editTask EXCEPT ![t] = [NoTask EXCEPT !.pc = "apply", !.prop = k,
                                           !.changes = proposals[k].changes]]
    /\ UNCHANGED <<files, version, proposals, snaps, wrote, clean>>

\* A plausible slip: a failed write does not end the request.
ApplyOneGoesOn(t) ==
    LET c == editTask[t].changes[editTask[t].i]
    IN
    /\ TaskAt(t, "apply") /\ editTask[t].i <= Len(editTask[t].changes)
    /\ editTask' = [editTask EXCEPT ![t].i = @ + 1]
    /\ \/ /\ c.path # NoPath
          /\ Write(t, c.path, Proposed(c))
          /\ wrote' = [wrote EXCEPT ![editTask[t].prop] = @ \cup {c.path}]
       \/ UNCHANGED <<files, clean, wrote>>
    /\ UNCHANGED <<version, snaps, editJobs, proposals>>

ApplyOne(t) ==
    LET c == editTask[t].changes[editTask[t].i]
    IN
    /\ TaskAt(t, "apply") /\ editTask[t].i <= Len(editTask[t].changes)
    /\ \/ /\ c.path = NoPath
          /\ editTask' = [editTask EXCEPT ![t].i = @ + 1]
          /\ UNCHANGED <<files, clean, wrote, proposals>>
       \/ /\ c.path # NoPath
          /\ Write(t, c.path, Proposed(c))
          /\ editTask' = [editTask EXCEPT ![t].i = @ + 1]
          /\ wrote' = [wrote EXCEPT ![editTask[t].prop] = @ \cup {c.path}]
          /\ UNCHANGED proposals
       \/ /\ c.path # NoPath
          /\ proposals' = [proposals EXCEPT ![editTask[t].prop].error = TRUE]  \* mark_apply_failed
          /\ editTask' = [editTask EXCEPT ![t] = NoTask]
          /\ UNCHANGED <<files, clean, wrote>>
    /\ UNCHANGED <<version, snaps, editJobs>>

MarkApplied(t) ==
    /\ TaskAt(t, "apply") /\ editTask[t].i > Len(editTask[t].changes)
    /\ Mark(t)

\* discard_proposal does not look at the status.
Discard(k) ==
    /\ StartJob
    /\ proposals' = [proposals EXCEPT ![k].status = "discarded"]
    /\ UNCHANGED <<files, version, snaps, editTask, wrote, clean>>

(***************************************************************************)
(* Checkpoints.  create reads the listed files, and takes one that cannot be   *)
(* read, for an I/O error or because it is not UTF-8, for one that did not      *)
(* exist; rewind writes back those that existed and removes the others, in      *)
(* order; a failed write ends it, a failed removal does not.  Only a rewind     *)
(* that gets through truncates the session's event stream and clears its        *)
(* history (module Conversation).                                              *)
(***************************************************************************)
Checkpoint(ps) ==
    /\ Len(snaps) < MaxCheckpoints /\ StartJob
    /\ \E unread \in SUBSET ps :
         snaps' = Append(snaps, [kept |-> [p \in ps |-> IF p \in unread THEN 0 ELSE files[p]],
                                 was |-> [p \in ps |-> files[p]]])
    /\ UNCHANGED <<files, version, proposals, editTask, wrote, clean>>

StartRewind(t) ==
    /\ TaskAt(t, "idle") /\ StartJob
    /\ \E k \in DOMAIN snaps :
       \E order \in [1..Cardinality(DOMAIN snaps[k].kept) -> DOMAIN snaps[k].kept] :
         /\ \A p \in DOMAIN snaps[k].kept : \E j \in DOMAIN order : order[j] = p
         /\ editTask' = [editTask EXCEPT ![t] = [NoTask EXCEPT !.pc = "rewind", !.snap = k,
                        !.ops = [j \in DOMAIN order |-> [op |-> "update", path |-> order[j]]]]]
    /\ clean' = [clean EXCEPT ![t] = TRUE]
    /\ UNCHANGED <<files, version, proposals, snaps, wrote>>

KeptFor(t) == snaps[editTask[t].snap].kept[CurrentOp(t).path]

RestoreFile(t) == Write(t, CurrentOp(t).path, KeptFor(t))

RewindOne(t) ==
    /\ TaskAt(t, "rewind") /\ editTask[t].i <= Len(editTask[t].ops)
    /\ \/ RestoreFile(t) /\ editTask' = [editTask EXCEPT ![t].i = @ + 1]
       \/ /\ KeptFor(t) = 0           \* remove_file fails, and nobody looks
          /\ editTask' = [editTask EXCEPT ![t].i = @ + 1, ![t].left = @ \cup {CurrentOp(t).path}]
          /\ UNCHANGED <<files, clean>>
       \/ /\ KeptFor(t) # 0           \* the write fails
          /\ editTask' = [editTask EXCEPT ![t] = NoTask]
          /\ UNCHANGED <<files, clean>>
    /\ UNCHANGED <<version, proposals, snaps, editJobs, wrote>>

EndRewind(t) ==
    /\ TaskAt(t, "rewind") /\ editTask[t].i > Len(editTask[t].ops)
    /\ editTask' = [editTask EXCEPT ![t] = NoTask]
    /\ UNCHANGED <<files, version, proposals, snaps, editJobs, wrote, clean>>

EditNext ==
    \/ \E t \in Tasks :
         \/ StartEdit(t) \/ LookAt(t) \/ WriteOp(t) \/ FailOp(t) \/ RecordEdit(t) \/ MarkEdit(t)
         \/ EndFailed(t)
         \/ StartApply(t) \/ ApplyOne(t) \/ MarkApplied(t)
         \/ StartRewind(t) \/ RewindOne(t) \/ EndRewind(t)
    \/ Propose
    \/ \E k \in DOMAIN proposals : Discard(k)
    \/ \E ps \in SUBSET Paths : Checkpoint(ps)

EditSpec == EditInit /\ [][EditNext]_editVars

-----------------------------------------------------------------------------
\* Every variable keeps its type.
EditTypeOK ==
    /\ files \in [Paths -> 0..Empty] /\ version \in 1..MaxVersion
    /\ \A k \in DOMAIN proposals :
         proposals[k].status \in {"pending", "applied", "discarded"}
    /\ Len(wrote) = Len(proposals)

\* A proposal is called applied only when every one of its changes that names a
\* file was written, whatever failed, was discarded or applied a second time beside
\* it (apply_proposal, record_applied_edit).
AppliedWasWritten ==
    \A k \in DOMAIN proposals :
        proposals[k].status = "applied" =>
            PathsOf(proposals[k].changes) \subseteq wrote[k]

Rewound(t) == TaskAt(t, "rewind") /\ editTask[t].i > Len(editTask[t].ops) /\ clean[t]

\* A rewind that got through without another writer leaves every file as it was
\* when the checkpoint was taken, but one the checkpoint took for missing: that one
\* is gone, or its removal failed (CheckpointService::rewind).
RewindRestores ==
    \A t \in Tasks : Rewound(t) =>
        LET s == snaps[editTask[t].snap] IN
        \A p \in DOMAIN s.kept :
            \/ files[p] = s.was[p]
            \/ s.kept[p] = 0 /\ (files[p] = 0 \/ p \in editTask[t].left)

\* checkpoint.rs: "Snapshots store file contents so a `rewind` can restore them."
\* So a rewind that nobody disturbs deletes no file that was there.
RewindKeeps ==
    \A t \in Tasks : Rewound(t) =>
        LET s == snaps[editTask[t].snap] IN
        \A p \in DOMAIN s.kept : s.was[p] # 0 => files[p] # 0

(* Edits as a whole: types, an applied proposal was written to the last    *)
(* file, and a rewind brings the files of the checkpoint back that it read  *)
(* (apply_proposal, rewind_checkpoint).                                    *)
EditsExact == EditTypeOK /\ AppliedWasWritten /\ RewindRestores
=============================================================================
