---------------------------- MODULE SemanticPatch ----------------------------
(***************************************************************************)
(* How a reviewed patch of catalog semantics reaches a tenant's checkout:  *)
(* apply_semantic_patch and promote_semantic_patch_review of               *)
(* src/src/metis_model1/video_semantic_patch_apply.py.                     *)
(*                                                                         *)
(* The first writes the drafts of a wave into several source files of a    *)
(* clean checkout, the second makes the drafts reviewed.  Both plan on the *)
(* bytes they read, replace the files one by one with a compare and swap,  *)
(* and undo what they have written when anything fails.  Somebody may work *)
(* in the same checkout, and the process may be killed.                    *)
(*                                                                         *)
(* The bytes of a file are one of the three images of the wave or an edit  *)
(* of somebody else; a digest stands for its bytes.  Modes follow the      *)
(* bytes, paths stay regular files: their checks are among the failures.   *)
(***************************************************************************)
EXTENDS Naturals, Sequences

CONSTANTS NFiles,         \* the files of a wave, numbered as the plan sorts them
          Edits,          \* bound: the edits others save, each with bytes of its own
          MaxPatchFaults  \* bound: failing writes and kills

Images == {"base", "draft", "reviewed"}

ASSUME WaveAssumption ==
    NFiles \in Nat \ {0} /\ MaxPatchFaults \in Nat /\ Edits \cap Images = {}

Files == 1 .. NFiles

VARIABLES
    disk,         \* the bytes of the files in the checkout
    saved,        \* the edits others have saved
    moved,        \* HEAD is no longer the commit the wave is bound to
    untracked,    \* there is an untracked file in the checkout
    receipt,      \* an apply has returned its receipt
    stage,        \* where the operation is, "idle" without one
    op,           \* "apply" or "promote"
    active,       \* active_plan: the file in hand, 0 before the first
    written,      \* written_plans: how many files the loop has recorded
    undo,         \* what the rollback has still to put back: a file and its digest
    outcome,      \* how the last operation ended
    patch_faults  \* faults so far

wave == <<receipt, op>>
others == <<saved, moved>>
patch_vars ==
    <<disk, saved, moved, untracked, receipt, stage, op, active, written, undo, outcome,
      patch_faults>>

-----------------------------------------------------------------------------
Pre(o) == IF o = "apply" THEN "base" ELSE "draft"
Post(o) == IF o = "apply" THEN "draft" ELSE "reviewed"

\* git status sees a file whose bytes are not those of the commit.
Dirty == {f \in Files : disk[f] # "base"}

\* An apply wants a clean checkout, a promotion the files of the wave, and nothing
\* else, dirty.
ScopeFits(o) == ~untracked /\ Dirty = IF o = "apply" THEN {} ELSE Files

\* The bytes are those the plan was, or will be, rendered from.
Planned(o) == \A f \in Files : disk[f] = Pre(o)

PatchFault == patch_faults < MaxPatchFaults /\ patch_faults' = patch_faults + 1

End(result) == stage' = "idle" /\ outcome' = result /\ undo' = <<>>

PatchInit ==
    /\ disk = [f \in Files |-> "base"] /\ saved = {} /\ moved = FALSE /\ untracked = FALSE
    /\ receipt = FALSE /\ stage = "idle" /\ op = "apply" /\ active = 0 /\ written = 0
    /\ undo = <<>> /\ outcome = "none" /\ patch_faults = 0

-----------------------------------------------------------------------------
(* Until the first write                                                   *)

\* The checkout, the bytes and, for a promotion, the receipt of the apply give a
\* plan; whatever else they are, the operation is refused and changes nothing.
Plan(o) ==
    /\ stage = "idle"
    /\ op' = o /\ active' = 0 /\ written' = 0
    /\ IF ~moved /\ ScopeFits(o) /\ Planned(o) /\ (o = "promote" => receipt)
       THEN stage' = "planned" /\ outcome' = "none"
       ELSE stage' = "idle" /\ outcome' = "refused"
    /\ UNCHANGED <<disk, others, untracked, receipt, undo, patch_faults>>

\* The planning window is closed.  Only an apply looks at the commit again.
Recheck ==
    /\ stage = "planned"
    /\ IF (op = "apply" => ~moved) /\ ScopeFits(op) /\ Planned(op)
       THEN stage' = "writing" /\ active' = 1 /\ UNCHANGED <<outcome, undo>>
       ELSE End("refused") /\ UNCHANGED active
    /\ UNCHANGED <<disk, others, untracked, wave, written, patch_faults>>

-----------------------------------------------------------------------------
(* The files one by one                                                    *)

\* atomic_replace_if_current up to its last look at the target: the new bytes are
\* in a temporary file beside it.  APPLY_PREIMAGE_RACE if the bytes are others.
CompareForward ==
    /\ stage = "writing"
    /\ stage' = IF disk[active] = Pre(op) THEN "replacing" ELSE "undoing"
    /\ UNCHANGED <<disk, others, untracked, wave, active, written, undo, outcome, patch_faults>>

\* os.replace
Replace ==
    /\ stage = "replacing"
    /\ disk' = [disk EXCEPT ![active] = Post(op)]
    /\ stage' = "replaced"
    /\ UNCHANGED <<others, untracked, wave, active, written, undo, outcome, patch_faults>>

\* ATOMIC_WRITE_FAILED before os.replace or, from the chmod and the fsync of the
\* directory, after it; or a check after the write fails by itself.
FailWrite ==
    /\ stage \in {"writing", "replacing", "replaced", "recorded", "finishing"}
    /\ PatchFault /\ stage' = "undoing"
    /\ UNCHANGED <<disk, others, untracked, wave, active, written, undo, outcome>>

RecordWritten ==
    /\ stage = "replaced"
    /\ written' = written + 1 /\ stage' = "recorded"
    /\ UNCHANGED <<disk, others, untracked, wave, active, undo, outcome, patch_faults>>

\* The bytes are read back; POST_APPLY_CONTENT_DRIFT.
Verify ==
    /\ stage = "recorded"
    /\ IF disk[active] # Post(op) THEN stage' = "undoing" /\ UNCHANGED active
       ELSE IF active < NFiles THEN stage' = "writing" /\ active' = active + 1
       ELSE stage' = "finishing" /\ UNCHANGED active
    /\ UNCHANGED <<disk, others, untracked, wave, written, undo, outcome, patch_faults>>

\* The commit and the dirty files once more, and the receipt; POST_APPLY_COMMIT_DRIFT
\* and POST_APPLY_WORKTREE_SCOPE_DRIFT.
Finish ==
    /\ stage = "finishing"
    /\ IF ~moved /\ ScopeFits("promote")
       THEN End("done") /\ receipt' = (receipt \/ op = "apply")
       ELSE stage' = "undoing" /\ UNCHANGED <<receipt, undo, outcome>>
    /\ UNCHANGED <<disk, others, untracked, op, active, written, patch_faults>>

-----------------------------------------------------------------------------
(* The rollback                                                            *)

Recorded == [i \in 1 .. written |-> [file |-> written + 1 - i, expected |-> Post(op)]]

\* Faulty variant: without a recorded file there is nothing to undo.
StartUndoOfRecorded ==
    /\ stage = "undoing"
    /\ IF written = 0 THEN End("failed")
       ELSE /\ stage' = "restoring" /\ UNCHANGED outcome
            /\ undo' = (IF active > written /\ disk[active] # Pre(op)
                        THEN <<[file |-> active, expected |-> disk[active]]>> ELSE <<>>) \o Recorded
    /\ UNCHANGED <<disk, others, untracked, wave, active, written, patch_faults>>

\* Faulty variant: the loop has recorded every file it has written.
StartUndoWithoutActive ==
    /\ stage = "undoing"
    /\ stage' = "restoring" /\ undo' = Recorded
    /\ UNCHANGED <<disk, others, untracked, wave, active, written, outcome, patch_faults>>

\* Every recorded file, the last one first; and the file in hand, if its bytes are
\* not the planned ones any more, with the bytes it has.
StartUndo ==
    /\ stage = "undoing"
    /\ stage' = "restoring"
    /\ undo' = (IF active > written /\ disk[active] # Pre(op)
                THEN <<[file |-> active, expected |-> disk[active]]>> ELSE <<>>) \o Recorded
    /\ UNCHANGED <<disk, others, untracked, wave, active, written, outcome, patch_faults>>

\* The same compare and swap in the other direction; APPLY_ROLLBACK_FAILED.
CompareBack ==
    /\ stage = "restoring" /\ undo # <<>>
    /\ IF disk[Head(undo).file] = Head(undo).expected
       THEN stage' = "putting" /\ UNCHANGED <<outcome, undo>>
       ELSE End("rollback failed")
    /\ UNCHANGED <<disk, others, untracked, wave, active, written, patch_faults>>

\* Faulty variant: a promotion is rolled back to the commit's bytes.
PutCommitted ==
    /\ stage = "putting"
    /\ disk' = [disk EXCEPT ![Head(undo).file] = "base"]
    /\ undo' = Tail(undo) /\ stage' = "restoring"
    /\ UNCHANGED <<others, untracked, wave, active, written, outcome, patch_faults>>

PutBack ==
    /\ stage = "putting"
    /\ disk' = [disk EXCEPT ![Head(undo).file] = Pre(op)]
    /\ undo' = Tail(undo) /\ stage' = "restoring"
    /\ UNCHANGED <<others, untracked, wave, active, written, outcome, patch_faults>>

FailRestore ==
    /\ stage \in {"restoring", "putting"}
    /\ PatchFault /\ End("rollback failed")
    /\ UNCHANGED <<disk, others, untracked, wave, active, written>>

\* _verify_rollback_state: the files of the wave and the commit, but not what else
\* is in the checkout; only then the first error is raised again.
ProveRestored ==
    /\ stage = "restoring" /\ undo = <<>>
    /\ End(IF Planned(op) /\ ~moved THEN "failed" ELSE "rollback failed")
    /\ UNCHANGED <<disk, others, untracked, wave, active, written, patch_faults>>

-----------------------------------------------------------------------------
(* Kills, and others at work in the checkout                               *)

\* The temporary file of the replacement stays behind, if it was there already.
Kill ==
    /\ stage # "idle" /\ PatchFault
    /\ End("killed")
    /\ untracked' \in (IF stage \in {"replacing", "putting"} THEN {} ELSE {untracked})
                       \union (IF stage \in {"writing", "replacing", "restoring", "putting"} THEN {TRUE} ELSE {})
    /\ UNCHANGED <<disk, others, wave, active, written>>

SaveEdit(f, e) ==
    /\ e \in Edits \ saved
    /\ saved' = saved \union {e} /\ disk' = [disk EXCEPT ![f] = e]
    /\ UNCHANGED <<moved, untracked, wave, stage, active, written, undo, outcome, patch_faults>>

AddFile ==
    /\ ~untracked /\ untracked' = TRUE
    /\ UNCHANGED <<disk, others, wave, stage, active, written, undo, outcome, patch_faults>>

\* A commit of something else.
MoveHead ==
    /\ ~moved /\ moved' = TRUE
    /\ UNCHANGED <<disk, saved, untracked, wave, stage, active, written, undo, outcome, patch_faults>>

\* The operator throws the wave away, edits and all.
Reset ==
    /\ stage = "idle"
    /\ disk' = [f \in Files |-> "base"] /\ untracked' = FALSE /\ outcome' = "none"
    /\ UNCHANGED <<others, wave, stage, active, written, undo, patch_faults>>

Others == (\E f \in Files, e \in Edits : SaveEdit(f, e)) \/ AddFile \/ MoveHead \/ Reset

PatchNext ==
    \/ \E o \in {"apply", "promote"} : Plan(o)
    \/ Recheck \/ CompareForward \/ Replace \/ FailWrite \/ RecordWritten \/ Verify \/ Finish
    \/ StartUndo \/ CompareBack \/ PutBack \/ FailRestore \/ ProveRestored
    \/ Kill \/ Others

PatchSpec == PatchInit /\ [][PatchNext]_patch_vars

-----------------------------------------------------------------------------
(* Properties                                                              *)

Bytes == Images \union Edits
Undos == [file : Files, expected : Bytes]
Forward == {"writing", "replacing", "replaced", "recorded", "finishing"}
Points == {"idle", "planned", "undoing", "restoring", "putting"} \union Forward

TypeOK ==
    /\ disk \in [Files -> Bytes] /\ saved \subseteq Edits
    /\ moved \in BOOLEAN /\ untracked \in BOOLEAN /\ receipt \in BOOLEAN
    /\ stage \in Points /\ op \in {"apply", "promote"}
    /\ active \in 0 .. NFiles /\ written \in 0 .. active
    /\ undo \in Seq(Undos)
    /\ outcome \in {"none", "refused", "done", "failed", "rollback failed", "killed"}
    /\ patch_faults \in 0 .. MaxPatchFaults

\* The caller may believe the answer.  A receipt means that no file of the wave
\* still has its old bytes, and the error of a failed operation, raised again after
\* its rollback, that none has the new ones: also when the failing write had
\* published its file before it failed, and whatever others do meanwhile.
VerdictIsTrue ==
    /\ TypeOK
    /\ stage = "idle" /\ outcome = "done" => \A f \in Files : disk[f] # Pre(op)
    /\ stage = "idle" /\ outcome = "failed" => \A f \in Files : disk[f] # Post(op)

\* The rollback finds everything it has to undo, also the file whose failing write
\* had published it before the loop recorded it, or one whose last check failed:
\* with nobody else's edit or commit in the checkout, it is given up only when a
\* step of the rollback itself fails.
GivenUpOnlyByFault ==
    (stage # "idle" /\ stage' = "idle" /\ outcome' = "rollback failed" /\ saved = {} /\ ~moved)
        => patch_faults' > patch_faults

UndisturbedRollbackSucceeds == [][GivenUpOnlyByFault]_patch_vars

\* A wave is reviewed as a whole: through kills, failures and rollbacks of both
\* operations, no file is reviewed while another still lacks its draft.
WavesDoNotMix == ~ \E f, g \in Files : disk[f] = "base" /\ disk[g] = "reviewed"

\* What docs/24 says of the rollback of sources: at a concurrent editorial change or
\* an unexpected hash it stops without overwriting.  No run checks it, as the code
\* does not do it: an edit that made the compare and swap of a file fail is read
\* again, expected and overwritten with the planned bytes.
RollbackSparesEdits ==
    stage \in {"restoring", "putting"} /\ undo # <<>> => Head(undo).expected \notin Edits
=============================================================================
