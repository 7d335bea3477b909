---------------------------- MODULE Rollback_proofs ----------------------------
(***************************************************************************)
(* Proofs about the two components that change what is not theirs step by  *)
(* step and undo it when a step fails: SemanticPatch, whose files are the  *)
(* checkout's, and InstallTransaction, whose objects are the host's.       *)
(*                                                                         *)
(* SemanticPatch: for any number of files, edits of others and faults, the *)
(* answers are true, a wave is reviewed as a whole, and a rollback that    *)
(* nobody disturbs misses no file.                                         *)
(*                                                                         *)
(* InstallTransaction: for any number of installations, recoveries, kills  *)
(* and failures, and anything on the host before, the journal stays        *)
(* readable, its last row is true of the host, what leaves the host was    *)
(* made by the installer, and no secret is destroyed.  The rows of the     *)
(* journal fix its shape (each row of the plan has one position and one    *)
(* predecessor), the journal accounts for every object of the host, and    *)
(* the process is where the last row says.                                 *)
(***************************************************************************)
EXTENDS SemanticPatch, InstallTransaction, SequenceTheorems, FiniteSetTheorems,
        WellFoundedInduction, TLAPS

-----------------------------------------------------------------------------
(* The patch of a wave                                                     *)

\* The image that the operation can neither find nor write.
Other(o) == IF o = "apply" THEN "reviewed" ELSE "base"

\* While an operation is on its way no file has that image, so that whatever
\* ends it leaves the checkout unmixed.
ApartInv == stage # "idle" => \A f \in Files : disk[f] # Other(op)

\* Where the loop over the files is, and that what it has recorded no longer
\* has the old bytes.
ProgressInv ==
    /\ stage \in {"writing", "replacing", "replaced"} => active = written + 1
    /\ stage = "replaced" => disk[active] # Pre(op)
    /\ stage = "recorded" => active = written
    /\ stage = "finishing" => written = NFiles
    /\ stage \in Forward => \A f \in 1 .. written : disk[f] # Pre(op)
    /\ stage = "planned" => written = 0
    /\ stage \in Forward \union {"undoing"} => active \in Files
    /\ stage = "putting" => undo # <<>>

\* The two halves of TypeOK, which different provers like.
Shapes ==
    /\ disk \in [Files -> Bytes] /\ saved \subseteq Edits
    /\ moved \in BOOLEAN /\ untracked \in BOOLEAN /\ receipt \in BOOLEAN
    /\ stage \in Points /\ op \in {"apply", "promote"}
    /\ undo \in Seq(Undos)
    /\ outcome \in {"none", "refused", "done", "failed", "rollback failed", "killed"}

Counts == active \in 0 .. NFiles /\ written \in 0 .. active /\ patch_faults \in 0 .. MaxPatchFaults

Believed ==
    /\ stage = "idle" /\ outcome = "done" => \A f \in Files : disk[f] # Pre(op)
    /\ stage = "idle" /\ outcome = "failed" => \A f \in Files : disk[f] # Post(op)

PatchInv == Shapes /\ Counts /\ ApartInv /\ WavesDoNotMix /\ ProgressInv /\ Believed

-----------------------------------------------------------------------------
LEMMA ImagesDiffer ==
  ASSUME op \in {"apply", "promote"}
  PROVE  /\ Pre(op) \in Images /\ Post(op) \in Images
         /\ Pre(op) # Post(op) /\ Pre(op) # Other(op) /\ Post(op) # Other(op)
BY DEF Pre, Post, Other, Images

\* A checkout without one of the outer images is not mixed.
LEMMA ApartIsUnmixed ==
  ASSUME op \in {"apply", "promote"}, \A f \in Files : disk[f] # Other(op)
  PROVE  WavesDoNotMix
BY DEF Other, WavesDoNotMix

LEMMA PatchInitInv == PatchInit => PatchInv
<1> SUFFICES ASSUME PatchInit PROVE PatchInv
  OBVIOUS
<1> USE DEF PatchInit
<1>1. Shapes
  <2>1. disk \in [Files -> Bytes]
    BY DEF Bytes, Images
  <2>2. undo \in Seq(Undos)
    BY EmptySeq
  <2>3. QED
    BY <2>1, <2>2 DEF Shapes, Points
<1>2. Counts
  BY WaveAssumption DEF Counts
<1>3. WavesDoNotMix
  BY DEF WavesDoNotMix
<1>4. ApartInv /\ ProgressInv /\ Believed
  BY DEF ApartInv, ProgressInv, Believed, Forward
<1>5. QED
  BY <1>1, <1>2, <1>3, <1>4 DEF PatchInv

LEMMA CompareForwardInv == ASSUME PatchInv, CompareForward PROVE PatchInv'
<1> USE DEF CompareForward, wave, others
<1>1. Shapes'
  BY EmptySeq DEF PatchInv, Shapes, Points, Forward
<1>2. Counts'
  BY WaveAssumption DEF PatchInv, Counts, ProgressInv, Files
<1>3. ApartInv' /\ WavesDoNotMix'
  BY DEF PatchInv, ApartInv, WavesDoNotMix
<1>4. ProgressInv'
  BY WaveAssumption DEF PatchInv, Counts, ProgressInv, Forward, Files
<1>5. Believed'
  BY DEF PatchInv, Believed
<1>6. QED
  BY <1>1, <1>2, <1>3, <1>4, <1>5 DEF PatchInv

LEMMA FailWriteInv == ASSUME PatchInv, FailWrite PROVE PatchInv'
<1> USE DEF FailWrite, PatchFault, wave, others
<1>1. Shapes'
  BY EmptySeq DEF PatchInv, Shapes, Points, Forward
<1>2. Counts'
  BY WaveAssumption DEF PatchInv, Counts, ProgressInv, Files
<1>3. ApartInv' /\ WavesDoNotMix'
  BY DEF PatchInv, ApartInv, WavesDoNotMix
<1>4. ProgressInv'
  BY WaveAssumption DEF PatchInv, Counts, ProgressInv, Forward, Files
<1>5. Believed'
  BY DEF PatchInv, Believed
<1>6. QED
  BY <1>1, <1>2, <1>3, <1>4, <1>5 DEF PatchInv

LEMMA RecordWrittenInv == ASSUME PatchInv, RecordWritten PROVE PatchInv'
<1> USE DEF RecordWritten, wave, others
<1>1. Shapes'
  BY EmptySeq DEF PatchInv, Shapes, Points, Forward
<1>2. Counts'
  BY WaveAssumption DEF PatchInv, Counts, ProgressInv, Files
<1>3. ApartInv' /\ WavesDoNotMix'
  BY DEF PatchInv, ApartInv, WavesDoNotMix
<1>4. ProgressInv'
  BY WaveAssumption DEF PatchInv, Counts, ProgressInv, Forward, Files
<1>5. Believed'
  BY DEF PatchInv, Believed
<1>6. QED
  BY <1>1, <1>2, <1>3, <1>4, <1>5 DEF PatchInv

LEMMA VerifyInv == ASSUME PatchInv, Verify PROVE PatchInv'
<1> USE DEF Verify, wave, others
<1>1. Shapes'
  BY EmptySeq DEF PatchInv, Shapes, Points, Forward
<1>2. Counts'
  BY WaveAssumption DEF PatchInv, Counts, ProgressInv, Files
<1>3. ApartInv' /\ WavesDoNotMix'
  BY DEF PatchInv, ApartInv, WavesDoNotMix
<1>4. ProgressInv'
  BY WaveAssumption DEF PatchInv, Counts, ProgressInv, Forward, Files
<1>5. Believed'
  BY DEF PatchInv, Believed
<1>6. QED
  BY <1>1, <1>2, <1>3, <1>4, <1>5 DEF PatchInv

LEMMA FailRestoreInv == ASSUME PatchInv, FailRestore PROVE PatchInv'
<1> USE DEF FailRestore, PatchFault, End, wave, others
<1>1. Shapes'
  BY EmptySeq DEF PatchInv, Shapes, Points, Forward
<1>2. Counts'
  <2>1. active' = active /\ written' = written /\ patch_faults < MaxPatchFaults /\ patch_faults' = patch_faults + 1
    OBVIOUS
  <2>2. Counts
    BY DEF PatchInv
  <2> HIDE DEF FailRestore, PatchFault, End, wave, others
  <2>3. QED
    BY <2>1, <2>2, WaveAssumption DEF Counts
<1>3. ApartInv' /\ WavesDoNotMix'
  BY DEF PatchInv, ApartInv, WavesDoNotMix
<1>4. ProgressInv'
  BY WaveAssumption DEF PatchInv, Counts, ProgressInv, Forward, Files
<1>5. Believed'
  BY DEF PatchInv, Believed
<1>6. QED
  BY <1>1, <1>2, <1>3, <1>4, <1>5 DEF PatchInv

LEMMA CompareBackInv == ASSUME PatchInv, CompareBack PROVE PatchInv'
<1> USE DEF CompareBack, End, wave, others
<1>1. Shapes'
  BY EmptySeq DEF PatchInv, Shapes, Points, Forward
<1>2. Counts'
  BY WaveAssumption DEF PatchInv, Counts, ProgressInv, Files
<1>3. ApartInv' /\ WavesDoNotMix'
  BY DEF PatchInv, ApartInv, WavesDoNotMix
<1>4. ProgressInv'
  BY WaveAssumption DEF PatchInv, Counts, ProgressInv, Forward, Files
<1>5. Believed'
  BY DEF PatchInv, Believed
<1>6. QED
  BY <1>1, <1>2, <1>3, <1>4, <1>5 DEF PatchInv

LEMMA RecheckInv == ASSUME PatchInv, Recheck PROVE PatchInv'
<1> USE DEF Recheck, End, wave, others
<1>1. Shapes'
  BY EmptySeq DEF PatchInv, Shapes, Points, Forward
<1>2. Counts'
  BY WaveAssumption DEF PatchInv, Counts, ProgressInv, Files
<1>3. ApartInv' /\ WavesDoNotMix'
  BY DEF PatchInv, ApartInv, WavesDoNotMix
<1>4. ProgressInv'
  BY WaveAssumption DEF PatchInv, Counts, ProgressInv, Forward, Files
<1>5. Believed'
  BY DEF PatchInv, Believed
<1>6. QED
  BY <1>1, <1>2, <1>3, <1>4, <1>5 DEF PatchInv

LEMMA FinishInv == ASSUME PatchInv, Finish PROVE PatchInv'
<1> USE DEF Finish, End, ScopeFits, wave, others
<1>1. Shapes'
  BY EmptySeq DEF PatchInv, Shapes, Points, Forward
<1>2. Counts'
  BY WaveAssumption DEF PatchInv, Counts, ProgressInv, Files
<1>3. ApartInv' /\ WavesDoNotMix'
  BY DEF PatchInv, ApartInv, WavesDoNotMix
<1>4. ProgressInv'
  BY WaveAssumption DEF PatchInv, Counts, ProgressInv, Forward, Files
<1>5. Believed'
  <2>1. Files = 1 .. written
    BY DEF PatchInv, ProgressInv, Files
  <2>2. \A f \in Files : disk[f] # Pre(op)
    BY <2>1 DEF PatchInv, ProgressInv, Forward
  <2>3. QED
    BY <2>2 DEF Believed
<1>6. QED
  BY <1>1, <1>2, <1>3, <1>4, <1>5 DEF PatchInv

LEMMA ProveRestoredInv == ASSUME PatchInv, ProveRestored PROVE PatchInv'
<1> USE DEF ProveRestored, End, Planned, wave, others
<1>1. Shapes'
  BY EmptySeq DEF PatchInv, Shapes, Points, Forward
<1>2. Counts'
  BY WaveAssumption DEF PatchInv, Counts, ProgressInv, Files
<1>3. ApartInv' /\ WavesDoNotMix'
  BY DEF PatchInv, ApartInv, WavesDoNotMix
<1>4. ProgressInv'
  BY WaveAssumption DEF PatchInv, Counts, ProgressInv, Forward, Files
<1>5. Believed'
  <2>1. op \in {"apply", "promote"} /\ op' = op /\ disk' = disk
    BY DEF PatchInv, Shapes
  <2>2. outcome' = "failed" => \A f \in Files : disk[f] # Post(op)
    BY <2>1, ImagesDiffer
  <2>3. QED
    BY <2>1, <2>2 DEF Believed
<1>6. QED
  BY <1>1, <1>2, <1>3, <1>4, <1>5 DEF PatchInv

LEMMA KillInv == ASSUME PatchInv, Kill PROVE PatchInv'
<1> USE DEF Kill, PatchFault, End, wave, others
<1>1. Shapes'
  BY EmptySeq DEF PatchInv, Shapes, Points, Forward
<1>2. Counts'
  BY WaveAssumption DEF PatchInv, Counts, ProgressInv, Files
<1>3. ApartInv' /\ WavesDoNotMix'
  BY DEF PatchInv, ApartInv, WavesDoNotMix
<1>4. ProgressInv'
  BY WaveAssumption DEF PatchInv, Counts, ProgressInv, Forward, Files
<1>5. Believed'
  BY DEF PatchInv, Believed
<1>6. QED
  BY <1>1, <1>2, <1>3, <1>4, <1>5 DEF PatchInv

LEMMA AddFileInv == ASSUME PatchInv, AddFile PROVE PatchInv'
<1> USE DEF AddFile, wave, others
<1>1. Shapes'
  BY EmptySeq DEF PatchInv, Shapes, Points, Forward
<1>2. Counts'
  BY WaveAssumption DEF PatchInv, Counts, ProgressInv, Files
<1>3. ApartInv' /\ WavesDoNotMix'
  BY DEF PatchInv, ApartInv, WavesDoNotMix
<1>4. ProgressInv'
  BY WaveAssumption DEF PatchInv, Counts, ProgressInv, Forward, Files
<1>5. Believed'
  BY DEF PatchInv, Believed
<1>6. QED
  BY <1>1, <1>2, <1>3, <1>4, <1>5 DEF PatchInv

LEMMA MoveHeadInv == ASSUME PatchInv, MoveHead PROVE PatchInv'
<1> USE DEF MoveHead, wave, others
<1>1. Shapes'
  BY EmptySeq DEF PatchInv, Shapes, Points, Forward
<1>2. Counts'
  BY WaveAssumption DEF PatchInv, Counts, ProgressInv, Files
<1>3. ApartInv' /\ WavesDoNotMix'
  BY DEF PatchInv, ApartInv, WavesDoNotMix
<1>4. ProgressInv'
  BY WaveAssumption DEF PatchInv, Counts, ProgressInv, Forward, Files
<1>5. Believed'
  BY DEF PatchInv, Believed
<1>6. QED
  BY <1>1, <1>2, <1>3, <1>4, <1>5 DEF PatchInv

LEMMA PlanInv == ASSUME PatchInv, NEW o \in {"apply", "promote"}, Plan(o) PROVE PatchInv'
<1> USE DEF Plan, others
<1>1. Shapes'
  BY DEF PatchInv, Shapes, Points, Forward
<1>2. Counts'
  BY WaveAssumption DEF PatchInv, Counts
<1>3. ApartInv'
  <2>1. stage' # "idle" => \A f \in Files : disk'[f] = Pre(op')
    BY DEF Planned, Pre
  <2>2. QED
    BY <2>1 DEF ApartInv, Pre, Other
<1>4. WavesDoNotMix'
  BY DEF PatchInv, WavesDoNotMix
<1>5. ProgressInv' /\ Believed'
  BY DEF ProgressInv, Believed, Forward
<1>6. QED
  BY <1>1, <1>2, <1>3, <1>4, <1>5 DEF PatchInv

\* One more file gets a byte image that is not the forbidden one.
LEMMA ReplaceInv == ASSUME PatchInv, Replace PROVE PatchInv'
<1> USE DEF Replace, wave, others
<1>1. /\ op \in {"apply", "promote"} /\ op' = op /\ active \in Files
      /\ disk \in [Files -> Bytes] /\ written' = written /\ active' = active
  BY DEF PatchInv, Shapes, ProgressInv, Forward
<1>2. \A f \in Files : disk'[f] = IF f = active THEN Post(op) ELSE disk[f]
  BY <1>1
<1>3. Shapes'
  <2>1. disk' \in [Files -> Bytes]
    BY <1>1, ImagesDiffer DEF Bytes
  <2>2. QED
    BY <2>1 DEF PatchInv, Shapes, Points, Forward
<1>4. Counts'
  BY DEF PatchInv, Counts
<1>5. ApartInv'
  BY <1>1, <1>2, ImagesDiffer DEF PatchInv, ApartInv
<1>6. WavesDoNotMix'
  <2>1. \A f \in Files : disk'[f] # Other(op)
    BY <1>1, <1>2, ImagesDiffer DEF PatchInv, ApartInv
  <2>2. QED
    BY <1>1, <2>1 DEF WavesDoNotMix, Other
<1>7. ProgressInv'
  <2>1. active = written + 1 /\ \A f \in 1 .. written : disk[f] # Pre(op)
    BY DEF PatchInv, ProgressInv, Forward
  <2>2. 1 .. written \subseteq Files
    BY <1>1, <2>1, WaveAssumption DEF PatchInv, Counts, Files
  <2>3. \A f \in 1 .. written : disk'[f] # Pre(op)
    BY <1>1, <1>2, <2>1, <2>2, ImagesDiffer
  <2>4. disk'[active] # Pre(op)
    BY <1>1, <1>2, ImagesDiffer
  <2>5. QED
    BY <1>1, <2>1, <2>3, <2>4 DEF ProgressInv, Forward, Pre
<1>8. Believed'
  BY DEF Believed
<1>9. QED
  BY <1>3, <1>4, <1>5, <1>6, <1>7, <1>8 DEF PatchInv

LEMMA StartUndoInv == ASSUME PatchInv, StartUndo PROVE PatchInv'
<1> USE DEF StartUndo, wave, others
<1>1. undo' \in Seq(Undos)
  <2>1. op \in {"apply", "promote"} /\ active \in Files /\ disk \in [Files -> Bytes]
    BY DEF PatchInv, Shapes, ProgressInv
  <2>2. Recorded \in Seq(Undos)
    <3>1. \A i \in 1 .. written : [file |-> written + 1 - i, expected |-> Post(op)] \in Undos
      <4>1. \A i \in 1 .. written : written + 1 - i \in Files
        BY WaveAssumption DEF PatchInv, Counts, Files
      <4>2. QED
        BY <2>1, <4>1, ImagesDiffer DEF Undos, Bytes
    <3>2. written \in Nat
      BY WaveAssumption DEF PatchInv, Counts
    <3>3. QED
      <4>1. Recorded \in [1 .. written -> Undos]
        BY <3>1 DEF Recorded
      <4>2. QED
        BY <3>2, <4>1
  <2>3. [file |-> active, expected |-> disk[active]] \in Undos
    BY <2>1 DEF Undos
  <2>4. <<[file |-> active, expected |-> disk[active]]>> \in Seq(Undos) /\ <<>> \in Seq(Undos)
    BY <2>3
  <2>5. QED
    BY <2>2, <2>4, ConcatProperties
<1>2. Shapes'
  BY <1>1 DEF PatchInv, Shapes, Points
<1>3. Counts'
  BY DEF PatchInv, Counts
<1>4. ApartInv' /\ WavesDoNotMix'
  BY DEF PatchInv, ApartInv, WavesDoNotMix
<1>5. ProgressInv' /\ Believed'
  BY DEF ProgressInv, Believed, Forward
<1>6. QED
  BY <1>2, <1>3, <1>4, <1>5 DEF PatchInv

LEMMA PutBackInv == ASSUME PatchInv, PutBack PROVE PatchInv'
<1> USE DEF PutBack, wave, others
<1>1. /\ op \in {"apply", "promote"} /\ op' = op /\ disk \in [Files -> Bytes]
      /\ undo \in Seq(Undos) /\ undo # <<>>
  BY DEF PatchInv, Shapes, ProgressInv
<1>2. undo' \in Seq(Undos) /\ Head(undo) \in Undos
  BY <1>1, HeadTailProperties
<1>3. Head(undo).file \in Files
  BY <1>2 DEF Undos
<1>4. \A f \in Files : disk'[f] = IF f = Head(undo).file THEN Pre(op) ELSE disk[f]
  BY <1>1, <1>3
<1>5. Shapes'
  <2>1. disk' \in [Files -> Bytes]
    BY <1>1, <1>3, ImagesDiffer DEF Bytes
  <2>2. QED
    BY <1>2, <2>1 DEF PatchInv, Shapes, Points
<1>6. Counts'
  BY DEF PatchInv, Counts
<1>7. \A f \in Files : disk'[f] # Other(op)
  BY <1>1, <1>4, ImagesDiffer DEF PatchInv, ApartInv
<1>8. ApartInv' /\ WavesDoNotMix'
  BY <1>1, <1>7 DEF ApartInv, WavesDoNotMix, Other
<1>9. ProgressInv' /\ Believed'
  BY DEF ProgressInv, Believed, Forward
<1>10. QED
  BY <1>5, <1>6, <1>8, <1>9 DEF PatchInv

\* The edits of others are no images.
LEMMA SaveEditInv ==
  ASSUME PatchInv, NEW f \in Files, NEW e \in Edits, SaveEdit(f, e)
  PROVE  PatchInv'
<1> USE DEF SaveEdit, wave
<1>1. /\ op \in {"apply", "promote"} /\ op' = op /\ disk \in [Files -> Bytes]
      /\ active' = active /\ written' = written /\ stage' = stage /\ outcome' = outcome /\ undo' = undo
  BY DEF PatchInv, Shapes
<1>2. \A g \in Files : disk'[g] = IF g = f THEN e ELSE disk[g]
  BY <1>1
<1>3. e \notin Images
  BY WaveAssumption
<1>4. e # Pre(op) /\ e # Post(op) /\ e # Other(op) /\ e # "base" /\ e # "reviewed"
  BY <1>1, <1>3, ImagesDiffer DEF Images, Other
<1>5. Shapes'
  <2>1. disk' \in [Files -> Bytes]
    BY <1>1 DEF Bytes
  <2>2. QED
    BY <2>1 DEF PatchInv, Shapes
<1>6. Counts'
  BY DEF PatchInv, Counts
<1>7. ApartInv' /\ WavesDoNotMix'
  BY <1>1, <1>2, <1>4 DEF PatchInv, ApartInv, WavesDoNotMix
<1>8. ProgressInv'
  <2>1. 1 .. written \subseteq Files
    BY WaveAssumption DEF PatchInv, Counts, Files
  <2>2. stage \in Forward => \A g \in 1 .. written : disk'[g] # Pre(op)
    BY <1>1, <1>2, <1>4, <2>1 DEF PatchInv, ProgressInv
  <2>3. stage = "replaced" => disk'[active] # Pre(op)
    BY <1>1, <1>2, <1>4 DEF PatchInv, ProgressInv, Forward
  <2>4. QED
    BY <1>1, <2>2, <2>3 DEF PatchInv, ProgressInv, Pre
<1>9. Believed'
  BY <1>1, <1>2, <1>4 DEF PatchInv, Believed, Pre, Post
<1>10. QED
  BY <1>5, <1>6, <1>7, <1>8, <1>9 DEF PatchInv

LEMMA ResetInv == ASSUME PatchInv, Reset PROVE PatchInv'
<1> USE DEF Reset, wave, others
<1>1. Shapes'
  BY DEF PatchInv, Shapes, Bytes, Images
<1>2. Counts'
  BY DEF PatchInv, Counts
<1>3. ApartInv' /\ WavesDoNotMix' /\ ProgressInv' /\ Believed'
  BY DEF ApartInv, WavesDoNotMix, ProgressInv, Believed, Forward
<1>4. QED
  BY <1>1, <1>2, <1>3 DEF PatchInv

LEMMA PatchNextInv == PatchInv /\ [PatchNext]_patch_vars => PatchInv'
<1> SUFFICES ASSUME PatchInv, [PatchNext]_patch_vars PROVE PatchInv'
  OBVIOUS
<1>1. CASE PatchNext
  BY <1>1, PlanInv, RecheckInv, CompareForwardInv, ReplaceInv, FailWriteInv, RecordWrittenInv, VerifyInv,
     FinishInv, StartUndoInv, CompareBackInv, PutBackInv, FailRestoreInv, ProveRestoredInv,
     KillInv, SaveEditInv, AddFileInv, MoveHeadInv, ResetInv DEF PatchNext, Others
<1>2. CASE UNCHANGED patch_vars
  <2> USE <1>2 DEF patch_vars, wave, others
  <2>1. Shapes' /\ Counts'
    BY DEF PatchInv, Shapes, Counts
  <2>2. ApartInv' /\ WavesDoNotMix' /\ Believed'
    BY DEF PatchInv, ApartInv, WavesDoNotMix, Believed
  <2>3. ProgressInv'
    BY DEF PatchInv, ProgressInv
  <2>4. QED
    BY <2>1, <2>2, <2>3 DEF PatchInv
<1>3. QED
  BY <1>1, <1>2

-----------------------------------------------------------------------------
(* Where an operation is, what it has written and what others may have     *)
(* done in the meantime, for the answers and for the images of the files.  *)
THEOREM PatchSafety == PatchSpec => []PatchInv
<1>1. PatchInit => PatchInv
  BY PatchInitInv
<1>2. PatchInv /\ [PatchNext]_patch_vars => PatchInv'
  BY PatchNextInv
<1>3. QED
  BY <1>1, <1>2, PTL DEF PatchSpec

(* A receipt or an error can be believed (the returns of apply_semantic_patch *)
(* and promote_semantic_patch_review).                                        *)
THEOREM VerdictsAreTrue == PatchSpec => []VerdictIsTrue
<1>1. PatchInv => VerdictIsTrue
  <2>1. PatchInv => TypeOK
    BY DEF PatchInv, Shapes, Counts, TypeOK
  <2>2. QED
    BY <2>1 DEF PatchInv, Believed, VerdictIsTrue
<1>2. QED
  BY <1>1, PatchSafety, PTL

(* No kill, failure or rollback leaves a file reviewed beside one without its *)
(* draft, whatever the number of files.                                       *)
THEOREM WavesStayApart == PatchSpec => []WavesDoNotMix
<1>1. PatchInv => WavesDoNotMix
  BY DEF PatchInv
<1>2. QED
  BY <1>1, PatchSafety, PTL

-----------------------------------------------------------------------------
(* A rollback that nobody disturbs                                         *)

Undisturbed == saved = {} /\ ~moved

\* The first n files have their new bytes and the others their old ones.
WrittenUpTo(n) == \A f \in Files : disk[f] = IF f <= n THEN Post(op) ELSE Pre(op)

\* What the rollback has still to put back are the first files, the last one first.
UndoFits ==
    /\ WrittenUpTo(Len(undo))
    /\ \A i \in DOMAIN undo : /\ undo[i].file = Len(undo) + 1 - i
                              /\ undo[i].expected = Post(op)

\* While nobody else has saved or committed anything, the bytes are those the
\* operation wrote, and the rollback's list is complete.
QuietInv ==
    Undisturbed =>
        /\ stage = "planned" => WrittenUpTo(0)
        /\ stage \in {"writing", "replacing", "recorded", "finishing"} => WrittenUpTo(written)
        /\ stage = "replaced" => WrittenUpTo(active)
        /\ stage = "undoing" =>
              \/ active \in {written, written + 1} /\ WrittenUpTo(written)
              \/ active = written + 1 /\ WrittenUpTo(active)
        /\ stage \in {"restoring", "putting"} => UndoFits

LEMMA QuietInit == PatchInit => QuietInv
BY DEF PatchInit, QuietInv

\* The process moves on, and writes nothing.
LEMMA QuietStep ==
  ASSUME PatchInv, QuietInv,
         Recheck \/ CompareForward \/ FailWrite \/ RecordWritten \/ Verify \/ Finish
  PROVE  QuietInv'
<1>1. /\ active \in Nat /\ written \in Nat /\ NFiles \in Nat
      /\ stage \in {"writing", "replacing", "replaced"} => active = written + 1
      /\ stage = "recorded" => active = written
      /\ stage = "planned" => written = 0
      /\ stage = "finishing" => written = NFiles
      /\ active \in 0 .. NFiles /\ written \in 0 .. active
  BY WaveAssumption DEF PatchInv, Counts, ProgressInv
<1>2. /\ disk' = disk /\ op' = op /\ saved' = saved /\ moved' = moved
      /\ \A n : WrittenUpTo(n)' <=> WrittenUpTo(n)
  BY DEF Recheck, CompareForward, FailWrite, RecordWritten, Verify, Finish, wave, others, WrittenUpTo
<1>3. CASE Recheck
  BY <1>1, <1>2, <1>3 DEF Recheck, End, QuietInv, Undisturbed
<1>4. CASE CompareForward
  BY <1>1, <1>2, <1>4 DEF CompareForward, QuietInv, Undisturbed
<1>5. CASE FailWrite
  BY <1>1, <1>2, <1>5 DEF FailWrite, QuietInv, Undisturbed
<1>6. CASE RecordWritten
  BY <1>1, <1>2, <1>6 DEF RecordWritten, QuietInv, Undisturbed
<1>7. CASE Verify
  BY <1>1, <1>2, <1>7 DEF Verify, QuietInv, Undisturbed
<1>8. CASE Finish
  BY <1>1, <1>2, <1>8 DEF Finish, End, QuietInv, Undisturbed
<1>9. QED
  BY <1>3, <1>4, <1>5, <1>6, <1>7, <1>8

LEMMA QuietPlan == ASSUME PatchInv, NEW o \in {"apply", "promote"}, Plan(o) PROVE QuietInv'
<1>1. stage' \in {"idle", "planned"}
  BY DEF Plan
<1>2. stage' = "planned" => WrittenUpTo(0)'
  BY DEF Plan, Planned, WrittenUpTo, Files
<1>3. QED
  BY <1>1, <1>2 DEF QuietInv

LEMMA QuietReplace == ASSUME PatchInv, QuietInv, Replace PROVE QuietInv'
<1>1. /\ active = written + 1 /\ written \in Nat /\ active \in Files /\ disk \in [Files -> Bytes]
  <2>1. active = written + 1 /\ active \in Files /\ disk \in [Files -> Bytes]
    BY DEF Replace, PatchInv, Shapes, ProgressInv, Forward
  <2>2. active \in 0 .. NFiles /\ written \in 0 .. active
    BY DEF PatchInv, Counts
  <2>3. QED
    BY <2>1, <2>2, WaveAssumption
<1>2. stage' = "replaced" /\ op' = op /\ active' = active /\ saved' = saved /\ moved' = moved
  BY DEF Replace, wave, others
<1>3. WrittenUpTo(written) => WrittenUpTo(active)'
  <2>1. \A f \in Files : disk'[f] = IF f = active THEN Post(op) ELSE disk[f]
    BY <1>1 DEF Replace
  <2>2. Post(op') = Post(op) /\ Pre(op') = Pre(op)
    BY <1>2
  <2>3. \A f \in Files : f <= active <=> f <= written \/ f = active
    BY <1>1 DEF Files
  <2>4. QED
    BY <1>2, <2>1, <2>2, <2>3 DEF WrittenUpTo
<1>4. QED
  BY <1>2, <1>3 DEF Replace, QuietInv, Undisturbed

\* The list of the rollback holds just the files that have been written.
LEMMA QuietStartUndo == ASSUME PatchInv, QuietInv, StartUndo PROVE QuietInv'
<1>1. /\ active \in Files /\ written \in 0 .. active /\ op \in {"apply", "promote"}
      /\ active \in Nat /\ written \in Nat
  <2>1. active \in Files /\ op \in {"apply", "promote"}
    BY DEF StartUndo, PatchInv, Shapes, ProgressInv
  <2>2. active \in 0 .. NFiles /\ written \in 0 .. active
    BY DEF PatchInv, Counts
  <2>3. QED
    BY <2>1, <2>2, WaveAssumption
<1>2. /\ stage = "undoing" /\ stage' = "restoring" /\ op' = op /\ disk' = disk
      /\ saved' = saved /\ moved' = moved
  BY DEF StartUndo, wave, others
<1>3. SUFFICES ASSUME Undisturbed PROVE UndoFits'
  BY <1>2 DEF QuietInv, Undisturbed
<1>4. /\ Recorded \in Seq([file : Int, expected : {Post(op)}]) /\ Len(Recorded) = written
      /\ \A i \in 1 .. written : Recorded[i].file = written + 1 - i /\ Recorded[i].expected = Post(op)
  <2>1. \A i \in 1 .. written : [file |-> written + 1 - i, expected |-> Post(op)]
                                   \in [file : Int, expected : {Post(op)}]
    BY <1>1
  <2>2. Recorded \in [1 .. written -> [file : Int, expected : {Post(op)}]]
    BY <2>1 DEF Recorded
  <2>3. QED
    BY <1>1, <2>2 DEF Recorded
<1>5. /\ Pre(op') = Pre(op) /\ Post(op') = Post(op) /\ Pre(op) # Post(op)
      /\ \A n : WrittenUpTo(n)' <=> WrittenUpTo(n)
  BY <1>1, <1>2, ImagesDiffer DEF WrittenUpTo
<1>6. CASE active > written /\ disk[active] # Pre(op)
  <2> DEFINE first == [file |-> active, expected |-> disk[active]]
  <2>1. active = written + 1 /\ WrittenUpTo(active) /\ disk[active] = Post(op)
    BY <1>1, <1>2, <1>3, <1>6 DEF QuietInv, WrittenUpTo
  <2>2. undo' = <<first>> \o Recorded
    BY <1>6 DEF StartUndo
  <2>3. first.file = written + 1 /\ first.expected = Post(op)
        /\ first \in [file : Int, expected : {Post(op)}]
    BY <1>1, <2>1
  <2> HIDE DEF first
  <2>4. /\ Len(undo') = written + 1 /\ DOMAIN undo' = 1 .. written + 1
        /\ undo'[1] = first
        /\ \A i \in 2 .. written + 1 : undo'[i] = Recorded[i - 1]
    BY <1>1, <1>4, <2>2, <2>3, ConcatProperties
  <2>5. ASSUME NEW i \in DOMAIN undo'
        PROVE  undo'[i].file = Len(undo') + 1 - i /\ undo'[i].expected = Post(op')
    <3>1. CASE i = 1
      BY <1>1, <1>5, <2>3, <2>4, <3>1
    <3>2. CASE i # 1
      <4>1. i \in 2 .. written + 1 /\ i - 1 \in 1 .. written /\ i \in Int
        BY <1>1, <2>4, <3>2
      <4>2. undo'[i].file = written + 1 - (i - 1) /\ undo'[i].expected = Post(op)
        BY <1>4, <2>4, <4>1
      <4>3. QED
        BY <1>1, <1>5, <2>4, <4>1, <4>2
    <3>3. QED
      BY <3>1, <3>2
  <2>6. QED
    BY <1>5, <2>1, <2>4, <2>5 DEF UndoFits
<1>7. CASE ~(active > written /\ disk[active] # Pre(op))
  <2>1. WrittenUpTo(written)
    <3>1. CASE active = written + 1 /\ WrittenUpTo(active)
      <4>1. disk[active] = Post(op)
        BY <1>1, <3>1 DEF WrittenUpTo
      <4>2. QED
        BY <1>1, <1>5, <1>7, <3>1, <4>1
    <3>2. QED
      BY <1>2, <1>3, <3>1 DEF QuietInv
  <2>2. undo' = Recorded
    <3>1. undo' = <<>> \o Recorded
      BY <1>7 DEF StartUndo
    <3>2. QED
      BY <1>4, <3>1
  <2>3. ASSUME NEW i \in DOMAIN undo'
        PROVE  undo'[i].file = Len(undo') + 1 - i /\ undo'[i].expected = Post(op')
    BY <1>4, <1>5, <2>2
  <2>4. QED
    BY <1>4, <1>5, <2>1, <2>2, <2>3 DEF UndoFits
<1>8. QED
  BY <1>6, <1>7

\* The next file of the list has the bytes that the rollback expects.
LEMMA UndoHead ==
  ASSUME PatchInv, UndoFits, undo # <<>>
  PROVE  /\ Len(undo) \in Nat \ {0} /\ Head(undo).file = Len(undo) /\ Len(undo) \in Files
         /\ Head(undo).expected = Post(op) /\ disk[Len(undo)] = Post(op)
<1>0. undo \in Seq(Undos) /\ undo # <<>>
  BY DEF PatchInv, Shapes
<1>1. Len(undo) \in Nat \ {0} /\ Head(undo) = undo[1] /\ 1 \in DOMAIN undo
  BY <1>0
<1>2. undo[1] \in Undos
  BY <1>0, <1>1
<1>3. undo[1].file = Len(undo) + 1 - 1 /\ undo[1].expected = Post(op)
  BY <1>1 DEF UndoFits
<1>4. Len(undo) \in Files
  BY <1>1, <1>2, <1>3 DEF Undos
<1>5. QED
  BY <1>1, <1>3, <1>4 DEF UndoFits, WrittenUpTo

LEMMA QuietPutBack == ASSUME PatchInv, QuietInv, PutBack PROVE QuietInv'
<1>1. /\ stage = "putting" /\ stage' = "restoring" /\ op' = op /\ undo' = Tail(undo)
      /\ saved' = saved /\ moved' = moved /\ undo # <<>>
      /\ disk' = [disk EXCEPT ![Head(undo).file] = Pre(op)]
      /\ undo \in Seq(Undos) /\ disk \in [Files -> Bytes]
  BY DEF PutBack, wave, others, PatchInv, Shapes, ProgressInv
<1>2. SUFFICES ASSUME Undisturbed PROVE UndoFits'
  BY <1>1 DEF QuietInv, Undisturbed
<1>3. UndoFits
  BY <1>1, <1>2 DEF QuietInv
<1> PICK n : n = Len(undo)
  OBVIOUS
<1>4. n \in Nat \ {0} /\ Head(undo).file = n /\ n \in Files
  BY <1>1, <1>3, UndoHead
<1>5. /\ Len(undo') = n - 1 /\ DOMAIN undo' = 1 .. n - 1
      /\ \A i \in 1 .. n - 1 : undo'[i] = undo[i + 1]
  BY <1>1, HeadTailProperties
<1>6. \A f \in Files : disk'[f] = IF f = n THEN Pre(op) ELSE disk[f]
  BY <1>1, <1>4
<1>7. Pre(op') = Pre(op) /\ Post(op') = Post(op)
  BY <1>1
<1>8. \A i \in DOMAIN undo : undo[i].file = n + 1 - i /\ undo[i].expected = Post(op)
  BY <1>3 DEF UndoFits
<1>9. \A f \in Files : disk[f] = IF f <= n THEN Post(op) ELSE Pre(op)
  BY <1>3 DEF UndoFits, WrittenUpTo
<1>10. DOMAIN undo = 1 .. n
  BY <1>1
<1>11. WrittenUpTo(Len(undo))'
  <2>1. \A f \in Files : f <= n - 1 <=> f <= n /\ f # n
    BY <1>4 DEF Files
  <2>2. \A f \in Files : disk'[f] = IF f <= Len(undo') THEN Post(op') ELSE Pre(op')
    BY <1>5, <1>6, <1>7, <1>9, <2>1
  <2>3. QED
    BY <2>2 DEF WrittenUpTo
<1>12. ASSUME NEW i \in DOMAIN undo'
       PROVE  undo'[i].file = Len(undo') + 1 - i /\ undo'[i].expected = Post(op')
  <2>1. i + 1 \in DOMAIN undo /\ i \in Nat /\ n + 1 - (i + 1) = (n - 1) + 1 - i
    BY <1>4, <1>5, <1>10
  <2>2. QED
    BY <1>5, <1>7, <1>8, <2>1
<1>13. QED
  BY <1>11, <1>12 DEF UndoFits

\* The other steps of the rollback, and those of others.
LEMMA QuietRest ==
  ASSUME PatchInv, QuietInv,
         \/ CompareBack \/ FailRestore \/ ProveRestored \/ Kill \/ AddFile \/ UNCHANGED patch_vars
  PROVE  QuietInv'
<1>1. /\ disk' = disk /\ op' = op /\ saved' = saved /\ moved' = moved
      /\ active' = active /\ written' = written
      /\ \A n : WrittenUpTo(n)' <=> WrittenUpTo(n)
  BY DEF CompareBack, FailRestore, ProveRestored, Kill, AddFile, patch_vars, wave, others, WrittenUpTo
<1>2. undo' = undo => (UndoFits' <=> UndoFits)
  BY <1>1 DEF UndoFits
<1>3. \/ stage' = "idle"
      \/ stage' = stage /\ undo' = undo
      \/ stage = "restoring" /\ stage' = "putting" /\ undo' = undo
  BY DEF CompareBack, FailRestore, ProveRestored, Kill, AddFile, End, patch_vars
<1>4. CASE stage' = "idle"
  BY <1>4 DEF QuietInv
<1>5. CASE stage' = stage /\ undo' = undo
  BY <1>1, <1>2, <1>5 DEF QuietInv, Undisturbed
<1>6. CASE stage = "restoring" /\ stage' = "putting" /\ undo' = undo
  BY <1>1, <1>2, <1>6 DEF QuietInv, Undisturbed
<1>7. QED
  BY <1>3, <1>4, <1>5, <1>6

LEMMA QuietOthers ==
  ASSUME QuietInv, Reset \/ MoveHead \/ \E f \in Files, e \in Edits : SaveEdit(f, e)
  PROVE  QuietInv'
<1>1. CASE Reset
  BY <1>1 DEF Reset, QuietInv
<1>2. CASE MoveHead
  BY <1>2 DEF MoveHead, QuietInv, Undisturbed
<1>3. CASE \E f \in Files, e \in Edits : SaveEdit(f, e)
  BY <1>3 DEF SaveEdit, QuietInv, Undisturbed
<1>4. QED
  BY <1>1, <1>2, <1>3

LEMMA QuietNext == PatchInv /\ QuietInv /\ [PatchNext]_patch_vars => QuietInv'
BY QuietPlan, QuietStep, QuietReplace, QuietStartUndo, QuietPutBack, QuietRest, QuietOthers
   DEF PatchNext, Others

(* In a checkout that nobody else has changed a rollback is given up only when *)
(* one of its own steps fails: it misses no file, not even the one that was in *)
(* hand when the write failed, and expects of each the bytes that it has.      *)
THEOREM RollbacksSucceed == PatchSpec => UndisturbedRollbackSucceeds
<1>1. ASSUME PatchInv, QuietInv, PatchNext, stage # "idle", stage' = "idle",
             outcome' = "rollback failed", Undisturbed
      PROVE  patch_faults' > patch_faults
  <2>1. CompareBack \/ FailRestore \/ ProveRestored
    BY <1>1 DEF PatchNext, Others, Plan, Recheck, CompareForward, Replace, FailWrite, RecordWritten,
       Verify, Finish, StartUndo, PutBack, Kill, SaveEdit, AddFile, MoveHead, Reset, End
  <2>2. CASE FailRestore
    <3>1. patch_faults' = patch_faults + 1
      BY <2>2 DEF FailRestore, PatchFault
    <3>2. Counts
      BY <1>1 DEF PatchInv
    <3>3. patch_faults \in Int
      BY <3>2, WaveAssumption DEF Counts
    <3>4. QED
      BY <3>1, <3>3
  <2>3. CASE CompareBack
    <3>1. UndoFits /\ undo # <<>>
      BY <1>1, <2>3 DEF CompareBack, QuietInv
    <3>2. disk[Head(undo).file] = Head(undo).expected
      BY <1>1, <3>1, UndoHead
    <3>3. QED
      BY <1>1, <2>3, <3>2 DEF CompareBack
  <2>4. CASE ProveRestored
    <3>1. UndoFits /\ undo = <<>> /\ ~moved
      BY <1>1, <2>4 DEF ProveRestored, QuietInv, Undisturbed
    <3>2. Planned(op)
      BY <3>1 DEF UndoFits, WrittenUpTo, Planned, Files
    <3>3. QED
      BY <1>1, <2>4, <3>1, <3>2 DEF ProveRestored, End
  <2>5. QED
    BY <2>1, <2>2, <2>3, <2>4
<1>2. PatchInv /\ QuietInv /\ [PatchNext]_patch_vars => [GivenUpOnlyByFault]_patch_vars
  BY <1>1 DEF GivenUpOnlyByFault, Undisturbed
<1>3. PatchInit => QuietInv
  BY QuietInit
<1>4. PatchInv /\ QuietInv /\ [PatchNext]_patch_vars => QuietInv'
  BY QuietNext
<1>5. QED
  BY <1>2, <1>3, <1>4, PatchSafety, PTL DEF PatchSpec, UndisturbedRollbackSucceeds

-----------------------------------------------------------------------------
(* The installer: what its invariants say                                  *)

StepIds == {Steps[k] : k \in 1 .. 7}
RollbackIds == {Rollbacks[k].id : k \in 1 .. 7}
UnitsOf(step) == ToSet(Units(step))
UnitIds == UNION {UnitsOf(step) : step \in StepIds}

PlanEvents == {"transaction-start", "step-start", "operation-start", "operation-complete",
               "step-complete"}
Events == PlanEvents \cup RollbackEvents \cup {"plan-complete"}

RowType == [event : Events, step : StepIds \cup RollbackIds \cup {"none"},
            unit : UnitIds \cup {"none"}, intent : {"none", "existing", "absent"},
            receipt : SUBSET Objects]

\* What a row of each kind holds.
RowFits(row) ==
    /\ row.event \in {"operation-start", "operation-complete"} =>
           row.step \in StepIds /\ row.unit \in UnitsOf(row.step)
    /\ row.event \in {"step-start", "step-complete"} => row.step \in StepIds
    /\ row.event = "operation-start" /\ row.intent = "existing" => row.unit \in Kept
    /\ row.receipt \subseteq
           CASE row.event = "operation-complete" /\ row.unit \notin ReadOnly -> {ObjectOf(row.unit)}
             [] row.event = "step-complete" -> StepReceipt(row.step)
             [] OTHER -> {}
    /\ row.event = "step-complete" => row.receipt = StepReceipt(row.step)

\* The row that follows another one in the plan, or in a rollback.
Follows(prev, row) ==
    \/ row.event \in RollbackEvents /\ prev.event # "operation-start"
    \/ row.event = "plan-complete" /\ prev.event = "step-complete"
    \/ /\ row.event = "step-start"
       /\ \/ prev.event = "transaction-start" /\ row.step = Steps[1]
          \/ /\ prev.event = "step-complete"
             /\ \E k \in 1 .. 6 : prev.step = Steps[k] /\ row.step = Steps[k + 1]
    \/ /\ row.event = "operation-start" /\ prev.step = row.step
       /\ \/ prev.event = "step-start" /\ row.unit = Units(row.step)[1]
          \/ /\ prev.event = "operation-complete"
             /\ \E k \in 1 .. Len(Units(row.step)) - 1 :
                    prev.unit = Units(row.step)[k] /\ row.unit = Units(row.step)[k + 1]
    \/ /\ row.event = "operation-complete" /\ prev.event = "operation-start"
       /\ row.step = prev.step /\ row.unit = prev.unit
    \/ /\ row.event = "step-complete" /\ prev.event = "operation-complete"
       /\ row.step = prev.step /\ prev.unit = Units(prev.step)[Len(Units(prev.step))]

\* The position of a row of the plan in the journal.
Base(step) == CASE step = "validate" -> 1 [] step = "identity" -> 5 [] step = "code" -> 11
                [] step = "leaves" -> 17 [] step = "key" -> 23 [] step = "service" -> 29
                [] OTHER -> 33
Place(unit) == CASE unit \in {"user", "file", "active", "candidate", "kickstart"} -> 2
                 [] unit = "final" -> 3 [] OTHER -> 1
Position(row) ==
    CASE row.event = "transaction-start" -> 1
      [] row.event = "step-start" -> Base(row.step) + 1
      [] row.event = "operation-start" -> Base(row.step) + 2 * Place(row.unit)
      [] row.event = "operation-complete" -> Base(row.step) + 2 * Place(row.unit) + 1
      [] OTHER -> Base(row.step) + 2 * Len(Units(row.step)) + 2

JournalInv ==
    /\ journal \in Seq(RowType)
    /\ \A i \in DOMAIN journal :
          /\ RowFits(journal[i])
          /\ i = 1 <=> journal[i].event = "transaction-start"
          /\ i < Len(journal) => journal[i].event \notin Terminal
          /\ i < Len(journal) => Follows(journal[i], journal[i + 1])
          /\ journal[i].event \in PlanEvents => Position(journal[i]) = i
    /\ \A i, k \in DOMAIN journal :
          i < k /\ journal[i].event \in RollbackEvents => journal[k].event \in RollbackEvents

-----------------------------------------------------------------------------
Loops == {"step", "intent", "apply", "done", "ended", "complete"}
Undoing == {"undo", "undone", "unsettled"}
Rolls == {"rollback"} \cup Undoing
Places == {"idle", "own", "adopt"} \cup Loops \cup Rolls
First == [step |-> 1, unit |-> 1]
Sizes == <<1, 2, 2, 2, 2, 1, 3>>

\* Where the process is: its own variables, and the last row for the loops.
PlaceInv ==
    /\ pc \in Places /\ failed \in BOOLEAN /\ rolling \in 1 .. 8
    /\ at = [step |-> at.step, unit |-> at.unit]
    /\ at.step \in 1 .. 7 /\ at.unit \in 1 .. Sizes[at.step]
    /\ pc = "idle" => at = First
    /\ pc \notin Rolls => rolling = 1 /\ ~failed
    /\ pc \in Undoing => rolling <= 7
    /\ pc = "unsettled" => failed
    /\ pc # "idle" => journal # <<>> /\ LastEvent \notin Terminal

LoopInv ==
    /\ pc = "step" => /\ at.unit = 1
                      /\ \/ at.step = 1 /\ LastEvent = "transaction-start"
                         \/ /\ at.step > 1 /\ LastEvent = "step-complete"
                            /\ Last(journal).step = Steps[at.step - 1]
    /\ pc = "intent" => /\ Last(journal).step = Step
                        /\ \/ at.unit = 1 /\ LastEvent = "step-start"
                           \/ /\ at.unit > 1 /\ LastEvent = "operation-complete"
                              /\ Last(journal).unit = Units(Step)[at.unit - 1]
    /\ pc \in {"apply", "done"} => /\ LastEvent = "operation-start"
                                   /\ Last(journal).step = Step /\ Last(journal).unit = Unit
    /\ pc = "ended" => /\ at.unit = Sizes[at.step] /\ LastEvent = "operation-complete"
                       /\ Last(journal).step = Step /\ Last(journal).unit = Unit
    /\ pc = "complete" => /\ at = [step |-> 7, unit |-> 3] /\ LastEvent = "step-complete"
    /\ pc = "adopt" => LastEvent = "operation-start"
    /\ pc \in Rolls => LastEvent # "operation-start"

-----------------------------------------------------------------------------
Home(o) == CASE o \in {"group", "user"} -> "identity"
             [] o \in {"directory", "file"} -> "code"
             [] o \in {"ledger", "active"} -> "leaves"
             [] o \in {"seed", "candidate"} -> "key"
             [] o = "registration" -> "service"
             [] OTHER -> "authority"
Maker(o) == IF o = "authority" THEN "activation" ELSE o

Stages == {"no", "yes", "live", "temp", "both", "raw"}
HostType ==
    /\ host \in [Objects -> Stages]
    /\ \A o \in Objects : /\ host[o] = "live" => o = "registration"
                          /\ host[o] = "temp" => o \in Published
                          /\ host[o] = "both" => o \in Published \cup {"authority"}
                          /\ host[o] = "raw" => o \in Created

\* A receipt of its step names the object.
Receipted(o) == \E i \in DOMAIN journal : journal[i].step = Home(o) /\ o \in journal[i].receipt

\* The operation in flight is the one that makes the object.
Making(o) == /\ LastEvent = "operation-start"
             /\ Last(journal).step = Home(o) /\ Last(journal).unit = Maker(o)

Accounted(o) ==
    \/ host[o] = "no"
    \/ host[o] = "yes" /\ o \in Kept \cup foreign
    \/ host[o] \in {"yes", "live"} /\ Receipted(o)
    \/ Making(o)

Settled(o) == host[o] \in {"no", "yes", "live"}

\* The host, object by object: a trace that is not a whole one belongs to the
\* operation in flight.
HostInv ==
    /\ HostType
    /\ \A o \in Objects : Accounted(o)
    /\ LastEvent = "operation-start" /\ Last(journal).intent = "existing" =>
           host[Last(journal).unit] = "yes"

\* With a foreign object in the way nothing happens after the preflight.
Unobstructed == foreign \cap Objects \subseteq Kept
ForeignInv ==
    \/ Unobstructed
    \/ /\ \A o \in foreign \cap Objects : host[o] = "yes"
       /\ \A i \in DOMAIN journal :
             /\ journal[i].receipt = {}
             /\ journal[i].event = "operation-start" => journal[i].unit = "preflight"

\* What the rollbacks undo.
Undone(k) == CASE k = 1 -> {"authority"} [] k = 2 -> {"registration"} [] k = 3 -> {}
               [] k = 4 -> {"seed", "candidate"} [] k = 5 -> {"active"} [] k = 6 -> {"file"}
               [] OTHER -> {"user", "group"}

Cleared(k) == \A o \in Undone(k) \ foreign : host[o] = "no"

RolledInv == \A k \in 1 .. 7 : Rollbacks[k].id \in RolledBack => Cleared(k)

Installed == Complete /\ host["registration"] = "live"
Clean == \A o \in Objects : host[o] = "no" \/ (host[o] = "yes" /\ o \in Kept \cup foreign)

EndInv ==
    /\ LastEvent = "plan-complete" => Installed
    /\ LastEvent \in {"none", "recovery-complete"} => Clean

\* What is true of the journal and the host wherever the process is, and so
\* when it has been killed.
DurableInv == JournalInv /\ HostInv /\ ForeignInv /\ RolledInv /\ EndInv

\* What the process has done when it has reached a point.
WorkInv ==
    /\ pc = "done" /\ Unit \notin ReadOnly \cup {"kickstart"} => host[ObjectOf(Unit)] = "yes"
    /\ pc = "adopt" => LET o == ObjectOf(Last(journal).unit)
                       IN  o \in Objects => Settled(o)
    /\ Unobstructed \/ (pc \in Loops => at = First /\ pc \in {"step", "intent", "apply"})
    /\ pc = "undone" => Cleared(rolling)
    /\ pc \in Rolls /\ ~failed => \A k \in 1 .. rolling - 1 : Cleared(k)
    /\ pc \in Loops /\ at.step = 7 /\ (at.unit = 3 \/ (at.unit = 2 /\ pc = "done")) =>
           host["registration"] = "live"
    /\ pc \in {"done", "ended", "complete"} /\ at.step = 7 /\ at.unit = 3 => Installed

InstallInv == DurableInv /\ PlaceInv /\ LoopInv /\ WorkInv

\* Among some numbers there is a smallest.
LEMMA Smallest ==
    ASSUME NEW S \in SUBSET Nat, S # {}
    PROVE  \E n \in S : \A m \in S : n <= m
<1>1. PICK n \in S : \A m \in S : ~(<<m, n>> \in OpToRel(<, Nat))
  BY NatLessThanWellFounded, WFMin
<1>2. ASSUME NEW m \in S PROVE n <= m
  <2>1. m \in Nat /\ n \in Nat /\ ~(<<m, n>> \in {ss \in Nat \X Nat : ss[1] < ss[2]})
    BY <1>1 DEF OpToRel
  <2>2. QED
    BY <2>1
<1>3. QED
  BY <1>2

-----------------------------------------------------------------------------
(* The plan as a table                                                     *)

LEMMA StepTable ==
    /\ Steps[1] = "validate" /\ Steps[2] = "identity" /\ Steps[3] = "code"
    /\ Steps[4] = "leaves" /\ Steps[5] = "key" /\ Steps[6] = "service"
    /\ Steps[7] = "authority" /\ Len(Steps) = 7
  BY DEF Steps

LEMMA UnitTable ==
    /\ Units("validate") = <<"preflight">> /\ Units("identity") = <<"group", "user">>
    /\ Units("code") = <<"directory", "file">> /\ Units("leaves") = <<"ledger", "active">>
    /\ Units("key") = <<"seed", "candidate">> /\ Units("service") = <<"registration">>
    /\ Units("authority") = <<"activation", "kickstart", "final">>
  BY DEF Units

LEMMA SizeTable ==
    /\ Sizes[1] = 1 /\ Sizes[2] = 2 /\ Sizes[3] = 2 /\ Sizes[4] = 2 /\ Sizes[5] = 2
    /\ Sizes[6] = 1 /\ Sizes[7] = 3
  BY DEF Sizes

LEMMA StepIdsAre ==
    StepIds = {"validate", "identity", "code", "leaves", "key", "service", "authority"}
  BY StepTable DEF StepIds

LEMMA UnitsOfAre ==
    /\ UnitsOf("validate") = {"preflight"} /\ UnitsOf("identity") = {"group", "user"}
    /\ UnitsOf("code") = {"directory", "file"} /\ UnitsOf("leaves") = {"ledger", "active"}
    /\ UnitsOf("key") = {"seed", "candidate"} /\ UnitsOf("service") = {"registration"}
    /\ UnitsOf("authority") = {"activation", "kickstart", "final"}
<1>1. UnitsOf("validate") = {"preflight"} /\ UnitsOf("service") = {"registration"}
  BY UnitTable DEF UnitsOf, ToSet
<1>2. UnitsOf("identity") = {"group", "user"} /\ UnitsOf("code") = {"directory", "file"}
  BY UnitTable DEF UnitsOf, ToSet
<1>3. UnitsOf("leaves") = {"ledger", "active"} /\ UnitsOf("key") = {"seed", "candidate"}
  BY UnitTable DEF UnitsOf, ToSet
<1>4. UnitsOf("authority") = {"activation", "kickstart", "final"}
  BY UnitTable DEF UnitsOf, ToSet
<1>5. QED
  BY <1>1, <1>2, <1>3, <1>4

\* A step has its place in the plan and in the journal.
LEMMA SizeFacts ==
    ASSUME NEW s \in 1 .. 7
    PROVE  /\ Steps[s] \in StepIds /\ Len(Units(Steps[s])) = Sizes[s]
           /\ Sizes[s] \in {1, 2, 3} /\ Base(Steps[s]) \in Nat
<1>1. CASE s = 1
  BY <1>1, StepTable, UnitTable, SizeTable, StepIdsAre DEF Base
<1>2. CASE s = 2
  BY <1>2, StepTable, UnitTable, SizeTable, StepIdsAre DEF Base
<1>3. CASE s = 3
  BY <1>3, StepTable, UnitTable, SizeTable, StepIdsAre DEF Base
<1>4. CASE s = 4
  BY <1>4, StepTable, UnitTable, SizeTable, StepIdsAre DEF Base
<1>5. CASE s = 5
  BY <1>5, StepTable, UnitTable, SizeTable, StepIdsAre DEF Base
<1>6. CASE s = 6
  BY <1>6, StepTable, UnitTable, SizeTable, StepIdsAre DEF Base
<1>7. CASE s = 7
  BY <1>7, StepTable, UnitTable, SizeTable, StepIdsAre DEF Base
<1>8. QED
  BY <1>1, <1>2, <1>3, <1>4, <1>5, <1>6, <1>7

LEMMA BaseFacts ==
    ASSUME NEW s \in 1 .. 6
    PROVE  Base(Steps[s + 1]) = Base(Steps[s]) + 2 * Sizes[s] + 2
<1>1. CASE s = 1
  BY <1>1, StepTable, SizeTable DEF Base
<1>2. CASE s = 2
  BY <1>2, StepTable, SizeTable DEF Base
<1>3. CASE s = 3
  BY <1>3, StepTable, SizeTable DEF Base
<1>4. CASE s = 4
  BY <1>4, StepTable, SizeTable DEF Base
<1>5. CASE s = 5
  BY <1>5, StepTable, SizeTable DEF Base
<1>6. CASE s = 6
  BY <1>6, StepTable, SizeTable DEF Base
<1>7. QED
  BY <1>1, <1>2, <1>3, <1>4, <1>5, <1>6

\* A unit has its place in its step.
LEMMA UnitFacts ==
    ASSUME NEW s \in 1 .. 7, NEW u \in 1 .. Sizes[s]
    PROVE  Units(Steps[s])[u] \in UnitsOf(Steps[s]) /\ Place(Units(Steps[s])[u]) = u
<1>1. CASE s = 1
  BY <1>1, StepTable, UnitTable, SizeTable, UnitsOfAre DEF Place
<1>2. CASE s = 2
  BY <1>2, StepTable, UnitTable, SizeTable, UnitsOfAre DEF Place
<1>3. CASE s = 3
  BY <1>3, StepTable, UnitTable, SizeTable, UnitsOfAre DEF Place
<1>4. CASE s = 4
  BY <1>4, StepTable, UnitTable, SizeTable, UnitsOfAre DEF Place
<1>5. CASE s = 5
  BY <1>5, StepTable, UnitTable, SizeTable, UnitsOfAre DEF Place
<1>6. CASE s = 6
  BY <1>6, StepTable, UnitTable, SizeTable, UnitsOfAre DEF Place
<1>7. CASE s = 7
  BY <1>7, StepTable, UnitTable, SizeTable, UnitsOfAre DEF Place
<1>8. QED
  BY <1>1, <1>2, <1>3, <1>4, <1>5, <1>6, <1>7

\* An operation makes one object of its step, unless it reads or restarts.
LEMMA UnitsMake ==
    ASSUME NEW step \in StepIds, NEW unit \in UnitsOf(step)
    PROVE  LET o == ObjectOf(unit)
           IN  /\ unit \notin ReadOnly \cup {"kickstart"} =>
                      o \in Objects /\ Home(o) = step /\ Maker(o) = unit
               /\ unit = "kickstart" => o = "registration"
               /\ unit \in ReadOnly => o \notin Objects
               /\ step = "validate" <=> unit = "preflight"
               /\ unit \in Kept => o = unit
               /\ unit \in UnitIds /\ unit # "none"
<1>1. unit \in UnitIds
  BY DEF UnitIds
<1>2. QED
  BY <1>1, StepIdsAre, UnitsOfAre DEF ObjectOf, ReadOnly, Objects, Home, Maker, Kept

\* The receipt of a step names every object of the step that is not kept.
LEMMA StepReceiptIs ==
    ASSUME NEW step \in StepIds
    PROVE  /\ StepReceipt(step) \subseteq Objects
           /\ \A o \in StepReceipt(step) : Home(o) = step
           /\ \A o \in Objects \ Kept : Home(o) = step => o \in StepReceipt(step)
           /\ step = "validate" => StepReceipt(step) = {}
  BY StepIdsAre, UnitsOfAre DEF StepReceipt, Objects, Home, Kept, UnitsOf

LEMMA RollbackTable ==
    /\ Len(Rollbacks) = 7
    /\ Rollbacks[1] = [id |-> "withdraw-authority", sources |-> {"authority"}]
    /\ Rollbacks[2] = [id |-> "stop-service", sources |-> {"service"}]
    /\ Rollbacks[3] = [id |-> "archive-evidence", sources |-> {"leaves", "key"}]
    /\ Rollbacks[4] = [id |-> "quarantine-key", sources |-> {"key"}]
    /\ Rollbacks[5] = [id |-> "remove-state", sources |-> {"leaves"}]
    /\ Rollbacks[6] = [id |-> "remove-code", sources |-> {"code"}]
    /\ Rollbacks[7] = [id |-> "remove-identities", sources |-> {"identity"}]
  BY DEF Rollbacks

\* A rollback undoes objects of its sources, none of which is kept.
LEMMA RollbackFacts ==
    ASSUME NEW k \in 1 .. 7
    PROVE  /\ Rollbacks[k].id \in RollbackIds /\ Rollbacks[k].sources \subseteq StepIds
           /\ \A j \in 1 .. 7 : Rollbacks[j].id = Rollbacks[k].id => j = k
           /\ ToSet(Removals(Rollbacks[k])) = Undone(k)
           /\ Undone(k) \subseteq Objects \ Kept
           /\ \A o \in Undone(k) : Home(o) \in Rollbacks[k].sources
<1>1. CASE k = 1
  BY <1>1, RollbackTable, StepIdsAre DEF RollbackIds, Removals, ToSet, Undone, Objects, Kept, Home
<1>2. CASE k = 2
  BY <1>2, RollbackTable, StepIdsAre DEF RollbackIds, Removals, ToSet, Undone, Objects, Kept, Home
<1>3. CASE k = 3
  BY <1>3, RollbackTable, StepIdsAre DEF RollbackIds, Removals, ToSet, Undone, Objects, Kept, Home
<1>4. CASE k = 4
  BY <1>4, RollbackTable, StepIdsAre DEF RollbackIds, Removals, ToSet, Undone, Objects, Kept, Home
<1>5. CASE k = 5
  BY <1>5, RollbackTable, StepIdsAre DEF RollbackIds, Removals, ToSet, Undone, Objects, Kept, Home
<1>6. CASE k = 6
  BY <1>6, RollbackTable, StepIdsAre DEF RollbackIds, Removals, ToSet, Undone, Objects, Kept, Home
<1>7. CASE k = 7
  BY <1>7, RollbackTable, StepIdsAre DEF RollbackIds, Removals, ToSet, Undone, Objects, Kept, Home
<1>8. QED
  BY <1>1, <1>2, <1>3, <1>4, <1>5, <1>6, <1>7

\* Every object that is not kept is undone by a rollback.
LEMMA AllUndone == \A o \in Objects \ Kept : \E k \in 1 .. 7 : o \in Undone(k)
  BY DEF Objects, Kept, Undone

-----------------------------------------------------------------------------
(* The journal                                                             *)

LEMMA EventsApart ==
    /\ PlanEvents \cap RollbackEvents = {} /\ "plan-complete" \notin PlanEvents \cup RollbackEvents
    /\ \A e \in PlanEvents : e \notin Terminal
    /\ RollbackEvents \cap Terminal = {"recovery-complete"}
  BY DEF PlanEvents, RollbackEvents, Terminal

\* A row of the plan stands right after the row it follows.
LEMMA FollowsCounts ==
    ASSUME NEW prev, NEW row, RowFits(prev), RowFits(row), Follows(prev, row),
           row.event \in PlanEvents
    PROVE  /\ prev.event \in PlanEvents /\ row.event # "transaction-start"
           /\ Position(row) = Position(prev) + 1
<1>1. row.event \notin RollbackEvents \cup {"plan-complete"}
  BY EventsApart
<1>2. CASE row.event = "step-start"
  <2>1. CASE prev.event = "transaction-start" /\ row.step = Steps[1]
    BY <1>2, <2>1, StepTable DEF Position, PlanEvents, Base
  <2>2. ASSUME NEW k \in 1 .. 6, prev.event = "step-complete",
               prev.step = Steps[k], row.step = Steps[k + 1]
        PROVE  Position(row) = Position(prev) + 1
    <3>1. /\ Base(Steps[k + 1]) = Base(Steps[k]) + 2 * Sizes[k] + 2
          /\ Len(Units(Steps[k])) = Sizes[k] /\ Sizes[k] \in {1, 2, 3}
          /\ Base(Steps[k]) \in Nat
      <4>1. k \in 1 .. 7
        OBVIOUS
      <4>2. QED
        BY <4>1, BaseFacts, SizeFacts
    <3>2. Position(row) = Base(row.step) + 1
      BY <1>2 DEF Position
    <3>3. Position(prev) = Base(prev.step) + 2 * Len(Units(prev.step)) + 2
      BY <2>2 DEF Position
    <3>4. QED
      BY <2>2, <3>1, <3>2, <3>3
  <2>3. QED
    BY <1>2, <2>1, <2>2 DEF Follows, RollbackEvents, PlanEvents
<1>3. CASE row.event = "operation-start"
  <2>1. PICK s \in 1 .. 7 : row.step = Steps[s]
    BY <1>3 DEF RowFits, StepIds
  <2>2. /\ Len(Units(Steps[s])) = Sizes[s] /\ Sizes[s] \in {1, 2, 3} /\ Base(Steps[s]) \in Nat
        /\ \A u \in 1 .. Sizes[s] : Place(Units(Steps[s])[u]) = u
    BY SizeFacts, UnitFacts
  <2>3. Position(row) = Base(row.step) + 2 * Place(row.unit)
    BY <1>3 DEF Position
  <2>4. CASE prev.event = "step-start" /\ row.unit = Units(row.step)[1] /\ prev.step = row.step
    <3>1. Position(prev) = Base(prev.step) + 1
      BY <2>4 DEF Position
    <3>2. QED
      BY <1>3, <2>1, <2>2, <2>3, <2>4, <3>1 DEF PlanEvents
  <2>5. ASSUME NEW k \in 1 .. Len(Units(row.step)) - 1, prev.event = "operation-complete",
               prev.step = row.step,
               prev.unit = Units(row.step)[k], row.unit = Units(row.step)[k + 1]
        PROVE  Position(row) = Position(prev) + 1
    <3>1. Position(prev) = Base(prev.step) + 2 * Place(prev.unit) + 1
      BY <2>5 DEF Position
    <3>2. k \in 1 .. Sizes[s] /\ k + 1 \in 1 .. Sizes[s]
      BY <2>1, <2>2
    <3>3. Place(prev.unit) = k /\ Place(row.unit) = k + 1
      BY <2>1, <2>2, <2>5, <3>2
    <3>4. QED
      BY <2>1, <2>2, <2>3, <2>5, <3>1, <3>3
  <2>6. QED
    BY <1>3, <2>4, <2>5 DEF Follows, RollbackEvents, PlanEvents
<1>4. CASE row.event = "operation-complete"
  <2>1. prev.event = "operation-start" /\ prev.step = row.step /\ prev.unit = row.unit
    BY <1>4 DEF Follows, RollbackEvents
  <2>2. PICK s \in 1 .. 7 : row.step = Steps[s]
    BY <1>4 DEF RowFits, StepIds
  <2>3. Base(row.step) \in Nat
    BY <2>2, SizeFacts
  <2>4. Place(row.unit) \in 1 .. 3
    BY DEF Place
  <2>5. QED
    BY <1>4, <2>1, <2>3, <2>4 DEF Position, PlanEvents
<1>5. CASE row.event = "step-complete"
  <2>1. /\ prev.event = "operation-complete" /\ prev.step = row.step
        /\ prev.unit = Units(prev.step)[Len(Units(prev.step))]
    BY <1>5 DEF Follows, RollbackEvents
  <2>2. PICK s \in 1 .. 7 : row.step = Steps[s]
    BY <1>5 DEF RowFits, StepIds
  <2>3. /\ Len(Units(Steps[s])) = Sizes[s] /\ Sizes[s] \in {1, 2, 3} /\ Base(Steps[s]) \in Nat
        /\ Place(Units(Steps[s])[Sizes[s]]) = Sizes[s]
    <3>1. Len(Units(Steps[s])) = Sizes[s] /\ Sizes[s] \in {1, 2, 3} /\ Base(Steps[s]) \in Nat
      BY SizeFacts
    <3>2. Sizes[s] \in 1 .. Sizes[s]
      BY <3>1
    <3>3. QED
      BY <3>1, <3>2, UnitFacts
  <2>4. Place(prev.unit) = Sizes[s]
    BY <2>1, <2>2, <2>3
  <2>5. /\ Position(row) = Base(row.step) + 2 * Len(Units(row.step)) + 2
        /\ Position(prev) = Base(prev.step) + 2 * Place(prev.unit) + 1
    BY <1>5, <2>1 DEF Position
  <2>6. QED
    BY <1>5, <2>1, <2>2, <2>3, <2>4, <2>5 DEF PlanEvents
<1>6. CASE row.event = "transaction-start"
  BY <1>6 DEF Follows, RollbackEvents
<1>7. QED
  BY <1>2, <1>3, <1>4, <1>5, <1>6 DEF PlanEvents

\* The journal with one more row that follows its last one.
LEMMA AppendRow ==
    ASSUME JournalInv, journal # <<>>, LastEvent \notin Terminal,
           NEW row \in RowType, RowFits(row), Follows(Last(journal), row),
           journal' = Append(journal, row)
    PROVE  /\ JournalInv' /\ journal' # <<>> /\ Last(journal') = row /\ LastEvent' = row.event
           /\ \A o \in Objects : Receipted(o)' <=> (Receipted(o) \/ (row.step = Home(o) /\ o \in row.receipt))
           /\ \A id : id \in RolledBack' <=>
                      (id \in RolledBack \/ (row.event = "rollback-complete" /\ row.step = id))
           /\ DOMAIN journal' = DOMAIN journal \cup {Len(journal) + 1}
           /\ \A i \in DOMAIN journal : journal'[i] = journal[i]
           /\ journal'[Len(journal) + 1] = row
<1> DEFINE n == Len(journal)
<1>1. /\ journal \in Seq(RowType) /\ n \in Nat \ {0} /\ DOMAIN journal = 1 .. n
      /\ Len(journal') = n + 1 /\ DOMAIN journal' = 1 .. n + 1 /\ journal' \in Seq(RowType)
      /\ \A i \in 1 .. n : journal'[i] = journal[i]
      /\ journal'[n + 1] = row /\ journal' # <<>>
  BY DEF JournalInv
<1>2. Last(journal) = journal[n] /\ Last(journal') = row /\ LastEvent = journal[n].event
      /\ LastEvent' = row.event
  BY <1>1 DEF Last, LastEvent
<1> HIDE DEF n
<1>3. RowFits(journal[n])
  BY <1>1 DEF JournalInv
<1>4. /\ row.event \in PlanEvents => /\ journal[n].event \in PlanEvents
                                     /\ Position(row) = Position(journal[n]) + 1
      /\ row.event # "transaction-start"
      /\ journal[n].event \in RollbackEvents => row.event \in RollbackEvents
  <2>1. row.event \in PlanEvents => /\ journal[n].event \in PlanEvents
                                    /\ Position(row) = Position(journal[n]) + 1
                                    /\ row.event # "transaction-start"
    BY <1>2, <1>3, FollowsCounts
  <2>2. row.event = "plan-complete" => journal[n].event = "step-complete"
    BY <1>2 DEF Follows, RollbackEvents
  <2>3. row.event \in PlanEvents \cup RollbackEvents \cup {"plan-complete"}
    BY DEF RowType, Events
  <2>4. QED
    BY <2>1, <2>2, <2>3, EventsApart DEF PlanEvents, RollbackEvents
<1>5. \A i \in 1 .. n :
          /\ RowFits(journal[i])
          /\ i = 1 <=> journal[i].event = "transaction-start"
          /\ i < n => journal[i].event \notin Terminal
          /\ i < n => Follows(journal[i], journal[i + 1])
          /\ journal[i].event \in PlanEvents => Position(journal[i]) = i
          /\ \A k \in 1 .. n :
                i < k /\ journal[i].event \in RollbackEvents => journal[k].event \in RollbackEvents
  BY <1>1 DEF JournalInv, n
<1>6. ASSUME NEW i \in 1 .. n + 1
      PROVE  /\ RowFits(journal'[i])
             /\ i = 1 <=> journal'[i].event = "transaction-start"
             /\ i < n + 1 => journal'[i].event \notin Terminal
             /\ i < n + 1 => Follows(journal'[i], journal'[i + 1])
             /\ journal'[i].event \in PlanEvents => Position(journal'[i]) = i
  <2>1. CASE i = n + 1
    BY <1>1, <1>4, <1>5, <2>1
  <2>2. CASE i = n
    BY <1>1, <1>2, <1>4, <1>5, <2>2
  <2>3. CASE i < n
    BY <1>1, <1>5, <2>3
  <2>4. QED
    BY <1>1, <2>1, <2>2, <2>3
<1>7. ASSUME NEW i \in 1 .. n + 1, NEW k \in 1 .. n + 1, i < k,
             journal'[i].event \in RollbackEvents
      PROVE  journal'[k].event \in RollbackEvents
  <2>1. i \in 1 .. n /\ journal[i].event \in RollbackEvents
    BY <1>1, <1>7
  <2>2. journal[n].event \in RollbackEvents
    BY <1>1, <1>5, <2>1
  <2>3. QED
    BY <1>1, <1>4, <1>5, <1>7, <2>1, <2>2
<1>8. JournalInv'
  BY <1>1, <1>6, <1>7 DEF JournalInv
<1>9. \A o \in Objects : Receipted(o)' <=> (Receipted(o) \/ (row.step = Home(o) /\ o \in row.receipt))
  BY <1>1 DEF Receipted
<1>10. \A id : id \in RolledBack' <=>
                      (id \in RolledBack \/ (row.event = "rollback-complete" /\ row.step = id))
  BY <1>1 DEF RolledBack, Rows
<1>11. DOMAIN journal' = DOMAIN journal \cup {n + 1}
  BY <1>1
<1>12. /\ DOMAIN journal' = DOMAIN journal \cup {Len(journal) + 1}
       /\ \A i \in DOMAIN journal : journal'[i] = journal[i]
       /\ journal'[Len(journal) + 1] = row
  BY <1>1, <1>11 DEF n
<1>13. QED
  BY <1>1, <1>2, <1>8, <1>9, <1>10, <1>12

\* An operation is in flight when its start is the last row.
LEMMA InFlightIs ==
    ASSUME JournalInv
    PROVE  /\ LastEvent = "operation-start" =>
                  /\ InFlight = {Len(journal)} /\ Len(journal) \in DOMAIN journal
                  /\ Last(journal) = journal[Len(journal)]
           /\ LastEvent # "operation-start" => InFlight = {}
<1> DEFINE n == Len(journal)
<1>1. journal \in Seq(RowType) /\ n \in Nat /\ DOMAIN journal = 1 .. n
  BY DEF JournalInv
<1>2. journal # <<>> => n \in 1 .. n /\ LastEvent = journal[n].event /\ Last(journal) = journal[n]
  BY <1>1 DEF LastEvent, Last
<1>3. ASSUME NEW i \in InFlight PROVE i = n
  <2>1. i \in 1 .. n /\ journal[i].event = "operation-start"
        /\ ~\E k \in i + 1 .. n : /\ journal[k].event = "operation-complete"
                                  /\ journal[k].step = journal[i].step
                                  /\ journal[k].unit = journal[i].unit
    BY <1>1 DEF InFlight, Rows
  <2> SUFFICES ASSUME i # n PROVE FALSE
    OBVIOUS
  <2>2. i < n /\ i \in Nat /\ n \in Nat
    <3> HIDE DEF n
    <3>1. i \in 1 .. n /\ n \in Nat
      BY <1>1, <2>1
    <3>2. QED
      BY <3>1
  <2>3. Follows(journal[i], journal[i + 1])
    BY <1>1, <2>1, <2>2 DEF JournalInv
  <2>4. /\ journal[i + 1].event = "operation-complete" /\ journal[i + 1].step = journal[i].step
        /\ journal[i + 1].unit = journal[i].unit
    BY <2>1, <2>3 DEF Follows
  <2>5. i + 1 \in i + 1 .. n
    <3> HIDE DEF n
    <3>1. QED
      BY <2>2
  <2>6. QED
    BY <2>1, <2>4, <2>5
<1>4. journal # <<>> /\ LastEvent = "operation-start" => n \in InFlight
  BY <1>1, <1>2 DEF InFlight, Rows
<1>5. LastEvent = "operation-start" => journal # <<>>
  BY DEF LastEvent
<1>6. ASSUME NEW i \in InFlight PROVE LastEvent = "operation-start"
  <2>1. i \in 1 .. n /\ journal[i].event = "operation-start" /\ i = n
    BY <1>1, <1>3 DEF InFlight, Rows
  <2>2. journal # <<>>
    BY <1>1, <2>1
  <2>3. QED
    BY <1>2, <2>1, <2>2
<1>7. QED
  BY <1>1, <1>2, <1>3, <1>4, <1>5, <1>6

-----------------------------------------------------------------------------
(* The steps of the program: what the journal and the host keep            *)

\* A row the installer may add to this journal on this host.
Allowed(row) ==
    /\ row \in RowType /\ RowFits(row) /\ Follows(Last(journal), row)
    /\ \/ Unobstructed
       \/ row.receipt = {} /\ (row.event = "operation-start" => row.unit = "preflight")
    /\ row.event = "operation-start" /\ row.intent = "existing" => host[row.unit] = "yes"
    /\ \A o \in Objects : Making(o) => \/ host[o] = "no"
                                       \/ host[o] = "yes" /\ o \in Kept
                                       \/ host[o] \in {"yes", "live"} /\ o \in row.receipt
    /\ row.event = "rollback-complete" =>
           \A k \in 1 .. 7 : Rollbacks[k].id = row.step => Cleared(k)
    /\ row.event = "plan-complete" => Installed
    /\ row.event = "recovery-complete" => Clean

LEMMA DurableSame ==
    ASSUME DurableInv, UNCHANGED <<journal, host, foreign>>
    PROVE  DurableInv'
<1>1. JournalInv'
  BY DEF DurableInv, JournalInv
<1>2. LastEvent' = LastEvent /\ RolledBack' = RolledBack /\ Clean' = Clean
      /\ Installed' = Installed
  BY DEF LastEvent, RolledBack, Rows, Clean, Installed, Complete
<1>3. \A o \in Objects : Accounted(o)' = Accounted(o)
  BY DEF Accounted, Receipted, Making, LastEvent
<1>4. HostInv'
  BY <1>2, <1>3 DEF DurableInv, HostInv, HostType
<1>5. ForeignInv'
  BY DEF DurableInv, ForeignInv, Unobstructed
<1>6. RolledInv'
  BY <1>2 DEF DurableInv, RolledInv, Cleared
<1>7. EndInv'
  BY <1>2 DEF DurableInv, EndInv
<1>8. QED
  BY <1>1, <1>4, <1>5, <1>6, <1>7 DEF DurableInv

\* Only the row of its outcome follows the start of an operation.
LEMMA OutcomeFollows ==
    ASSUME NEW prev, NEW row, Follows(prev, row), prev.event = "operation-start"
    PROVE  row.event = "operation-complete" /\ row.step = prev.step /\ row.unit = prev.unit
  BY DEF Follows, RollbackEvents

LEMMA AppendKeeps ==
    ASSUME DurableInv, journal # <<>>, LastEvent \notin Terminal, NEW row, Allowed(row),
           journal' = Append(journal, row), UNCHANGED <<host, foreign>>
    PROVE  /\ DurableInv' /\ journal' # <<>> /\ Last(journal') = row /\ LastEvent' = row.event
           /\ \A id : id \in RolledBack' <=>
                      (id \in RolledBack \/ (row.event = "rollback-complete" /\ row.step = id))
<1>1. /\ row \in RowType /\ RowFits(row) /\ Follows(Last(journal), row) /\ JournalInv
      /\ LastEvent = Last(journal).event
  BY DEF Allowed, DurableInv, LastEvent
<1>2. /\ JournalInv' /\ journal' # <<>> /\ Last(journal') = row /\ LastEvent' = row.event
      /\ \A o \in Objects : Receipted(o)' <=> (Receipted(o) \/ (row.step = Home(o) /\ o \in row.receipt))
      /\ \A id : id \in RolledBack' <=>
                 (id \in RolledBack \/ (row.event = "rollback-complete" /\ row.step = id))
      /\ DOMAIN journal' = DOMAIN journal \cup {Len(journal) + 1}
      /\ \A i \in DOMAIN journal : journal'[i] = journal[i]
      /\ journal'[Len(journal) + 1] = row
  BY <1>1, AppendRow
<1>3. ASSUME NEW o \in Objects PROVE Accounted(o)'
  <2>1. Accounted(o)
    BY DEF DurableInv, HostInv
  <2>2. CASE Making(o)
    <3>1. row.step = Home(o)
      BY <1>1, <2>2, OutcomeFollows DEF Making
    <3>2. \/ host[o] = "no"
          \/ host[o] = "yes" /\ o \in Kept
          \/ host[o] \in {"yes", "live"} /\ o \in row.receipt
      BY <2>2 DEF Allowed
    <3>3. QED
      BY <1>2, <3>1, <3>2 DEF Accounted
  <2>3. QED
    BY <1>2, <2>1, <2>2 DEF Accounted
<1>4. HostInv'
  <2>1. HostType'
    BY DEF DurableInv, HostInv, HostType
  <2>2. LastEvent' = "operation-start" /\ Last(journal').intent = "existing" =>
            host[Last(journal').unit] = "yes"
    BY <1>2 DEF Allowed
  <2>3. QED
    BY <1>3, <2>1, <2>2 DEF HostInv
<1>5. ForeignInv'
  BY <1>2 DEF DurableInv, ForeignInv, Unobstructed, Allowed
<1>6. RolledInv'
  <2>1. \A k \in 1 .. 7 : Cleared(k)' = Cleared(k)
    BY DEF Cleared
  <2>2. \A k \in 1 .. 7 : Rollbacks[k].id \in RolledBack => Cleared(k)
    BY DEF DurableInv, RolledInv
  <2>3. QED
    BY <1>2, <2>1, <2>2 DEF RolledInv, Allowed
<1>7. EndInv'
  <2>1. Installed' = Installed /\ Clean' = Clean
    BY DEF Installed, Complete, Clean
  <2>2. row.event # "none"
    BY <1>1 DEF RowType, Events, PlanEvents, RollbackEvents
  <2>3. QED
    BY <1>2, <2>1, <2>2 DEF EndInv, Allowed
<1>8. QED
  BY <1>2, <1>4, <1>5, <1>6, <1>7 DEF DurableInv

\* Where the loops are: the step, its unit, and the names of both.
LEMMA HereIs ==
    ASSUME PlaceInv
    PROVE  /\ Step = Steps[at.step] /\ Step \in StepIds /\ Unit = Units(Step)[at.unit]
           /\ Unit \in UnitsOf(Step) /\ Len(Units(Step)) = Sizes[at.step]
           /\ at.step \in 1 .. 7 /\ at.unit \in 1 .. Sizes[at.step]
           /\ Sizes[at.step] \in {1, 2, 3}
           /\ at.step = 1 => Step = "validate" /\ Unit = "preflight"
           /\ at.step = 7 => Step = "authority" /\ Sizes[7] = 3
           /\ at.step = 7 /\ at.unit = 1 => Unit = "activation"
           /\ at.step = 7 /\ at.unit = 2 => Unit = "kickstart"
           /\ at.step = 7 /\ at.unit = 3 => Unit = "final"
<1>1. at.step \in 1 .. 7 /\ at.unit \in 1 .. Sizes[at.step]
  BY DEF PlaceInv
<1>2. Step = Steps[at.step] /\ Unit = Units(Step)[at.unit]
  BY DEF Step, Unit
<1>3. Step \in StepIds /\ Len(Units(Step)) = Sizes[at.step] /\ Sizes[at.step] \in {1, 2, 3}
  BY <1>1, <1>2, SizeFacts
<1>4. Unit \in UnitsOf(Step)
  BY <1>1, <1>2, UnitFacts
<1>5. at.step = 1 => Step = "validate" /\ Unit = "preflight"
  BY <1>1, <1>2, StepTable, UnitTable, SizeTable
<1>6. at.step = 7 => /\ Step = "authority" /\ Sizes[7] = 3
                     /\ at.unit = 1 => Unit = "activation"
                     /\ at.unit = 2 => Unit = "kickstart"
                     /\ at.unit = 3 => Unit = "final"
  BY <1>1, <1>2, StepTable, UnitTable, SizeTable
<1>7. QED
  BY <1>1, <1>2, <1>3, <1>4, <1>5, <1>6

\* An operation of the last step but one, or of no step, has no last unit there.
LEMMA LastStepIs ==
    ASSUME PlaceInv, Unit \in {"activation", "kickstart", "final"}
    PROVE  /\ at.step = 7
           /\ Unit = "kickstart" => at.unit = 2
           /\ Unit = "final" => at.unit = 3
<1>1. Step = "authority"
  BY HereIs, StepIdsAre, UnitsOfAre
<1>2. at.step = 7
  BY <1>1, HereIs, StepTable
<1>3. at.unit \in 1 .. 3
  BY <1>2, HereIs
<1>4. QED
  BY <1>2, <1>3, HereIs

\* The process has ended, by an exit or by a kill.
LEMMA ExitKeeps ==
    ASSUME DurableInv', Exit
    PROVE  InstallInv'
<1>1. pc' = "idle" /\ at' = First /\ rolling' = 1 /\ failed' = FALSE
  BY DEF Exit, First
<1>2. PlaceInv'
  <2>1. /\ at' = [step |-> at'.step, unit |-> at'.unit]
        /\ at'.step \in 1 .. 7 /\ at'.unit \in 1 .. Sizes[at'.step]
    BY <1>1, SizeTable DEF First
  <2>2. pc' \in Places /\ rolling' \in 1 .. 8 /\ pc' \notin Rolls
    BY <1>1 DEF Places, Rolls, Undoing
  <2>3. failed' \in BOOLEAN
    BY <1>1
  <2>4. QED
    BY <1>1, <2>1, <2>2, <2>3 DEF PlaceInv, Rolls
<1>3. LoopInv'
  BY <1>1 DEF LoopInv, Rolls, Undoing
<1>4. WorkInv'
  BY <1>1 DEF WorkInv, Rolls, Undoing, Loops
<1>5. QED
  BY <1>2, <1>3, <1>4 DEF InstallInv

\* An exception inside the loops leads to the recovery of the ownership.
LEMMA RecoverKeeps ==
    ASSUME PlaceInv, pc \in Loops \cup {"idle"}, DurableInv', Continue("own"),
           journal' # <<>>, LastEvent' \notin Terminal
    PROVE  InstallInv'
<1>1. pc' = "own" /\ at' = at /\ rolling' = 1 /\ failed' = FALSE
  <2>1. pc \notin Rolls
    BY DEF Loops, Rolls, Undoing
  <2>2. QED
    BY <2>1 DEF Continue, PlaceInv
<1>2. PlaceInv'
  <2>1. /\ at' = [step |-> at'.step, unit |-> at'.unit]
        /\ at'.step \in 1 .. 7 /\ at'.unit \in 1 .. Sizes[at'.step]
    BY <1>1 DEF PlaceInv
  <2>2. pc' \in Places /\ rolling' \in 1 .. 8 /\ pc' \notin Rolls
    BY <1>1 DEF Places, Rolls, Undoing
  <2>3. failed' \in BOOLEAN
    BY <1>1
  <2>4. QED
    BY <1>1, <2>1, <2>2, <2>3 DEF PlaceInv, Rolls
<1>3. LoopInv'
  BY <1>1 DEF LoopInv, Rolls, Undoing
<1>4. WorkInv'
  BY <1>1 DEF WorkInv, Rolls, Undoing, Loops
<1>5. QED
  BY <1>2, <1>3, <1>4 DEF InstallInv

\* What a record of the loops leaves: the invariant, or the row and the place it
\* leads to.
LEMMA RecordKeeps ==
    ASSUME InstallInv, pc \in Loops, NEW row, NEW where, Record(row, where), Allowed(row),
           row.event \notin Terminal
    PROVE  \/ InstallInv'
           \/ /\ DurableInv' /\ journal' # <<>> /\ Last(journal') = row /\ LastEvent' = row.event
              /\ pc' = where.pc /\ at' = where.at
              /\ UNCHANGED <<rolling, failed, host, foreign>>
<1>1. PlaceInv /\ DurableInv /\ journal # <<>> /\ LastEvent \notin Terminal
  <2>1. pc # "idle"
    BY DEF Loops
  <2>2. QED
    BY <2>1 DEF InstallInv, PlaceInv
<1>2. UNCHANGED <<host, foreign>>
  BY DEF Record
<1>3. ASSUME journal' = Append(journal, row)
      PROVE  DurableInv' /\ journal' # <<>> /\ Last(journal') = row /\ LastEvent' = row.event
  BY <1>1, <1>2, <1>3, AppendKeeps
<1>4. CASE Written(row) /\ pc' = where.pc /\ at' = where.at /\ UNCHANGED <<rolling, failed>>
  BY <1>2, <1>3, <1>4 DEF Written, Durable
<1>5. CASE Broken(row) /\ (Continue("own") \/ Exit)
  <2>1. DurableInv' /\ journal' # <<>> /\ LastEvent' \notin Terminal
    <3>1. CASE journal' = Append(journal, row)
      BY <1>3, <3>1
    <3>2. CASE journal' = journal
      BY <1>1, <1>2, <3>2, DurableSame DEF LastEvent
    <3>3. QED
      BY <1>5, <3>1, <3>2 DEF Broken, Durable
  <2>2. QED
    BY <1>1, <1>5, <2>1, ExitKeeps, RecoverKeeps
<1>6. QED
  BY <1>4, <1>5 DEF Record

\* The loops go on to another place.
LEMMA LoopPlace ==
    ASSUME PlaceInv, pc \in Loops \cup {"idle"}, pc' \in Loops, UNCHANGED <<rolling, failed>>,
           at' = [step |-> at'.step, unit |-> at'.unit], at'.step \in 1 .. 7,
           at'.unit \in 1 .. Sizes[at'.step], journal' # <<>>, LastEvent' \notin Terminal
    PROVE  PlaceInv'
<1>1. pc' \in Places /\ pc' \notin Rolls /\ pc' # "idle" /\ pc \notin Rolls
  BY DEF Places, Loops, Rolls, Undoing
<1>2. rolling' = 1 /\ ~failed'
  BY <1>1 DEF PlaceInv
<1>3. rolling' \in 1 .. 8
  BY <1>2
<1>4. failed' \in BOOLEAN
  BY DEF PlaceInv
<1>5. /\ pc' = "idle" => at' = First
      /\ pc' \notin Rolls => rolling' = 1 /\ ~failed'
      /\ pc' \in Undoing => rolling' <= 7
      /\ pc' = "unsettled" => failed'
  BY <1>1, <1>2 DEF Rolls, Undoing
<1>6. QED
  BY <1>1, <1>3, <1>4, <1>5, Zenon DEF PlaceInv

\* An object that is being made is the object of the operation in flight.
LEMMA MakerIs ==
    ASSUME NEW o \in Objects
    PROVE  /\ ObjectOf(Maker(o)) = o /\ Maker(o) \notin ReadOnly \cup {"kickstart"}
           /\ o \in Kept => Maker(o) = o
  BY DEF Objects, ObjectOf, Maker, ReadOnly, Kept

LEMMA MarkFits ==
    ASSUME NEW event \in Events \ {"operation-start", "operation-complete", "step-complete"},
           NEW step \in StepIds \cup RollbackIds \cup {"none"},
           event = "step-start" => step \in StepIds
    PROVE  /\ Mark(event, step) \in RowType /\ RowFits(Mark(event, step))
           /\ Mark(event, step).event = event /\ Mark(event, step).step = step
           /\ Mark(event, step).unit = "none" /\ Mark(event, step).intent = "none"
           /\ Mark(event, step).receipt = {}
  BY DEF Mark, Row, RowType, RowFits

\* Outside an operation nothing is being made.
LEMMA NothingMaking ==
    ASSUME LastEvent # "operation-start", DurableInv
    PROVE  /\ \A o \in Objects : ~Making(o)
           /\ \A o \in Objects : \/ host[o] = "no"
                                 \/ host[o] = "yes" /\ o \in Kept \cup foreign
                                 \/ host[o] \in {"yes", "live"} /\ Receipted(o)
  BY DEF Making, DurableInv, HostInv, Accounted

LEMMA BeginKeeps ==
    ASSUME InstallInv, Begin
    PROVE  InstallInv'
<1> DEFINE row == Mark("transaction-start", "none")
<1>1. /\ DurableInv /\ PlaceInv /\ pc = "idle" /\ LastEvent \in {"none", "recovery-complete"}
      /\ UNCHANGED <<host, foreign>>
  BY DEF InstallInv, Begin
<1>2. /\ row \in RowType /\ RowFits(row) /\ row.event = "transaction-start" /\ row.receipt = {}
      /\ row.step = "none"
  BY MarkFits DEF Events, PlanEvents
<1>3. ASSUME journal' = <<row>> PROVE DurableInv' /\ journal' # <<>> /\ LastEvent' = row.event
  <2>1. /\ journal' \in Seq(RowType) /\ Len(journal') = 1 /\ DOMAIN journal' = {1}
        /\ journal'[1] = row /\ journal' # <<>>
    BY <1>2, <1>3
  <2>2. LastEvent' = row.event
    BY <2>1 DEF LastEvent, Last
  <2>3. JournalInv'
    <3>1. Position(row) = 1 /\ row.event \notin RollbackEvents
      BY <1>2 DEF Position, RollbackEvents
    <3>2. QED
      BY <1>2, <2>1, <3>1 DEF JournalInv
  <2>4. Clean /\ HostType
    BY <1>1 DEF DurableInv, EndInv, HostInv
  <2>5. HostInv'
    BY <1>1, <1>2, <2>2, <2>4 DEF HostInv, HostType, Clean, Accounted
  <2>6. ForeignInv'
    BY <1>1, <1>2, <2>1 DEF DurableInv, ForeignInv, Unobstructed
  <2>7. RolledInv'
    BY <1>2, <2>1 DEF RolledInv, RolledBack, Rows
  <2>8. EndInv'
    BY <1>2, <2>2 DEF EndInv
  <2>9. QED
    BY <2>1, <2>2, <2>3, <2>5, <2>6, <2>7, <2>8 DEF DurableInv
<1>4. CASE journal' = <<row>> /\ Continue("step")
  <2>1. at' = First /\ pc' = "step" /\ UNCHANGED <<rolling, failed>>
    BY <1>1, <1>4 DEF Continue, PlaceInv
  <2>2. PlaceInv'
    <3>1. /\ at' = [step |-> at'.step, unit |-> at'.unit] /\ at'.step \in 1 .. 7
          /\ at'.unit \in 1 .. Sizes[at'.step]
      BY <2>1, SizeTable DEF First
    <3>2. LastEvent' \notin Terminal
      BY <1>2, <1>3, <1>4 DEF Terminal
    <3>3. QED
      BY <1>1, <1>3, <1>4, <2>1, <3>1, <3>2, LoopPlace DEF Loops
  <2>3. LoopInv'
    BY <1>2, <1>3, <1>4, <2>1 DEF LoopInv, First, Rolls, Undoing
  <2>4. WorkInv'
    BY <2>1 DEF WorkInv, First, Rolls, Undoing
  <2>5. QED
    BY <1>3, <1>4, <2>2, <2>3, <2>4 DEF InstallInv
<1>5. CASE Exit /\ (journal' = <<row>> \/ journal' = journal)
  BY <1>1, <1>3, <1>5, ExitKeeps, DurableSame
<1>6. QED
  BY <1>4, <1>5 DEF Begin

LEMMA ResumeKeeps ==
    ASSUME InstallInv, Resume
    PROVE  InstallInv'
<1>1. /\ DurableInv /\ PlaceInv /\ pc = "idle" /\ LastEvent \notin Terminal \cup {"none"}
      /\ UNCHANGED <<journal, host, foreign>> /\ Continue("own")
  BY DEF InstallInv, Resume
<1>2. journal # <<>>
  BY <1>1 DEF LastEvent
<1>3. QED
  BY <1>1, <1>2, DurableSame, RecoverKeeps DEF LastEvent

LEMMA StartStepKeeps ==
    ASSUME InstallInv, StartStep
    PROVE  InstallInv'
<1> DEFINE row == Mark("step-start", Step)
           where == [pc |-> "intent", at |-> at]
<1>1. /\ DurableInv /\ PlaceInv /\ LoopInv /\ WorkInv /\ pc = "step" /\ Record(row, where)
      /\ journal # <<>>
  BY DEF InstallInv, StartStep, PlaceInv
<1>2. /\ Step = Steps[at.step] /\ Step \in StepIds /\ at.step \in 1 .. 7
  BY <1>1, HereIs
<1>3. /\ at.unit = 1
      /\ \/ at.step = 1 /\ LastEvent = "transaction-start"
         \/ at.step > 1 /\ LastEvent = "step-complete" /\ Last(journal).step = Steps[at.step - 1]
  BY <1>1 DEF LoopInv
<1>4. /\ row \in RowType /\ RowFits(row) /\ row.event = "step-start" /\ row.step = Step
      /\ row.receipt = {}
  BY <1>2, MarkFits DEF Events, PlanEvents
<1>5. Follows(Last(journal), row)
  <2>1. LastEvent = Last(journal).event
    BY <1>1 DEF LastEvent
  <2>2. CASE at.step = 1
    BY <1>2, <1>3, <1>4, <2>1, <2>2 DEF Follows
  <2>3. CASE at.step > 1
    <3>1. at.step - 1 \in 1 .. 6 /\ (at.step - 1) + 1 = at.step
      BY <1>2, <2>3
    <3>2. QED
      BY <1>2, <1>3, <1>4, <2>1, <2>3, <3>1 DEF Follows
  <2>4. QED
    BY <1>2, <2>2, <2>3
<1>6. Allowed(row)
  <2>1. \A o \in Objects : ~Making(o)
    BY <1>1, <1>3, NothingMaking
  <2>2. QED
    BY <1>4, <1>5, <2>1 DEF Allowed
<1>7. SUFFICES ASSUME DurableInv', journal' # <<>>, Last(journal') = row, LastEvent' = row.event,
                      pc' = "intent", at' = at, UNCHANGED <<rolling, failed, host, foreign>>
               PROVE  InstallInv'
  BY <1>1, <1>4, <1>6, RecordKeeps DEF Loops, Terminal
<1>8. PlaceInv'
  BY <1>1, <1>4, <1>7, LoopPlace DEF PlaceInv, Loops, Terminal
<1>9. LoopInv'
  BY <1>3, <1>4, <1>7 DEF LoopInv, Rolls, Undoing, Step
<1>10. WorkInv'
  BY <1>1, <1>3, <1>7 DEF WorkInv, Rolls, Undoing, Loops, Unobstructed
<1>11. QED
  BY <1>7, <1>8, <1>9, <1>10 DEF InstallInv

LEMMA StartOperationKeeps ==
    ASSUME InstallInv, StartOperation
    PROVE  InstallInv'
<1> DEFINE row == Row("operation-start", Step, Unit, IntentOf(Unit), {})
           where == [pc |-> "apply", at |-> at]
<1>1. /\ DurableInv /\ PlaceInv /\ LoopInv /\ WorkInv /\ pc = "intent" /\ Record(row, where)
      /\ journal # <<>>
  BY DEF InstallInv, StartOperation, PlaceInv
<1>2. /\ Step = Steps[at.step] /\ Step \in StepIds /\ at.step \in 1 .. 7
      /\ Unit = Units(Step)[at.unit] /\ Unit \in UnitsOf(Step) /\ at.unit \in 1 .. Sizes[at.step]
      /\ Len(Units(Step)) = Sizes[at.step] /\ Sizes[at.step] \in {1, 2, 3}
      /\ at.step = 1 => Unit = "preflight"
  BY <1>1, HereIs
<1>3. /\ Last(journal).step = Step
      /\ \/ at.unit = 1 /\ LastEvent = "step-start"
         \/ /\ at.unit > 1 /\ LastEvent = "operation-complete"
            /\ Last(journal).unit = Units(Step)[at.unit - 1]
  BY <1>1 DEF LoopInv
<1>4. Unit \in UnitIds /\ IntentOf(Unit) \in {"none", "existing", "absent"}
  BY <1>2, UnitsMake DEF IntentOf
<1>5. /\ row \in RowType /\ RowFits(row) /\ row.event = "operation-start" /\ row.step = Step
      /\ row.unit = Unit /\ row.receipt = {} /\ row.intent = IntentOf(Unit)
  BY <1>2, <1>4 DEF Row, RowType, RowFits, Events, PlanEvents, IntentOf
<1>6. Follows(Last(journal), row)
  <2>1. LastEvent = Last(journal).event
    BY <1>1 DEF LastEvent
  <2>2. CASE at.unit = 1
    <3>1. row.unit = Units(row.step)[1] /\ Last(journal).step = row.step
      BY <1>2, <1>3, <1>5, <2>2
    <3>2. Last(journal).event = "step-start"
      BY <1>2, <1>3, <2>1, <2>2
    <3>3. QED
      BY <1>5, <3>1, <3>2, Zenon DEF Follows
  <2>3. CASE at.unit > 1
    <3>1. at.unit - 1 \in 1 .. Len(Units(Step)) - 1 /\ (at.unit - 1) + 1 = at.unit
      BY <1>2, <2>3
    <3>2. QED
      BY <1>2, <1>3, <1>5, <2>1, <2>3, <3>1 DEF Follows
  <2>4. QED
    BY <1>2, <2>2, <2>3
<1>7. Allowed(row)
  <2>1. \A o \in Objects : ~Making(o)
    BY <1>1, <1>3, NothingMaking
  <2>2. Unobstructed \/ Unit = "preflight"
    BY <1>1, <1>2 DEF WorkInv, First, Loops
  <2>3. IntentOf(Unit) = "existing" => host[Unit] = "yes"
    <3>1. SUFFICES ASSUME IntentOf(Unit) = "existing" PROVE host[Unit] = "yes"
      OBVIOUS
    <3>2. Unit \in Kept /\ host[Unit] # "no"
      BY <3>1 DEF IntentOf
    <3>3. Unit \in Objects /\ Unit # "registration"
      BY <3>2 DEF Kept, Objects
    <3>4. host[Unit] # "live"
      BY <1>1, <3>3 DEF DurableInv, HostInv, HostType
    <3>5. QED
      BY <1>1, <1>3, <3>2, <3>3, <3>4, NothingMaking
  <2>4. QED
    BY <1>5, <1>6, <2>1, <2>2, <2>3 DEF Allowed
<1>8. SUFFICES ASSUME DurableInv', journal' # <<>>, Last(journal') = row, LastEvent' = row.event,
                      pc' = "apply", at' = at, UNCHANGED <<rolling, failed, host, foreign>>
               PROVE  InstallInv'
  BY <1>1, <1>5, <1>7, RecordKeeps DEF Loops, Terminal
<1>9. PlaceInv'
  BY <1>1, <1>5, <1>8, LoopPlace DEF PlaceInv, Loops, Terminal
<1>10. LoopInv'
  BY <1>5, <1>8 DEF LoopInv, Rolls, Undoing, Step, Unit
<1>11. WorkInv'
  BY <1>1, <1>8 DEF WorkInv, Rolls, Undoing, Loops, Unobstructed
<1>12. QED
  BY <1>8, <1>9, <1>10, <1>11 DEF InstallInv

\* No rollback has been completed while a row of the plan is the last one.
LEMMA NothingRolledBack ==
    ASSUME JournalInv, LastEvent \in PlanEvents
    PROVE  RolledBack = {}
<1>1. journal \in Seq(RowType) /\ Len(journal) \in Nat /\ DOMAIN journal = 1 .. Len(journal)
  BY DEF JournalInv
<1>2. journal # <<>> /\ LastEvent = journal[Len(journal)].event
  BY DEF LastEvent, Last, PlanEvents
<1>3. Len(journal) \in 1 .. Len(journal)
  BY <1>1, <1>2
<1>4. ASSUME NEW i \in DOMAIN journal, journal[i].event = "rollback-complete" PROVE FALSE
  <2>1. journal[i].event \in RollbackEvents /\ journal[Len(journal)].event \notin RollbackEvents
    BY <1>2, <1>4, EventsApart DEF RollbackEvents
  <2>2. i # Len(journal)
    BY <2>1
  <2>3. i \in 1 .. Len(journal) /\ i < Len(journal)
    BY <1>1, <2>2
  <2>4. QED
    BY <1>1, <1>3, <2>1, <2>3 DEF JournalInv
<1>5. QED
  BY <1>4 DEF RolledBack, Rows

\* An operation, or its reconciliation, changes the object it makes, removes one
\* or completes one the transaction owns.
LEMMA WorkedKeeps ==
    ASSUME DurableInv, LastEvent = "operation-start", UNCHANGED <<journal, foreign>>, HostType',
           Last(journal).intent = "existing" => host'[Last(journal).unit] = "yes",
           \A o \in Objects : \/ Making(o) \/ host'[o] = host[o] \/ host'[o] = "no"
                              \/ Receipted(o) /\ host'[o] \in {"yes", "live"},
           Unobstructed \/ host' = host
    PROVE  DurableInv'
<1>1. JournalInv' /\ LastEvent' = "operation-start" /\ RolledBack' = RolledBack
  BY DEF DurableInv, JournalInv, LastEvent, RolledBack, Rows
<1>2. RolledBack = {}
  BY NothingRolledBack DEF DurableInv, PlanEvents
<1>3. ASSUME NEW o \in Objects PROVE Accounted(o)'
  <2>1. Accounted(o) /\ Making(o)' = Making(o) /\ Receipted(o)' = Receipted(o)
    BY DEF DurableInv, HostInv, Making, Receipted, LastEvent
  <2>2. QED
    BY <2>1 DEF Accounted
<1>4. HostInv'
  BY <1>3 DEF HostInv
<1>5. ForeignInv'
  BY DEF DurableInv, ForeignInv, Unobstructed
<1>6. RolledInv' /\ EndInv'
  BY <1>1, <1>2 DEF RolledInv, EndInv
<1>7. QED
  BY <1>1, <1>4, <1>5, <1>6 DEF DurableInv

\* Applying an operation, whole or cut short, keeps what the journal and the host
\* hold.
LEMMA ApplyHost ==
    ASSUME InstallInv, pc = "apply", Applicable(Unit), host' \in KilledIn(Unit),
           UNCHANGED <<journal, foreign>>
    PROVE  Unobstructed /\ DurableInv'
<1>1. /\ DurableInv /\ PlaceInv /\ WorkInv /\ HostType /\ LastEvent = "operation-start"
      /\ Last(journal).step = Step /\ Last(journal).unit = Unit /\ journal # <<>>
      /\ Last(journal).intent = "existing" => host[Unit] = "yes"
      /\ Unobstructed \/ at = First
  BY DEF InstallInv, LoopInv, PlaceInv, DurableInv, HostInv, WorkInv, Loops
<1>2. Step \in StepIds /\ Unit \in UnitsOf(Step) /\ (at = First => Unit = "preflight")
  BY <1>1, HereIs DEF First
<1>3. Unobstructed
  <2>1. SUFFICES ASSUME ~Unobstructed PROVE FALSE
    OBVIOUS
  <2>2. PICK o \in foreign \cap Objects : o \notin Kept
    BY <2>1 DEF Unobstructed
  <2>3. host[o] = "yes"
    BY <1>1, <2>1, <2>2 DEF DurableInv, ForeignInv
  <2>4. Unit = "preflight"
    BY <1>1, <1>2, <2>1
  <2>5. host[o] \in {"no"}
    <3>1. Applicable("preflight")
      BY <2>4
    <3>2. Unoccupied
      BY <3>1 DEF Applicable
    <3>3. QED
      BY <2>2, <3>2 DEF Unoccupied
  <2>6. QED
    BY <2>3, <2>5
<1>4. Last(journal).intent = "existing" => Unit \in Kept
  <2>1. /\ Len(journal) \in DOMAIN journal /\ Last(journal) = journal[Len(journal)]
    BY <1>1, InFlightIs DEF DurableInv
  <2>2. RowFits(Last(journal))
    BY <1>1, <2>1 DEF DurableInv, JournalInv
  <2>3. Last(journal).event = "operation-start"
    BY <1>1 DEF LastEvent
  <2>4. QED
    BY <1>1, <2>2, <2>3 DEF RowFits
<1> DEFINE Fine == /\ HostType'
                   /\ Last(journal).intent = "existing" => host'[Unit] = "yes"
                   /\ \A o \in Objects : \/ Making(o) \/ host'[o] = host[o] \/ host'[o] = "no"
                                         \/ Receipted(o) /\ host'[o] \in {"yes", "live"}
<1> SUFFICES Fine
  BY <1>1, <1>3, WorkedKeeps
<1>5. CASE host' = host
  BY <1>1, <1>5 DEF HostType
<1>6. CASE Unit \in ReadOnly
  <2>1. host' = host
    BY <1>6 DEF KilledIn, Applied, Halfway, ReadOnly, Published, Created
  <2>2. QED
    BY <1>5, <2>1
<1>7. CASE Unit = "activation"
  <2>1. CASE host' = [host EXCEPT !["authority"] = "yes", !["candidate"] = "no"]
    <3>1. HostType'
      BY <1>1, <2>1 DEF HostType, Objects, Stages
    <3>2. Making("authority")
      BY <1>1, <1>2, <1>7, UnitsMake DEF Making, Home, Maker, StepIds, ReadOnly, ObjectOf, Objects
    <3>3. \A o \in Objects : Making(o) \/ host'[o] = host[o] \/ host'[o] = "no"
      BY <1>1, <2>1, <3>2 DEF HostType, Objects
    <3>4. QED
      BY <1>4, <1>7, <3>1, <3>3 DEF Kept
  <2>2. CASE host' = [host EXCEPT !["authority"] = "both"]
    <3>1. HostType'
      BY <1>1, <2>2 DEF HostType, Objects, Stages, Published
    <3>2. Making("authority")
      BY <1>1, <1>2, <1>7, UnitsMake DEF Making, Home, Maker, StepIds, ReadOnly, ObjectOf, Objects
    <3>3. \A o \in Objects : Making(o) \/ host'[o] = host[o]
      BY <1>1, <2>2, <3>2 DEF HostType, Objects
    <3>4. QED
      BY <1>4, <1>7, <3>1, <3>3 DEF Kept
  <2>3. QED
    BY <1>5, <1>7, <2>1, <2>2 DEF KilledIn, Applied, Halfway, ReadOnly, Published, Created
<1>8. CASE Unit = "kickstart"
  <2>1. CASE host' = [host EXCEPT !["registration"] = "live"]
    <3>1. HostType'
      BY <1>1, <2>1 DEF HostType, Objects, Stages
    <3>2. Receipted("registration")
      <4>1. host["registration"] # "no"
        BY <1>8 DEF Applicable
      <4>2. ~Making("registration")
        BY <1>1, <1>8 DEF Making, Maker
      <4>3. "registration" \in Objects /\ "registration" \notin Kept \cup foreign
        BY <1>3 DEF Objects, Kept, Unobstructed
      <4>4. Accounted("registration")
        BY <1>1, <4>3 DEF DurableInv, HostInv
      <4>5. QED
        BY <4>1, <4>2, <4>3, <4>4 DEF Accounted
    <3>3. \A o \in Objects : \/ host'[o] = host[o]
                             \/ Receipted(o) /\ host'[o] \in {"yes", "live"}
      BY <1>1, <2>1, <3>2 DEF HostType, Objects
    <3>4. QED
      BY <1>4, <1>8, <3>1, <3>3 DEF Kept
  <2>2. QED
    BY <1>5, <1>8, <2>1 DEF KilledIn, Applied, Halfway, ReadOnly, Published, Created
<1>9. CASE Unit \notin ReadOnly \cup {"activation", "kickstart"}
  <2>1. Unit \in Objects /\ Home(Unit) = Step /\ Maker(Unit) = Unit
    <3>1. ObjectOf(Unit) = Unit
      BY <1>9 DEF ObjectOf
    <3>2. QED
      BY <1>2, <1>9, <3>1, UnitsMake
  <2>2. Making(Unit)
    BY <1>1, <2>1 DEF Making
  <2>3. ASSUME NEW found \in Stages, host' = [host EXCEPT ![Unit] = found], found # "live",
               found = "temp" => Unit \in Published, found = "both" => Unit \in Published,
               found = "raw" => Unit \in Created, found = "yes" \/ host[Unit] = "no"
        PROVE  Fine
    <3>1. HostType'
      BY <1>1, <2>1, <2>3 DEF HostType
    <3>2. \A o \in Objects : Making(o) \/ host'[o] = host[o]
      BY <1>1, <2>2, <2>3 DEF HostType
    <3>3. host[Unit] = "yes" => host'[Unit] = "yes"
      BY <1>1, <2>1, <2>3 DEF HostType
    <3>4. QED
      BY <1>1, <3>1, <3>2, <3>3
  <2>4. \/ host' = host
        \/ host' = [host EXCEPT ![Unit] = "yes"]
        \/ host[Unit] = "no" /\ Unit \in Published /\ host' = [host EXCEPT ![Unit] = "temp"]
        \/ host[Unit] = "no" /\ Unit \in Published /\ host' = [host EXCEPT ![Unit] = "both"]
        \/ host[Unit] = "no" /\ Unit \in Created /\ host' = [host EXCEPT ![Unit] = "raw"]
    BY <1>9 DEF KilledIn, Applied, Halfway
  <2>5. QED
    BY <1>5, <2>3, <2>4 DEF Stages
<1>10. QED
  BY <1>6, <1>7, <1>8, <1>9

LEMMA ApplyKeeps ==
    ASSUME InstallInv, Apply
    PROVE  InstallInv'
<1>1. /\ DurableInv /\ PlaceInv /\ LoopInv /\ WorkInv /\ pc = "apply"
      /\ UNCHANGED <<journal, foreign>> /\ journal # <<>> /\ LastEvent \notin Terminal
      /\ LastEvent = "operation-start" /\ Last(journal).step = Step /\ Last(journal).unit = Unit
  BY DEF InstallInv, Apply, PlaceInv, LoopInv
<1>2. journal' # <<>> /\ LastEvent' = LastEvent /\ Last(journal') = Last(journal)
  BY <1>1 DEF LastEvent
<1>3. CASE ~Applicable(Unit)
  <2>1. host' = host /\ Continue("own")
    BY <1>3 DEF Apply
  <2>2. DurableInv'
    BY <1>1, <2>1, DurableSame
  <2>3. QED
    BY <1>1, <1>2, <2>1, <2>2, RecoverKeeps DEF Loops
<1>4. CASE Applicable(Unit) /\ host' = Applied(Unit) /\ Continue("done")
  <2>1. Unobstructed /\ DurableInv'
    BY <1>1, <1>4, ApplyHost DEF KilledIn
  <2>2. pc' = "done" /\ at' = at /\ UNCHANGED <<rolling, failed>>
    BY <1>4 DEF Continue
  <2>3. PlaceInv'
    BY <1>1, <1>2, <2>2, LoopPlace DEF PlaceInv, Loops
  <2>4. LoopInv'
    BY <1>1, <1>2, <2>2 DEF LoopInv, Rolls, Undoing, Step, Unit
  <2>5. Unit' = Unit
    BY <2>2 DEF Unit, Step
  <2>6. Step \in StepIds /\ Unit \in UnitsOf(Step)
        /\ (at.step = 7 /\ at.unit = 2 => Unit = "kickstart")
        /\ (at.step = 7 /\ at.unit = 3 => Unit = "final")
    BY <1>1, HereIs
  <2>7. HostType
    BY <1>1 DEF DurableInv, HostInv
  <2>8. Unit \notin ReadOnly \cup {"kickstart"} => host'[ObjectOf(Unit)] = "yes"
    <3>1. SUFFICES ASSUME Unit \notin ReadOnly \cup {"kickstart"}
                   PROVE  host'[ObjectOf(Unit)] = "yes"
      OBVIOUS
    <3>2. CASE Unit = "activation"
      BY <1>4, <2>7, <3>2 DEF Applied, ReadOnly, ObjectOf, HostType, Objects
    <3>3. CASE Unit # "activation"
      <4>1. ObjectOf(Unit) = Unit /\ Unit \in Objects
        <5>1. ObjectOf(Unit) = Unit
          BY <3>1, <3>3 DEF ObjectOf
        <5>2. QED
          BY <2>6, <3>1, <5>1, UnitsMake
      <4>2. host' = [host EXCEPT ![Unit] = "yes"]
        BY <1>4, <3>1, <3>3 DEF Applied
      <4>3. QED
        BY <2>7, <4>1, <4>2 DEF HostType
    <3>4. QED
      BY <3>2, <3>3
  <2>9. at.step = 7 /\ at.unit = 2 => host'["registration"] = "live"
    BY <1>4, <2>6, <2>7 DEF Applied, HostType, Objects, ReadOnly
  <2>10. at.step = 7 /\ at.unit = 3 => host' = host /\ Installed
    <3>1. SUFFICES ASSUME at.step = 7, at.unit = 3 PROVE host' = host /\ Installed
      OBVIOUS
    <3>2. Unit = "final"
      BY <2>6, <3>1
    <3>3. host' = host /\ Complete
      BY <1>4, <3>2 DEF Applied, ReadOnly, Applicable
    <3>4. host["registration"] = "live"
      BY <1>1, <3>1 DEF WorkInv, Loops
    <3>5. QED
      BY <3>3, <3>4 DEF Installed
  <2>11. WorkInv'
    <3>1. Unobstructed'
      BY <1>1, <2>1 DEF Unobstructed
    <3>2. at.step = 7 /\ at.unit = 3 => Installed' /\ host'["registration"] = "live"
      BY <2>10 DEF Installed, Complete
    <3>3. QED
      BY <2>2, <2>5, <2>8, <2>9, <3>1, <3>2 DEF WorkInv, Rolls, Undoing
  <2>12. QED
    BY <2>1, <2>3, <2>4, <2>11 DEF InstallInv
<1>5. CASE Applicable(Unit) /\ host' \in FailedIn(Unit) /\ Continue("own")
  <2>1. DurableInv'
    BY <1>1, <1>5, ApplyHost DEF FailedIn
  <2>2. QED
    BY <1>1, <1>2, <1>5, <2>1, RecoverKeeps DEF Loops
<1>6. CASE Applicable(Unit) /\ host' \in KilledIn(Unit) /\ Exit
  BY <1>1, <1>6, ApplyHost, ExitKeeps
<1>7. QED
  BY <1>3, <1>4, <1>5, <1>6 DEF Apply

LEMMA CompleteOperationKeeps ==
    ASSUME InstallInv, CompleteOperation
    PROVE  InstallInv'
<1> DEFINE row == Row("operation-complete", Step, Unit, "none", OperationReceipt)
           where == IF at.unit < Len(Units(Step))
                    THEN [pc |-> "intent", at |-> [at EXCEPT !.unit = @ + 1]]
                    ELSE [pc |-> "ended", at |-> at]
<1>1. /\ DurableInv /\ PlaceInv /\ LoopInv /\ WorkInv /\ pc = "done" /\ Record(row, where)
      /\ journal # <<>> /\ Unobstructed
  BY DEF InstallInv, CompleteOperation, PlaceInv, WorkInv, Loops
<1>2. /\ Step = Steps[at.step] /\ Step \in StepIds /\ at.step \in 1 .. 7
      /\ Unit = Units(Step)[at.unit] /\ Unit \in UnitsOf(Step) /\ at.unit \in 1 .. Sizes[at.step]
      /\ Len(Units(Step)) = Sizes[at.step] /\ Sizes[at.step] \in {1, 2, 3}
      /\ at = [step |-> at.step, unit |-> at.unit]
  BY <1>1, HereIs DEF PlaceInv
<1>3. LastEvent = "operation-start" /\ Last(journal).step = Step /\ Last(journal).unit = Unit
  BY <1>1 DEF LoopInv
<1>4. Unit \in UnitIds /\ (Unit \notin ReadOnly => ObjectOf(Unit) \in Objects)
  <2>1. "registration" \in Objects
    BY DEF Objects
  <2>2. QED
    BY <1>2, <2>1, UnitsMake
<1>5. /\ OperationReceipt \subseteq Objects
      /\ OperationReceipt \subseteq IF Unit \notin ReadOnly THEN {ObjectOf(Unit)} ELSE {}
  BY <1>4 DEF OperationReceipt
<1>6. /\ row.event = "operation-complete" /\ row.step = Step /\ row.unit = Unit
      /\ row.receipt = OperationReceipt /\ row.intent = "none"
  BY DEF Row
<1>7. row \in RowType
  BY <1>2, <1>4, <1>5 DEF Row, RowType, Events, PlanEvents
<1>8. RowFits(row)
  BY <1>2, <1>5, <1>6 DEF RowFits
<1>9. Follows(Last(journal), row)
  BY <1>1, <1>3, <1>6 DEF Follows, LastEvent
<1>10. Allowed(row)
  <2>1. ASSUME NEW o \in Objects, Making(o)
        PROVE  \/ host[o] = "yes" /\ o \in Kept
               \/ host[o] \in {"yes", "live"} /\ o \in row.receipt
    <3>1. Unit = Maker(o) /\ Unit \notin ReadOnly \cup {"kickstart"} /\ ObjectOf(Unit) = o
      BY <1>3, <2>1, MakerIs DEF Making
    <3>2. host[o] = "yes"
      BY <1>1, <3>1 DEF WorkInv
    <3>3. Last(journal).intent = "existing" => o \in Kept
      <4>1. Len(journal) \in DOMAIN journal /\ Last(journal) = journal[Len(journal)]
        BY <1>1, <1>3, InFlightIs DEF DurableInv
      <4>2. RowFits(Last(journal)) /\ Last(journal).event = "operation-start"
        BY <1>1, <1>3, <4>1 DEF DurableInv, JournalInv, LastEvent
      <4>3. Last(journal).intent = "existing" => Unit \in Kept
        BY <1>3, <4>2 DEF RowFits
      <4>4. QED
        BY <3>1, <4>3 DEF Kept, ObjectOf
    <3>4. Last(journal).intent # "existing" => o \in OperationReceipt
      BY <3>1 DEF OperationReceipt
    <3>5. QED
      BY <1>6, <3>2, <3>3, <3>4
  <2>2. QED
    BY <1>1, <1>6, <1>7, <1>8, <1>9, <2>1 DEF Allowed
<1>11. SUFFICES ASSUME DurableInv', journal' # <<>>, Last(journal') = row, LastEvent' = row.event,
                       pc' = where.pc, at' = where.at, UNCHANGED <<rolling, failed, host, foreign>>
                PROVE  InstallInv'
  BY <1>1, <1>6, <1>10, RecordKeeps DEF Loops, Terminal
<1>12. LastEvent' \notin Terminal
  BY <1>6, <1>11 DEF Terminal
<1>13. CASE at.unit < Sizes[at.step]
  <2>1. pc' = "intent" /\ at'.step = at.step /\ at'.unit = at.unit + 1
        /\ at' = [step |-> at'.step, unit |-> at'.unit]
    BY <1>2, <1>11, <1>13
  <2>2. at'.unit \in 2 .. Sizes[at'.step] /\ at'.unit - 1 = at.unit
    BY <1>2, <1>13, <2>1
  <2>3. PlaceInv'
    BY <1>1, <1>2, <1>11, <1>12, <2>1, <2>2, LoopPlace DEF Loops
  <2>4. Step' = Step
    BY <2>1 DEF Step
  <2>5. LoopInv'
    <3>1. Last(journal').unit = Units(Step')[at'.unit - 1]
      BY <1>2, <1>6, <1>11, <2>2, <2>4
    <3>2. Last(journal').step = Step' /\ LastEvent' = "operation-complete"
      BY <1>6, <1>11, <2>4
    <3>3. at'.unit > 1
      BY <1>2, <2>2
    <3>4. QED
      BY <2>1, <3>1, <3>2, <3>3 DEF LoopInv, Rolls, Undoing
  <2>6. at.step = 7 /\ at'.unit = 3 => host["registration"] = "live"
    <3>1. at'.unit = 3 => at.unit = 2
      BY <1>2, <2>1
    <3>2. QED
      BY <1>1, <3>1 DEF WorkInv, Loops
  <2>7. WorkInv'
    BY <1>1, <1>11, <2>1, <2>6 DEF WorkInv, Rolls, Undoing, Unobstructed
  <2>8. QED
    BY <1>11, <2>3, <2>5, <2>7 DEF InstallInv
<1>14. CASE ~(at.unit < Sizes[at.step])
  <2>1. pc' = "ended" /\ at' = at /\ at.unit = Sizes[at.step]
    BY <1>2, <1>11, <1>14
  <2>2. PlaceInv'
    BY <1>1, <1>2, <1>11, <1>12, <2>1, LoopPlace DEF Loops
  <2>3. LoopInv'
    BY <1>2, <1>6, <1>11, <2>1 DEF LoopInv, Rolls, Undoing, Step, Unit
  <2>4. at.step = 7 /\ at.unit = 3 => Installed
    BY <1>1 DEF WorkInv
  <2>5. at.step = 7 /\ at.unit = 3 => Installed' /\ host'["registration"] = "live"
    BY <1>11, <2>4 DEF Installed, Complete
  <2>6. at.step = 7 => at.unit # 2
    BY <2>1, SizeTable
  <2>7. WorkInv'
    BY <1>1, <1>11, <2>1, <2>5, <2>6 DEF WorkInv, Rolls, Undoing, Unobstructed
  <2>8. QED
    BY <1>11, <2>2, <2>3, <2>7 DEF InstallInv
<1>15. QED
  BY <1>13, <1>14

LEMMA CompleteStepKeeps ==
    ASSUME InstallInv, CompleteStep
    PROVE  InstallInv'
<1> DEFINE row == Row("step-complete", Step, "none", "none", StepReceipt(Step))
           where == IF at.step < Len(Steps)
                    THEN [pc |-> "step", at |-> [step |-> at.step + 1, unit |-> 1]]
                    ELSE [pc |-> "complete", at |-> at]
<1>1. /\ DurableInv /\ PlaceInv /\ LoopInv /\ WorkInv /\ pc = "ended" /\ Record(row, where)
      /\ journal # <<>> /\ Unobstructed
  BY DEF InstallInv, CompleteStep, PlaceInv, WorkInv, Loops
<1>2. /\ Step = Steps[at.step] /\ Step \in StepIds /\ at.step \in 1 .. 7
      /\ Unit = Units(Step)[at.unit] /\ at.unit \in 1 .. Sizes[at.step]
      /\ Len(Units(Step)) = Sizes[at.step] /\ Len(Steps) = 7
      /\ at = [step |-> at.step, unit |-> at.unit]
  BY <1>1, HereIs, StepTable DEF PlaceInv
<1>3. /\ LastEvent = "operation-complete" /\ Last(journal).step = Step
      /\ Last(journal).unit = Unit /\ at.unit = Sizes[at.step]
  BY <1>1 DEF LoopInv
<1>4. StepReceipt(Step) \subseteq Objects
  BY <1>2, StepReceiptIs
<1>5. /\ row.event = "step-complete" /\ row.step = Step /\ row.receipt = StepReceipt(Step)
  BY DEF Row
<1>6. row \in RowType /\ RowFits(row)
  BY <1>2, <1>4 DEF Row, RowType, Events, PlanEvents, RowFits
<1>7. Follows(Last(journal), row)
  <2>1. Last(journal).unit = Units(Last(journal).step)[Len(Units(Last(journal).step))]
    BY <1>2, <1>3
  <2>2. QED
    BY <1>1, <1>3, <1>5, <2>1 DEF Follows, LastEvent
<1>8. Allowed(row)
  BY <1>1, <1>3, <1>5, <1>6, <1>7, NothingMaking DEF Allowed
<1>9. SUFFICES ASSUME DurableInv', journal' # <<>>, Last(journal') = row, LastEvent' = row.event,
                      pc' = where.pc, at' = where.at, UNCHANGED <<rolling, failed, host, foreign>>
               PROVE  InstallInv'
  BY <1>1, <1>5, <1>8, RecordKeeps DEF Loops, Terminal
<1>10. LastEvent' \notin Terminal
  BY <1>5, <1>9 DEF Terminal
<1>11. CASE at.step < 7
  <2>1. pc' = "step" /\ at'.step = at.step + 1 /\ at'.unit = 1
        /\ at' = [step |-> at'.step, unit |-> at'.unit]
    BY <1>2, <1>9, <1>11
  <2>2. at'.step \in 2 .. 7 /\ at'.step - 1 = at.step
    BY <1>2, <1>11, <2>1
  <2>3. at'.unit \in 1 .. Sizes[at'.step]
    <3>1. at'.step \in 1 .. 7
      BY <2>2
    <3>2. Sizes[at'.step] \in {1, 2, 3}
      BY <3>1, SizeFacts
    <3>3. QED
      BY <2>1, <3>2
  <2>4. PlaceInv'
    BY <1>1, <1>9, <1>10, <2>1, <2>2, <2>3, LoopPlace DEF Loops
  <2>5. LoopInv'
    BY <1>2, <1>5, <1>9, <2>1, <2>2 DEF LoopInv, Rolls, Undoing
  <2>6. WorkInv'
    BY <1>1, <1>9, <2>1 DEF WorkInv, Rolls, Undoing, Unobstructed
  <2>7. QED
    BY <1>9, <2>4, <2>5, <2>6 DEF InstallInv
<1>12. CASE ~(at.step < 7)
  <2>1. pc' = "complete" /\ at' = at /\ at.step = 7
    BY <1>2, <1>9, <1>12
  <2>2. at.unit = 3
    BY <1>3, <2>1, SizeTable
  <2>3. PlaceInv'
    BY <1>1, <1>2, <1>9, <1>10, <2>1, LoopPlace DEF Loops
  <2>4. LoopInv'
    BY <1>2, <1>5, <1>9, <2>1, <2>2 DEF LoopInv, Rolls, Undoing
  <2>5. Installed
    BY <1>1, <2>1, <2>2 DEF WorkInv
  <2>6. Installed' /\ host'["registration"] = "live"
    BY <1>9, <2>5 DEF Installed, Complete
  <2>7. WorkInv'
    BY <1>1, <1>9, <2>1, <2>2, <2>6 DEF WorkInv, Rolls, Undoing, Unobstructed
  <2>8. QED
    BY <1>9, <2>3, <2>4, <2>7 DEF InstallInv
<1>13. QED
  BY <1>11, <1>12

LEMMA CompletePlanKeeps ==
    ASSUME InstallInv, CompletePlan
    PROVE  InstallInv'
<1> DEFINE row == Mark("plan-complete", "none")
<1>1. /\ DurableInv /\ PlaceInv /\ LoopInv /\ WorkInv /\ pc = "complete" /\ Exit
      /\ Written(row) \/ Broken(row)
      /\ UNCHANGED <<host, foreign>> /\ journal # <<>> /\ LastEvent \notin Terminal
  BY DEF InstallInv, CompletePlan, PlaceInv
<1>2. at = [step |-> 7, unit |-> 3] /\ LastEvent = "step-complete"
  BY <1>1 DEF LoopInv
<1>3. Unobstructed /\ Installed
  BY <1>1, <1>2 DEF WorkInv, Loops
<1>4. /\ row \in RowType /\ RowFits(row) /\ row.event = "plan-complete" /\ row.receipt = {}
  BY MarkFits DEF Events
<1>5. Follows(Last(journal), row)
  BY <1>1, <1>2, <1>4 DEF Follows, LastEvent
<1>6. Allowed(row)
  BY <1>1, <1>2, <1>3, <1>4, <1>5, NothingMaking DEF Allowed
<1>7. journal' = Append(journal, row) \/ journal' = journal
  BY <1>1 DEF Written, Broken, Durable
<1>8. DurableInv'
  BY <1>1, <1>6, <1>7, AppendKeeps, DurableSame
<1>9. QED
  BY <1>1, <1>8, ExitKeeps

\* The rollbacks go on, with the place in their list they have reached.
LEMMA RollPlace ==
    ASSUME PlaceInv, pc' \in Rolls, at' = at, rolling' \in 1 .. 8, failed' \in BOOLEAN,
           pc' \in Undoing => rolling' <= 7, pc' = "unsettled" => failed',
           journal' # <<>>, LastEvent' \notin Terminal
    PROVE  PlaceInv'
<1>1. pc' \in Places /\ pc' # "idle"
  BY DEF Places, Rolls, Undoing
<1>2. /\ at' = [step |-> at'.step, unit |-> at'.unit]
      /\ at'.step \in 1 .. 7 /\ at'.unit \in 1 .. Sizes[at'.step]
  BY DEF PlaceInv
<1>3. QED
  BY <1>1, <1>2, Zenon DEF PlaceInv

\* The process is in the loops of the rollbacks, or enters them.
LEMMA RollKeeps ==
    ASSUME DurableInv', PlaceInv', pc' \in Rolls, LastEvent' # "operation-start",
           pc' = "undone" => Cleared(rolling)',
           ~failed' => \A k \in 1 .. rolling' - 1 : Cleared(k)'
    PROVE  InstallInv'
<1>1. pc' \notin Loops \cup {"idle", "own", "adopt"}
  BY DEF Rolls, Undoing, Loops
<1>2. LoopInv'
  BY <1>1 DEF LoopInv, Loops
<1>3. WorkInv'
  BY <1>1 DEF WorkInv, Loops
<1>4. QED
  BY <1>2, <1>3 DEF InstallInv

\* The row of the operation in flight, which a recovery finds.
LEMMA OpenRow ==
    ASSUME DurableInv, LastEvent = "operation-start"
    PROVE  /\ InFlight # {} /\ journal[CHOOSE i \in InFlight : TRUE] = Last(journal)
           /\ Last(journal).event = "operation-start" /\ RowFits(Last(journal))
           /\ Last(journal).step \in StepIds /\ Last(journal).unit \in UnitsOf(Last(journal).step)
           /\ Unobstructed \/ Last(journal).unit = "preflight"
           /\ journal # <<>>
<1>1. /\ InFlight = {Len(journal)} /\ Len(journal) \in DOMAIN journal
      /\ Last(journal) = journal[Len(journal)]
  BY InFlightIs DEF DurableInv
<1>2. (CHOOSE i \in InFlight : TRUE) = Len(journal)
  BY <1>1
<1>3. journal # <<>> /\ Last(journal).event = "operation-start"
  BY DEF LastEvent
<1>4. RowFits(Last(journal))
  BY <1>1 DEF DurableInv, JournalInv
<1>5. Unobstructed \/ Last(journal).unit = "preflight"
  BY <1>1, <1>3 DEF DurableInv, ForeignInv
<1>6. QED
  BY <1>1, <1>2, <1>3, <1>4, <1>5 DEF RowFits

\* What the reconciliation of an operation makes of its object, and claims.
ReconciledFine(u, intent) ==
    LET o == ObjectOf(u)
        after == Reconciled(u, intent).host
        made == Reconciled(u, intent).receipt
    IN  /\ u \in ReadOnly \cup {"kickstart"} => after = host
        /\ u \in ReadOnly => made = {}
        /\ u = "kickstart" => made = {} \/ made = {"registration"}
        /\ u \notin ReadOnly \cup {"kickstart"} =>
              /\ \/ after = host
                 \/ after = [host EXCEPT ![o] = "no"]
                 \/ after = [host EXCEPT ![o] = "yes"]
              /\ host[o] \in {"yes", "live"} => after[o] = host[o]
              /\ after[o] \in {"no", "yes", "live"} \/ (u = "directory" /\ intent = "existing")
              /\ made = {} \/ made = {o}
              /\ host[o] \in {"yes", "live"} => made = {o} \/ o \in Kept

LEMMA ReconciledIs ==
    ASSUME HostType, NEW step \in StepIds, NEW u \in UnitsOf(step), NEW intent
    PROVE  ReconciledFine(u, intent)
<1> SUFFICES ASSUME NEW o, o = ObjectOf(u), NEW after, after = Reconciled(u, intent).host,
                    NEW made, made = Reconciled(u, intent).receipt
             PROVE  /\ u \in ReadOnly \cup {"kickstart"} => after = host
                    /\ u \in ReadOnly => made = {}
                    /\ u = "kickstart" => made = {} \/ made = {"registration"}
                    /\ u \notin ReadOnly \cup {"kickstart"} =>
                          /\ \/ after = host
                             \/ after = [host EXCEPT ![o] = "no"]
                             \/ after = [host EXCEPT ![o] = "yes"]
                          /\ host[o] \in {"yes", "live"} => after[o] = host[o]
                          /\ \/ after[o] \in {"no", "yes", "live"}
                             \/ u = "directory" /\ intent = "existing"
                          /\ made = {} \/ made = {o}
                          /\ host[o] \in {"yes", "live"} => made = {o} \/ o \in Kept
  BY Zenon DEF ReconciledFine
<1>1. CASE u \in ReadOnly
  <2>1. Reconciled(u, intent) = [host |-> host, receipt |-> {}]
    BY <1>1 DEF Reconciled
  <2>2. u # "kickstart"
    BY <1>1 DEF ReadOnly
  <2>3. QED
    BY <1>1, <2>1, <2>2
<1>2. CASE u = "kickstart"
  <2>1. o = "registration" /\ u \notin ReadOnly
    BY <1>2 DEF ObjectOf, ReadOnly
  <2>2. Reconciled(u, intent) = [host |-> host, receipt |-> {o}]
        \/ Reconciled(u, intent) = [host |-> host, receipt |-> {}]
    BY <1>2, <2>1 DEF Reconciled
  <2>3. QED
    BY <1>2, <2>1, <2>2
<1>3. CASE u = "activation"
  <2>1. o = "authority" /\ u \notin ReadOnly /\ o \in Objects
    BY <1>3 DEF ObjectOf, ReadOnly, Objects
  <2>2. CASE host[o] = "yes"
    <3>1. Reconciled(u, intent) = [host |-> host, receipt |-> {o}]
      BY <1>3, <2>1, <2>2 DEF Reconciled
    <3>2. QED
      BY <1>3, <2>1, <2>2, <3>1
  <2>3. CASE host[o] # "yes"
    <3>1. Reconciled(u, intent) = [host |-> [host EXCEPT ![o] = "no"], receipt |-> {}]
      BY <1>3, <2>1, <2>3 DEF Reconciled
    <3>2. host[o] # "live" /\ after[o] = "no" /\ after = [host EXCEPT ![o] = "no"]
          /\ made = {}
      BY <2>1, <3>1 DEF HostType
    <3>3. u \notin ReadOnly \cup {"kickstart"}
      BY <1>3, <2>1
    <3>4. QED
      BY <2>3, <3>2, <3>3
  <2>4. QED
    BY <2>2, <2>3
<1>4. CASE u \notin ReadOnly \cup {"activation", "kickstart"}
  <2>1. o = u /\ o \in Objects
    <3>1. ObjectOf(u) = u
      BY <1>4 DEF ObjectOf
    <3>2. QED
      BY <1>4, <3>1, UnitsMake
  <2>2. CASE host[o] = "no"
    <3>1. Reconciled(u, intent) = [host |-> host, receipt |-> {}]
      BY <1>4, <2>1, <2>2 DEF Reconciled
    <3>2. QED
      BY <1>4, <2>2, <3>1
  <2>3. CASE host[o] = "temp" /\ ~(u = "directory" /\ intent = "existing")
    <3>1. Reconciled(u, intent) = [host |-> [host EXCEPT ![o] = "no"], receipt |-> {}]
      BY <1>4, <2>1, <2>3 DEF Reconciled
    <3>2. after[o] = "no"
      BY <2>1, <3>1 DEF HostType
    <3>3. QED
      BY <1>4, <2>3, <3>1, <3>2
  <2>4. CASE host[o] # "no" /\ u = "directory" /\ intent = "existing"
    <3>1. Reconciled(u, intent) = [host |-> host, receipt |-> {}] /\ o \in Kept
      BY <1>4, <2>1, <2>4 DEF Reconciled, Kept
    <3>2. QED
      BY <1>4, <2>4, <3>1
  <2>5. CASE host[o] \in {"both", "raw"} /\ ~(u = "directory" /\ intent = "existing")
    <3>1. Reconciled(u, intent) = [host |-> [host EXCEPT ![o] = "yes"], receipt |-> {o}]
      BY <1>4, <2>1, <2>5 DEF Reconciled, HostType
    <3>2. after[o] = "yes"
      BY <2>1, <3>1 DEF HostType
    <3>3. QED
      BY <1>4, <2>5, <3>1, <3>2
  <2>6. CASE host[o] \in {"yes", "live"} /\ ~(u = "directory" /\ intent = "existing")
    <3>1. Reconciled(u, intent) = [host |-> host, receipt |-> {o}]
      BY <1>4, <2>1, <2>6 DEF Reconciled, HostType
    <3>2. QED
      BY <1>4, <2>6, <3>1
  <2>7. host[o] \in Stages
    BY <2>1 DEF HostType
  <2>8. QED
    BY <2>2, <2>3, <2>4, <2>5, <2>6, <2>7 DEF Stages
<1>5. QED
  BY <1>1, <1>2, <1>3, <1>4

LEMMA ReconcileKeeps ==
    ASSUME InstallInv, Reconcile
    PROVE  InstallInv'
<1>1. /\ DurableInv /\ PlaceInv /\ pc = "own" /\ UNCHANGED <<journal, foreign>>
      /\ journal # <<>> /\ LastEvent \notin Terminal /\ rolling = 1
      /\ HostType
  BY DEF InstallInv, Reconcile, PlaceInv, Rolls, Undoing, DurableInv, HostInv
<1>2. journal' # <<>> /\ LastEvent' = LastEvent /\ Last(journal') = Last(journal)
  BY <1>1 DEF LastEvent
<1>3. CASE InFlight = {}
  <2>1. pc' = "rollback" /\ UNCHANGED <<at, rolling, failed, host>>
    BY <1>3 DEF Reconcile, Continue
  <2>2. DurableInv'
    BY <1>1, <2>1, DurableSame
  <2>3. LastEvent' # "operation-start"
    BY <1>1, <1>2, <1>3, InFlightIs DEF DurableInv
  <2>4. PlaceInv'
    <3>1. rolling' \in 1 .. 8
      BY <1>1, <2>1
    <3>2. failed' \in BOOLEAN
      BY <1>1, <2>1 DEF PlaceInv
    <3>3. pc' \in Rolls /\ pc' \notin Undoing /\ pc' # "unsettled"
      BY <2>1 DEF Rolls, Undoing
    <3>4. QED
      BY <1>1, <1>2, <2>1, <3>1, <3>2, <3>3, RollPlace
  <2>5. 1 .. rolling' - 1 = {}
    BY <1>1, <2>1
  <2>6. QED
    BY <2>1, <2>2, <2>3, <2>4, <2>5, RollKeeps DEF Rolls
<1>4. CASE InFlight # {}
  <2> DEFINE row == Last(journal)
             o == ObjectOf(row.unit)
             after == Reconciled(row.unit, row.intent).host
  <2>1. LastEvent = "operation-start"
    BY <1>1, <1>4, InFlightIs DEF DurableInv
  <2>2. /\ journal[CHOOSE i \in InFlight : TRUE] = row /\ RowFits(row)
        /\ row.event = "operation-start"
        /\ row.step \in StepIds /\ row.unit \in UnitsOf(row.step)
        /\ Unobstructed \/ row.unit = "preflight"
    BY <1>1, <2>1, OpenRow
  <2>3. \/ host' = after /\ Continue("adopt")
        \/ host' \in {host, after} /\ Exit
    BY <1>4, <2>2 DEF Reconcile
  <2>4. row.intent = "existing" => host[row.unit] = "yes" /\ row.unit \in Kept
    BY <1>1, <2>1, <2>2 DEF DurableInv, HostInv, RowFits
  <2>5. /\ row.unit \in ReadOnly \cup {"kickstart"} => after = host
        /\ row.unit \notin ReadOnly \cup {"kickstart"} =>
              /\ after = host \/ after = [host EXCEPT ![o] = "no"]
                              \/ after = [host EXCEPT ![o] = "yes"]
              /\ host[o] = "yes" => after[o] = "yes"
              /\ \/ after[o] \in {"no", "yes", "live"}
                 \/ row.unit = "directory" /\ row.intent = "existing"
    <3>1. ReconciledFine(row.unit, row.intent)
      BY <1>1, <2>2, ReconciledIs
    <3>2. QED
      BY <3>1 DEF ReconciledFine
  <2>6. /\ row.unit \notin ReadOnly \cup {"kickstart"} =>
              o \in Objects /\ Home(o) = row.step /\ Maker(o) = row.unit
        /\ row.unit \in ReadOnly => o \notin Objects
        /\ row.unit = "kickstart" => o = "registration"
        /\ row.unit \in Kept => o = row.unit
    BY <2>2, UnitsMake
  <2> HIDE DEF row, o, after
  <2>7. DurableInv'
    <3>1. CASE host' = host
      BY <1>1, <3>1, DurableSame
    <3>2. CASE host' = after /\ row.unit \notin ReadOnly \cup {"kickstart"}
      <4>1. Making(o)
        BY <2>1, <2>6, <3>2 DEF Making, row
      <4>2. HostType'
        BY <1>1, <2>5, <2>6, <3>2 DEF HostType, Stages
      <4>3. \A x \in Objects : Making(x) \/ host'[x] = host[x]
        BY <1>1, <2>5, <3>2, <4>1 DEF HostType
      <4>4. row.intent = "existing" => host'[row.unit] = "yes"
        BY <2>4, <2>5, <2>6, <3>2
      <4>5. Unobstructed
        BY <2>2, <3>2 DEF ReadOnly
      <4>6. QED
        BY <1>1, <2>1, <4>2, <4>3, <4>4, <4>5, WorkedKeeps DEF row
    <3>3. QED
      BY <2>3, <2>5, <3>1, <3>2
  <2>8. CASE Exit
    BY <2>7, <2>8, ExitKeeps
  <2>9. CASE host' = after /\ Continue("adopt")
    <3>1. pc' = "adopt" /\ UNCHANGED <<at, rolling, failed>>
      BY <2>9 DEF Continue
    <3>2. pc' \in Places /\ pc' \notin Rolls /\ pc' # "idle" /\ pc \notin Rolls
      BY <1>1, <3>1 DEF Places, Rolls, Undoing
    <3>3. PlaceInv'
      BY <1>1, <1>2, <3>1, <3>2 DEF PlaceInv, Rolls
    <3>4. LoopInv'
      BY <1>2, <2>1, <3>1 DEF LoopInv, Rolls, Undoing
    <3>5. o \in Objects => host'[o] \in {"no", "yes", "live"}
      <4>1. CASE row.unit = "kickstart"
        <5>1. o = "registration" /\ host' = host /\ o \in Objects
          BY <2>5, <2>6, <2>9, <4>1 DEF Objects
        <5>2. QED
          BY <1>1, <5>1 DEF HostType, Stages, Published, Created
      <4>2. CASE row.unit \in ReadOnly
        BY <2>6, <4>2
      <4>3. CASE row.unit \notin ReadOnly \cup {"kickstart"}
        BY <2>4, <2>5, <2>6, <2>9, <4>3
      <4>4. QED
        BY <4>1, <4>2, <4>3
    <3>6. WorkInv'
      BY <1>2, <3>1, <3>5 DEF WorkInv, Rolls, Undoing, Loops, Settled, row, o
    <3>7. QED
      BY <2>7, <3>3, <3>4, <3>6 DEF InstallInv
  <2>10. QED
    BY <2>3, <2>8, <2>9
<1>5. QED
  BY <1>3, <1>4

LEMMA AdoptKeeps ==
    ASSUME InstallInv, Adopt
    PROVE  InstallInv'
<1> DEFINE open == Last(journal)
           o == ObjectOf(open.unit)
           made == Reconciled(open.unit, open.intent).receipt
           row == Row("operation-complete", open.step, open.unit, "none", made)
<1>1. /\ DurableInv /\ PlaceInv /\ pc = "adopt" /\ UNCHANGED <<host, foreign>>
      /\ journal # <<>> /\ LastEvent = "operation-start" /\ LastEvent \notin Terminal
      /\ rolling = 1 /\ HostType /\ (o \in Objects => Settled(o))
  BY DEF InstallInv, Adopt, PlaceInv, LoopInv, WorkInv, Rolls, Undoing, DurableInv, HostInv
<1>2. /\ journal[CHOOSE i \in InFlight : TRUE] = open /\ open.event = "operation-start"
      /\ open.step \in StepIds /\ open.unit \in UnitsOf(open.step)
      /\ Unobstructed \/ open.unit = "preflight"
  BY <1>1, OpenRow
<1>3. \/ Written(row) /\ Continue("rollback")
      \/ Broken(row) /\ Exit
  BY <1>2 DEF Adopt
<1>4. /\ open.unit \in ReadOnly => made = {}
      /\ open.unit = "kickstart" => made = {} \/ made = {"registration"}
      /\ open.unit \notin ReadOnly \cup {"kickstart"} =>
            /\ made = {} \/ made = {o}
            /\ host[o] \in {"yes", "live"} => made = {o} \/ o \in Kept
  <2>1. ReconciledFine(open.unit, open.intent)
    BY <1>1, <1>2, ReconciledIs
  <2>2. QED
    BY <2>1 DEF ReconciledFine
<1>5. /\ open.unit \notin ReadOnly \cup {"kickstart"} => o \in Objects
      /\ open.unit = "kickstart" => o = "registration" /\ o \in Objects
      /\ open.unit \in UnitIds
  <2>1. "registration" \in Objects
    BY DEF Objects
  <2>2. QED
    BY <1>2, <2>1, UnitsMake
<1>6. /\ row.event = "operation-complete" /\ row.step = open.step /\ row.unit = open.unit
      /\ row.receipt = made
  BY DEF Row
<1>7. made \subseteq Objects /\ made \subseteq IF open.unit \notin ReadOnly THEN {o} ELSE {}
  BY <1>4, <1>5 DEF ReadOnly
<1>8. row \in RowType
  BY <1>2, <1>5, <1>7 DEF Row, RowType, Events, PlanEvents
<1>9. RowFits(row)
  BY <1>2, <1>6, <1>7 DEF RowFits
<1>10. Follows(open, row)
  BY <1>2, <1>6 DEF Follows
<1>11. Allowed(row)
  <2>1. ASSUME NEW x \in Objects, Making(x)
        PROVE  \/ host[x] = "no"
               \/ host[x] = "yes" /\ x \in Kept
               \/ host[x] \in {"yes", "live"} /\ x \in row.receipt
    <3>1. x = o /\ open.unit \notin ReadOnly \cup {"kickstart"}
      BY <2>1, MakerIs DEF Making
    <3>2. host[x] \in {"no", "yes", "live"}
      BY <1>1, <2>1, <3>1 DEF Settled
    <3>3. host[x] = "live" => x \notin Kept
      BY <1>1, <2>1 DEF HostType, Kept
    <3>4. QED
      BY <1>4, <1>6, <3>1, <3>2, <3>3
  <2>2. open.unit = "preflight" => made = {}
    BY <1>4 DEF ReadOnly
  <2>3. QED
    BY <1>2, <1>6, <1>8, <1>9, <1>10, <2>1, <2>2 DEF Allowed
<1>12. ASSUME journal' = Append(journal, row)
       PROVE  DurableInv' /\ journal' # <<>> /\ LastEvent' = row.event
  BY <1>1, <1>11, <1>12, AppendKeeps
<1>13. CASE Written(row) /\ Continue("rollback")
  <2>1. DurableInv' /\ journal' # <<>> /\ LastEvent' = "operation-complete"
    BY <1>6, <1>12, <1>13 DEF Written, Durable
  <2>2. pc' = "rollback" /\ UNCHANGED <<at, rolling, failed>>
    BY <1>13 DEF Continue
  <2>3. PlaceInv'
    <3>1. rolling' \in 1 .. 8
      BY <1>1, <2>2
    <3>2. failed' \in BOOLEAN
      BY <1>1, <2>2 DEF PlaceInv
    <3>3. pc' \in Rolls /\ pc' \notin Undoing /\ pc' # "unsettled" /\ LastEvent' \notin Terminal
      BY <2>1, <2>2 DEF Rolls, Undoing, Terminal
    <3>4. QED
      BY <1>1, <2>1, <2>2, <3>1, <3>2, <3>3, RollPlace
  <2>4. 1 .. rolling' - 1 = {}
    BY <1>1, <2>2
  <2>5. QED
    BY <2>1, <2>2, <2>3, <2>4, RollKeeps DEF Rolls
<1>14. CASE Broken(row) /\ Exit
  <2>1. journal' = Append(journal, row) \/ journal' = journal
    BY <1>14 DEF Broken, Durable
  <2>2. QED
    BY <1>1, <1>12, <1>14, <2>1, DurableSame, ExitKeeps
<1>15. QED
  BY <1>3, <1>13, <1>14

-----------------------------------------------------------------------------
(* The rollbacks                                                           *)

\* What a receipt of the transaction names is owned by the rollback that undoes it.
LEMMA OwnedHolds ==
    ASSUME JournalInv, NEW k \in 1 .. 7, NEW o \in Undone(k), Receipted(o)
    PROVE  o \in Owned(Rollbacks[k])
<1>1. o \in Objects \ Kept /\ Home(o) \in Rollbacks[k].sources /\ Home(o) \in StepIds
  BY RollbackFacts
<1>2. PICK i \in DOMAIN journal : journal[i].step = Home(o) /\ o \in journal[i].receipt
  BY DEF Receipted
<1>3. CASE ~FullReceipt(Home(o))
  BY <1>1, <1>2, <1>3 DEF Owned, ReceiptsOf
<1>4. CASE FullReceipt(Home(o))
  <2>1. PICK j \in DOMAIN journal : /\ journal[j].event = "step-complete"
                                    /\ journal[j].step = Home(o) /\ journal[j].receipt # {}
    BY <1>4 DEF FullReceipt, Rows
  <2>2. journal[j].receipt = StepReceipt(Home(o))
    BY <2>1 DEF JournalInv, RowFits
  <2>3. o \in journal[j].receipt
    BY <1>1, <2>2, StepReceiptIs
  <2>4. QED
    BY <1>1, <2>1, <2>3 DEF Owned, ReceiptsOf
<1>5. QED
  BY <1>3, <1>4

LEMMA OwnedIs ==
    ASSUME NEW r, NEW o \in Owned(r)
    PROVE  \E i \in DOMAIN journal : o \in journal[i].receipt
  BY DEF Owned, ReceiptsOf

\* What a rollback has left behind is nothing the transaction made.
LEMMA UndoneIs ==
    ASSUME DurableInv, LastEvent # "operation-start", NEW k \in 1 .. 7,
           NEW o \in Undone(k) \ foreign, host[o] # "no"
    PROVE  o \in Present(Rollbacks[k])
<1>1. o \in Objects \ Kept /\ ToSet(Removals(Rollbacks[k])) = Undone(k)
  BY RollbackFacts
<1>2. Receipted(o)
  BY <1>1, NothingMaking
<1>3. QED
  BY <1>1, <1>2, OwnedHolds DEF DurableInv, Present

LEMMA ClearedHere ==
    ASSUME DurableInv, LastEvent # "operation-start", NEW k \in 1 .. 7,
           Owned(Rollbacks[k]) = {} \/ Rollbacks[k].id \in RolledBack
    PROVE  Cleared(k)
<1>1. CASE Rollbacks[k].id \in RolledBack
  BY <1>1 DEF DurableInv, RolledInv
<1>2. CASE Owned(Rollbacks[k]) = {}
  <2>1. Present(Rollbacks[k]) = {}
    BY <1>2 DEF Present
  <2>2. QED
    BY <2>1, UndoneIs DEF Cleared
<1>3. QED
  BY <1>1, <1>2

\* Removing what is owned keeps what the journal and the host hold.
LEMMA RemovedKeeps ==
    ASSUME DurableInv, journal # <<>>, LastEvent \notin Terminal \cup {"operation-start"},
           NEW k \in 1 .. 7, NEW e, e.gone \subseteq Present(Rollbacks[k]),
           host' = HostAfter(e), UNCHANGED <<journal, foreign>>
    PROVE  /\ DurableInv'
           /\ \A j \in 1 .. 7 : Cleared(j) => Cleared(j)'
           /\ e.gone = Present(Rollbacks[k]) => Cleared(k)'
<1>1. /\ JournalInv' /\ LastEvent' = LastEvent /\ RolledBack' = RolledBack
      /\ HostType /\ journal \in Seq(RowType)
  BY DEF DurableInv, JournalInv, LastEvent, RolledBack, Rows, HostInv
<1>2. LastEvent # "none"
  <2>1. Len(journal) \in DOMAIN journal /\ LastEvent = journal[Len(journal)].event
    BY <1>1 DEF LastEvent, Last
  <2>2. LastEvent \in Events
    <3>1. journal[Len(journal)] \in RowType
      BY <1>1, <2>1
    <3>2. journal[Len(journal)].event \in Events
      BY <3>1 DEF RowType
    <3>3. QED
      BY <2>1, <3>2
  <2>3. QED
    BY <2>2 DEF Events, PlanEvents, RollbackEvents
<1>3. \A o \in Objects : host'[o] = "no" \/ host'[o] = host[o]
  BY DEF HostAfter
<1>4. HostType'
  BY <1>1 DEF HostType, HostAfter, Stages
<1>5. \A o \in Objects : Accounted(o)'
  <2>1. SUFFICES ASSUME NEW o \in Objects PROVE Accounted(o)'
    OBVIOUS
  <2>2. Accounted(o) /\ Receipted(o)' = Receipted(o) /\ ~Making(o)
    BY DEF DurableInv, HostInv, Receipted, Making
  <2>3. QED
    BY <1>3, <2>2 DEF Accounted
<1>6. HostInv'
  BY <1>1, <1>4, <1>5 DEF HostInv
<1>7. ForeignInv'
  <2>1. CASE Unobstructed
    BY <2>1 DEF ForeignInv, Unobstructed
  <2>2. CASE ~Unobstructed
    <3>1. \A i \in DOMAIN journal : journal[i].receipt = {}
      BY <2>2 DEF DurableInv, ForeignInv
    <3>2. Present(Rollbacks[k]) = {}
      BY <3>1, OwnedIs DEF Present
    <3>3. \A o \in Objects : host'[o] = host[o]
      BY <3>2 DEF HostAfter
    <3>4. QED
      BY <2>2, <3>3 DEF DurableInv, ForeignInv, Unobstructed
  <2>3. QED
    BY <2>1, <2>2
<1>8. ASSUME NEW j \in 1 .. 7, Cleared(j) PROVE Cleared(j)'
  <2>1. Undone(j) \subseteq Objects
    BY RollbackFacts
  <2>2. QED
    BY <1>3, <1>8, <2>1 DEF Cleared
<1>9. RolledInv'
  BY <1>1, <1>8 DEF DurableInv, RolledInv
<1>10. EndInv'
  BY <1>1, <1>2 DEF EndInv, Terminal
<1>11. ASSUME e.gone = Present(Rollbacks[k]) PROVE Cleared(k)'
  <2>1. Undone(k) \subseteq Objects
    BY RollbackFacts
  <2>2. SUFFICES ASSUME NEW o \in Undone(k) \ foreign PROVE host'[o] = "no"
    BY DEF Cleared
  <2>3. CASE host[o] = "no"
    BY <1>3, <2>1, <2>2, <2>3
  <2>4. CASE host[o] # "no"
    <3>1. o \in e.gone
      BY <1>11, <2>2, <2>4, UndoneIs
    <3>2. QED
      BY <2>1, <2>2, <3>1 DEF HostAfter
  <2>5. QED
    BY <2>3, <2>4
<1>12. QED
  BY <1>1, <1>6, <1>7, <1>8, <1>9, <1>10, <1>11 DEF DurableInv

\* What holds wherever the process is in the loops of the rollbacks.
LEMMA InRolls ==
    ASSUME InstallInv, pc \in Rolls
    PROVE  /\ DurableInv /\ PlaceInv /\ journal # <<>>
           /\ LastEvent \notin Terminal \cup {"operation-start"}
           /\ rolling \in 1 .. 8 /\ failed \in BOOLEAN
           /\ Pending => rolling \in 1 .. 7 /\ Current = Rollbacks[rolling]
           /\ ~Pending => rolling = 8
           /\ pc \in Undoing => Pending
           /\ ~failed => \A k \in 1 .. rolling - 1 : Cleared(k)
<1>1. pc # "idle"
  BY DEF Rolls, Undoing
<1>2. /\ DurableInv /\ PlaceInv /\ journal # <<>> /\ LastEvent \notin Terminal
      /\ rolling \in 1 .. 8 /\ failed \in BOOLEAN
      /\ pc \in Undoing => rolling <= 7
  BY <1>1 DEF InstallInv, PlaceInv
<1>3. LastEvent # "operation-start"
  BY DEF InstallInv, LoopInv
<1>4. ~failed => \A k \in 1 .. rolling - 1 : Cleared(k)
  BY DEF InstallInv, WorkInv
<1>5. Pending <=> rolling <= 7
  BY RollbackTable DEF Pending
<1>6. Current = Rollbacks[rolling]
  BY DEF Current
<1>7. (rolling <= 7 => rolling \in 1 .. 7) /\ (~(rolling <= 7) => rolling = 8)
  BY <1>2
<1>8. QED
  BY <1>2, <1>3, <1>4, <1>5, <1>6, <1>7

LEMMA SkipRollbackKeeps ==
    ASSUME InstallInv, SkipRollback
    PROVE  InstallInv'
<1>1. /\ pc = "rollback" /\ pc \in Rolls /\ Pending /\ UNCHANGED <<journal, host, foreign, at, failed>>
      /\ pc' = "rollback" /\ rolling' = rolling + 1
      /\ Owned(Current) = {} \/ Current.id \in RolledBack
  BY DEF SkipRollback, Advance, Rolls
<1>2. /\ DurableInv /\ PlaceInv /\ journal # <<>>
      /\ LastEvent \notin Terminal \cup {"operation-start"}
      /\ rolling \in 1 .. 7 /\ Current = Rollbacks[rolling] /\ failed \in BOOLEAN
      /\ ~failed => \A k \in 1 .. rolling - 1 : Cleared(k)
  BY <1>1, InRolls
<1>3. Cleared(rolling)
  BY <1>1, <1>2, ClearedHere
<1>4. ~failed => \A k \in 1 .. rolling' - 1 : Cleared(k)'
  <2>1. \A k : Cleared(k)' = Cleared(k)
    BY <1>1 DEF Cleared
  <2>2. \A k \in 1 .. rolling' - 1 : k \in 1 .. rolling - 1 \/ k = rolling
    BY <1>1, <1>2
  <2>3. QED
    BY <1>2, <1>3, <2>1, <2>2
<1>5. DurableInv' /\ journal' # <<>> /\ LastEvent' = LastEvent
  BY <1>1, <1>2, DurableSame DEF LastEvent
<1>6. PlaceInv'
  <2>1. rolling' \in 1 .. 8
    BY <1>1, <1>2
  <2>2. pc' \in Rolls /\ pc' \notin Undoing /\ pc' # "unsettled"
    BY <1>1 DEF Rolls, Undoing
  <2>3. failed' \in BOOLEAN
    BY <1>1, <1>2
  <2>4. QED
    BY <1>1, <1>2, <1>5, <2>1, <2>2, <2>3, RollPlace
<1>7. (~failed' => \A k \in 1 .. rolling' - 1 : Cleared(k)') /\ pc' # "undone" /\ pc' \in Rolls
  BY <1>1, <1>4 DEF Rolls
<1>8. QED
  BY <1>2, <1>5, <1>6, <1>7, RollKeeps

\* The row of a rollback.
LEMMA RollMark ==
    ASSUME DurableInv, journal # <<>>, LastEvent # "operation-start", LastEvent \notin Terminal,
           NEW event \in RollbackEvents, NEW step \in RollbackIds \cup {"none"},
           event = "rollback-complete" =>
               \A k \in 1 .. 7 : Rollbacks[k].id = step => Cleared(k),
           event = "recovery-complete" => Clean
    PROVE  Allowed(Mark(event, step))
<1> DEFINE row == Mark(event, step)
<1>1. event \in Events \ {"operation-start", "operation-complete", "step-complete", "step-start",
                          "plan-complete"}
  BY DEF Events, RollbackEvents
<1>2. /\ row \in RowType /\ RowFits(row) /\ row.event = event /\ row.step = step
      /\ row.receipt = {} /\ row.intent = "none"
  BY <1>1, MarkFits
<1>3. Follows(Last(journal), row)
  BY <1>2 DEF Follows, LastEvent
<1> HIDE DEF row
<1>4. Allowed(row)
  BY <1>1, <1>2, <1>3, NothingMaking DEF Allowed
<1>5. QED
  BY <1>4 DEF row

\* What a row of a rollback, written or not, leaves.
LEMMA RollRecorded ==
    ASSUME DurableInv, journal # <<>>, LastEvent # "operation-start", LastEvent \notin Terminal,
           NEW event \in RollbackEvents, NEW step \in RollbackIds \cup {"none"},
           event = "rollback-complete" =>
               \A k \in 1 .. 7 : Rollbacks[k].id = step => Cleared(k),
           event = "recovery-complete" => Clean,
           journal' = Append(journal, Mark(event, step)) \/ journal' = journal,
           UNCHANGED <<host, foreign>>
    PROVE  /\ DurableInv' /\ journal' # <<>> /\ LastEvent' # "operation-start"
           /\ event \notin Terminal => LastEvent' \notin Terminal
           /\ \A k : Cleared(k)' = Cleared(k)
<1>1. Allowed(Mark(event, step))
  BY RollMark
<1>2. \A k : Cleared(k)' = Cleared(k)
  BY DEF Cleared
<1>3. CASE journal' = Append(journal, Mark(event, step))
  <2>1. DurableInv' /\ journal' # <<>> /\ LastEvent' = Mark(event, step).event
    BY <1>1, <1>3, AppendKeeps
  <2>2. Mark(event, step).event = event /\ event # "operation-start"
    BY DEF Mark, Row, RollbackEvents
  <2>3. QED
    BY <1>2, <2>1, <2>2
<1>4. CASE journal' = journal
  BY <1>2, <1>4, DurableSame DEF LastEvent
<1>5. QED
  BY <1>3, <1>4

LEMMA StartRollbackKeeps ==
    ASSUME InstallInv, StartRollback
    PROVE  InstallInv'
<1> DEFINE row == Mark("rollback-start", Current.id)
<1>1. /\ pc = "rollback" /\ pc \in Rolls /\ Pending /\ UNCHANGED <<host, foreign>>
      /\ \/ Written(row) /\ Continue("undo")
         \/ Broken(row) /\ pc' = "undo" /\ failed' = TRUE /\ UNCHANGED <<at, rolling>>
         \/ Broken(row) /\ Exit
  BY DEF StartRollback, Rolls
<1>2. /\ DurableInv /\ PlaceInv /\ journal # <<>>
      /\ LastEvent \notin Terminal /\ LastEvent # "operation-start"
      /\ rolling \in 1 .. 7 /\ Current = Rollbacks[rolling] /\ failed \in BOOLEAN
      /\ ~failed => \A k \in 1 .. rolling - 1 : Cleared(k)
  BY <1>1, InRolls
<1>3. Current.id \in RollbackIds
  BY <1>2, RollbackFacts
<1>4. journal' = Append(journal, row) \/ journal' = journal
  BY <1>1 DEF Written, Broken, Durable
<1>5. /\ DurableInv' /\ journal' # <<>> /\ LastEvent' # "operation-start"
      /\ LastEvent' \notin Terminal /\ \A k : Cleared(k)' = Cleared(k)
  <2>1. "rollback-start" \in RollbackEvents /\ "rollback-start" \notin Terminal
    BY DEF RollbackEvents, Terminal
  <2>2. QED
    BY <1>1, <1>2, <1>3, <1>4, <2>1, RollRecorded
<1>6. CASE pc' = "undo" /\ UNCHANGED <<at, rolling>> /\ failed' \in {failed, TRUE}
  <2>1. failed' \in BOOLEAN
    BY <1>2, <1>6
  <2>2. rolling' \in 1 .. 8 /\ rolling' <= 7
    BY <1>2, <1>6
  <2>3. pc' \in Rolls /\ pc' # "unsettled" /\ pc' # "undone"
    BY <1>6 DEF Rolls, Undoing
  <2>4. PlaceInv'
    BY <1>2, <1>5, <1>6, <2>1, <2>2, <2>3, RollPlace
  <2>5. ~failed' => ~failed
    BY <1>6
  <2>6. ~failed' => \A k \in 1 .. rolling' - 1 : Cleared(k)'
    BY <1>2, <1>5, <1>6, <2>5
  <2>7. QED
    BY <1>5, <2>3, <2>4, <2>6, RollKeeps
<1>7. CASE Exit
  BY <1>5, <1>7, ExitKeeps
<1>8. QED
  BY <1>1, <1>6, <1>7 DEF Continue

LEMMA UndoKeeps ==
    ASSUME InstallInv, Undo
    PROVE  InstallInv'
<1>1. /\ pc = "undo" /\ pc \in Rolls /\ pc \in Undoing /\ UNCHANGED <<journal, foreign>>
  BY DEF Undo, Rolls, Undoing
<1>2. /\ DurableInv /\ PlaceInv /\ journal # <<>>
      /\ LastEvent \notin Terminal \cup {"operation-start"}
      /\ rolling \in 1 .. 7 /\ Current = Rollbacks[rolling] /\ failed \in BOOLEAN
      /\ ~failed => \A k \in 1 .. rolling - 1 : Cleared(k)
  BY <1>1, InRolls
<1>3. PICK e : /\ host' = HostAfter(e) /\ e.gone \subseteq Present(Current)
               /\ \/ e.gone = Present(Current) /\ Continue("undone")
                  \/ pc' = "unsettled" /\ failed' = TRUE /\ UNCHANGED <<at, rolling>>
                  \/ Exit
  <2>1. Whole(Current).gone = Present(Current) /\ Untouched.gone = {}
    BY DEF Whole, Untouched
  <2>2. \A e \in Cuts(Current) : e.gone \subseteq Present(Current)
    BY DEF Cuts, Reaches
  <2>3. CASE Refuses(Current)
    BY <2>1, <2>3 DEF Undo
  <2>4. CASE ~Refuses(Current)
    <3>1. CASE host' = HostAfter(Whole(Current)) /\ Continue("undone")
      BY <2>1, <3>1
    <3>2. CASE \E e \in Cuts(Current) :
                  /\ host' = HostAfter(e)
                  /\ \/ pc' = "unsettled" /\ failed' = TRUE /\ UNCHANGED <<at, rolling>>
                     \/ Exit
      BY <2>2, <3>2
    <3>3. QED
      BY <2>4, <3>1, <3>2 DEF Undo
  <2>5. QED
    BY <2>3, <2>4
<1>4. /\ DurableInv' /\ \A j \in 1 .. 7 : Cleared(j) => Cleared(j)'
      /\ e.gone = Present(Current) => \A k \in 1 .. 7 : k = rolling => Cleared(k)'
  <2>1. PICK k \in 1 .. 7 : k = rolling
    BY <1>2
  <2>2. e.gone \subseteq Present(Rollbacks[k]) /\ Current = Rollbacks[k]
    BY <1>2, <1>3, <2>1
  <2>3. /\ DurableInv' /\ \A j \in 1 .. 7 : Cleared(j) => Cleared(j)'
        /\ e.gone = Present(Rollbacks[k]) => Cleared(k)'
    BY <1>1, <1>2, <1>3, <2>2, RemovedKeeps
  <2>4. QED
    BY <2>1, <2>2, <2>3
<1>5. journal' # <<>> /\ LastEvent' = LastEvent
  BY <1>1, <1>2 DEF LastEvent
<1>6. CASE e.gone = Present(Current) /\ Continue("undone")
  <2>1. pc' = "undone" /\ UNCHANGED <<at, rolling, failed>> /\ pc' \in Rolls /\ pc' # "unsettled"
    BY <1>6 DEF Continue, Rolls, Undoing
  <2>2. rolling' \in 1 .. 8 /\ rolling' <= 7
    BY <1>2, <2>1
  <2>3. failed' \in BOOLEAN
    BY <1>2, <2>1
  <2>4. PlaceInv'
    BY <1>2, <1>5, <2>1, <2>2, <2>3, RollPlace
  <2>5. Cleared(rolling)'
    <3>1. \A k \in 1 .. 7 : k = rolling => Cleared(k)'
      BY <1>4, <1>6
    <3>2. QED
      BY <1>2, <2>1, <3>1
  <2>6. ~failed' => \A k \in 1 .. rolling' - 1 : Cleared(k)'
    <3>1. \A k \in 1 .. rolling - 1 : k \in 1 .. 7
      BY <1>2
    <3>2. QED
      BY <1>2, <1>4, <2>1, <3>1
  <2>7. QED
    BY <1>2, <1>4, <1>5, <2>1, <2>4, <2>5, <2>6, RollKeeps
<1>7. CASE pc' = "unsettled" /\ failed' = TRUE /\ UNCHANGED <<at, rolling>>
  <2>1. pc' \in Rolls /\ pc' # "undone"
    BY <1>7 DEF Rolls, Undoing
  <2>2. rolling' \in 1 .. 8 /\ rolling' <= 7
    BY <1>2, <1>7
  <2>3. failed' \in BOOLEAN /\ failed'
    BY <1>7
  <2>4. PlaceInv'
    BY <1>2, <1>5, <1>7, <2>1, <2>2, <2>3, RollPlace
  <2>5. QED
    BY <1>2, <1>4, <1>5, <2>1, <2>3, <2>4, RollKeeps
<1>8. CASE Exit
  BY <1>4, <1>8, ExitKeeps
<1>9. QED
  BY <1>3, <1>6, <1>7, <1>8

LEMMA SettleRollbackKeeps ==
    ASSUME InstallInv, SettleRollback
    PROVE  InstallInv'
<1> DEFINE event == IF pc = "undone" THEN "rollback-complete" ELSE "rollback-failed"
           row == Mark(event, Current.id)
<1>1. /\ pc \in {"undone", "unsettled"} /\ pc \in Rolls /\ pc \in Undoing
      /\ UNCHANGED <<host, foreign>>
      /\ \/ Written(row) /\ Advance /\ UNCHANGED failed
         \/ Broken(row) /\ Advance /\ failed' = TRUE
         \/ Broken(row) /\ Exit
  BY DEF SettleRollback, Rolls, Undoing
<1>2. /\ DurableInv /\ PlaceInv /\ journal # <<>>
      /\ LastEvent \notin Terminal /\ LastEvent # "operation-start"
      /\ rolling \in 1 .. 7 /\ Current = Rollbacks[rolling] /\ failed \in BOOLEAN
      /\ ~failed => \A k \in 1 .. rolling - 1 : Cleared(k)
  BY <1>1, InRolls
<1>3. /\ pc = "undone" => Cleared(rolling)
      /\ pc = "unsettled" => failed
  BY DEF InstallInv, WorkInv, PlaceInv
<1>4. /\ Current.id \in RollbackIds
      /\ \A k \in 1 .. 7 : Rollbacks[k].id = Current.id => k = rolling
  BY <1>2, RollbackFacts
<1>5. journal' = Append(journal, row) \/ journal' = journal
  BY <1>1 DEF Written, Broken, Durable
<1>6. /\ event \in RollbackEvents /\ event \notin Terminal /\ event # "recovery-complete"
      /\ event = "rollback-complete" => pc = "undone"
  BY DEF RollbackEvents, Terminal
<1> HIDE DEF event
<1>7. /\ DurableInv' /\ journal' # <<>> /\ LastEvent' # "operation-start"
      /\ LastEvent' \notin Terminal /\ \A k : Cleared(k)' = Cleared(k)
  BY <1>1, <1>2, <1>3, <1>4, <1>5, <1>6, RollRecorded
<1>8. CASE Advance /\ failed' \in {failed, TRUE}
  <2>1. pc' = "rollback" /\ rolling' = rolling + 1 /\ at' = at
    BY <1>8 DEF Advance
  <2>2. rolling' \in 1 .. 8
    BY <1>2, <2>1
  <2>3. failed' \in BOOLEAN
    BY <1>2, <1>8
  <2>4. pc' \in Rolls /\ pc' \notin Undoing /\ pc' # "unsettled" /\ pc' # "undone"
    BY <2>1 DEF Rolls, Undoing
  <2>5. PlaceInv'
    BY <1>2, <1>7, <2>1, <2>2, <2>3, <2>4, RollPlace
  <2>6. ~failed' => ~failed
    BY <1>8
  <2>7. ~failed' => Cleared(rolling)
    BY <1>1, <1>3, <2>6
  <2>8. \A k \in 1 .. rolling' - 1 : k \in 1 .. rolling - 1 \/ k = rolling
    BY <1>2, <2>1
  <2>9. ~failed' => \A k \in 1 .. rolling' - 1 : Cleared(k)'
    BY <1>2, <1>7, <2>6, <2>7, <2>8
  <2>10. QED
    BY <1>7, <2>4, <2>5, <2>9, RollKeeps
<1>9. CASE Exit
  BY <1>7, <1>9, ExitKeeps
<1>10. QED
  BY <1>1, <1>8, <1>9

\* When every rollback has undone what it owns the host is as it was.
LEMMA AllCleared ==
    ASSUME DurableInv, LastEvent # "operation-start", \A k \in 1 .. 7 : Cleared(k)
    PROVE  Clean
<1>1. SUFFICES ASSUME NEW o \in Objects, host[o] # "no"
               PROVE  host[o] = "yes" /\ o \in Kept \cup foreign
  BY DEF Clean
<1>2. host[o] = "live" => o = "registration"
  BY <1>1 DEF DurableInv, HostInv, HostType
<1>3. \/ host[o] = "yes" /\ o \in Kept \cup foreign
      \/ host[o] \in {"yes", "live"} /\ Receipted(o)
  BY <1>1, NothingMaking
<1>4. CASE o \in Kept
  BY <1>2, <1>3, <1>4 DEF Kept
<1>5. CASE o \notin Kept
  <2>1. PICK k \in 1 .. 7 : o \in Undone(k)
    BY <1>1, <1>5, AllUndone
  <2>2. o \in foreign
    BY <1>1, <2>1 DEF Cleared
  <2>3. ~Unobstructed
    BY <1>1, <1>5, <2>2 DEF Unobstructed
  <2>4. ~Receipted(o)
    BY <2>3 DEF DurableInv, ForeignInv, Receipted
  <2>5. QED
    BY <1>3, <2>2, <2>4
<1>6. QED
  BY <1>4, <1>5

LEMMA SettleKeeps ==
    ASSUME InstallInv, Settle
    PROVE  InstallInv'
<1> DEFINE event == IF failed THEN "recovery-failed" ELSE "recovery-complete"
           row == Mark(event, "none")
<1>1. /\ pc = "rollback" /\ pc \in Rolls /\ ~Pending /\ UNCHANGED <<host, foreign>>
      /\ Written(row) \/ Broken(row)
      /\ Exit
  BY DEF Settle, Rolls
<1>2. /\ DurableInv /\ journal # <<>> /\ LastEvent \notin Terminal
      /\ LastEvent # "operation-start" /\ rolling = 8 /\ failed \in BOOLEAN
      /\ ~failed => \A k \in 1 .. rolling - 1 : Cleared(k)
  BY <1>1, InRolls
<1>3. journal' = Append(journal, row) \/ journal' = journal
  BY <1>1 DEF Written, Broken, Durable
<1>4. /\ event \in RollbackEvents /\ event # "rollback-complete"
      /\ event = "recovery-complete" => ~failed
  BY DEF RollbackEvents
<1> HIDE DEF event
<1>5. rolling - 1 = 7
  BY <1>2
<1>6. ~failed => Clean
  BY <1>2, <1>5, AllCleared
<1>7. DurableInv'
  BY <1>1, <1>2, <1>3, <1>4, <1>6, RollRecorded
<1>8. QED
  BY <1>1, <1>7, ExitKeeps

-----------------------------------------------------------------------------
(* The theorems                                                            *)

LEMMA InitHolds == ASSUME Init PROVE InstallInv
<1>1. /\ journal = <<>> /\ pc = "idle" /\ at = First /\ rolling = 1 /\ failed = FALSE
      /\ host = [o \in Objects |-> IF o \in foreign THEN "yes" ELSE "no"]
  BY DEF Init, First
<1>2. journal \in Seq(RowType) /\ DOMAIN journal = {} /\ LastEvent = "none"
  BY <1>1 DEF LastEvent
<1>3. JournalInv
  BY <1>2 DEF JournalInv
<1>4. HostInv
  BY <1>1, <1>2 DEF HostInv, HostType, Stages, Accounted
<1>5. ForeignInv
  BY <1>1, <1>2 DEF ForeignInv
<1>6. RolledInv
  BY <1>2 DEF RolledInv, RolledBack, Rows
<1>7. EndInv
  BY <1>1, <1>2 DEF EndInv, Clean
<1>8. PlaceInv
  <2>1. at = [step |-> at.step, unit |-> at.unit] /\ at.step \in 1 .. 7
        /\ at.unit \in 1 .. Sizes[at.step]
    BY <1>1, SizeTable DEF First
  <2>2. pc \in Places /\ pc \notin Rolls /\ rolling \in 1 .. 8
    BY <1>1 DEF Places, Rolls, Undoing
  <2>3. failed \in BOOLEAN
    BY <1>1
  <2>4. QED
    BY <1>1, <2>1, <2>2, <2>3 DEF PlaceInv, Rolls
<1>9. LoopInv
  BY <1>1 DEF LoopInv, Rolls, Undoing
<1>10. WorkInv
  BY <1>1 DEF WorkInv, Rolls, Undoing, Loops
<1>11. QED
  BY <1>3, <1>4, <1>5, <1>6, <1>7, <1>8, <1>9, <1>10 DEF InstallInv, DurableInv

LEMMA StutterKeeps == ASSUME InstallInv, UNCHANGED vars PROVE InstallInv'
<1>1. /\ journal' = journal /\ host' = host /\ foreign' = foreign /\ pc' = pc /\ at' = at
      /\ rolling' = rolling /\ failed' = failed
  BY DEF vars
<1>2. DurableInv'
  BY <1>1, DurableSame DEF InstallInv
<1>3. PlaceInv'
  BY <1>1, Zenon DEF InstallInv, PlaceInv, LastEvent
<1>4. LoopInv'
  BY <1>1 DEF InstallInv, LoopInv, LastEvent, Step, Unit
<1>5. WorkInv'
  <2>1. Unit' = Unit /\ Installed' = Installed /\ \A k : Cleared(k)' = Cleared(k)
    BY <1>1 DEF Unit, Step, Installed, Complete, Cleared
  <2>2. Cleared(rolling)' = Cleared(rolling) /\ Unobstructed' = Unobstructed
    BY <1>1 DEF Cleared, Unobstructed
  <2>3. QED
    BY <1>1, <2>1, <2>2 DEF InstallInv, WorkInv, Settled
<1>6. QED
  BY <1>2, <1>3, <1>4, <1>5 DEF InstallInv

\* The journal, the host and the place of the process agree in every state of
\* execute_install_plan and of the recoveries after it.
THEOREM InstallSafety == Spec => []InstallInv
<1>1. InstallInv /\ [Next]_vars => InstallInv'
  <2>1. ASSUME InstallInv, Next PROVE InstallInv'
    BY <2>1, BeginKeeps, ResumeKeeps, StartStepKeeps, StartOperationKeeps, ApplyKeeps,
       CompleteOperationKeeps, CompleteStepKeeps, CompletePlanKeeps, ReconcileKeeps, AdoptKeeps,
       SkipRollbackKeeps, StartRollbackKeeps, UndoKeeps, SettleRollbackKeeps, SettleKeeps DEF Next
  <2>2. QED
    BY <2>1, StutterKeeps
<1>2. QED
  BY <1>1, InitHolds, PTL DEF Spec

\* The last row of the journal tells the truth about the host, whatever was killed
\* or failed on the way: a recovery that ends complete has left nothing the
\* transaction made, a plan that ends complete has everything in place.
THEOREM OutcomeTrue == Spec => []OutcomeIsTrue
<1>1. InstallInv => OutcomeIsTrue
  BY DEF InstallInv, DurableInv, EndInv, Clean, Installed, OutcomeIsTrue
<1>2. QED
  BY <1>1, InstallSafety, PTL

\* What a step does to the host: only a rollback removes a whole object, and it
\* removes what it owns, a secret after its copy.
Removes(e) ==
    /\ host' = HostAfter(e) /\ retained' = RetainedAfter(e)
    /\ e.gone \subseteq Present(Current) /\ e.gone \cap Secrets \subseteq e.copied
Adds == /\ retained' = retained
        /\ \A o \in Objects : host[o] \in {"yes", "live"} /\ host'[o] = "no" =>
                                  o = "candidate" /\ host'["authority"] = "yes"

LEMMA ApplyAdds ==
    ASSUME HostType, host' \in KilledIn(Unit)
    PROVE  \A o \in Objects : host[o] \in {"yes", "live"} /\ host'[o] = "no" =>
                                  o = "candidate" /\ host'["authority"] = "yes"
<1>1. CASE host' = host
  BY <1>1
<1>2. CASE Unit \notin ReadOnly /\ host' = Applied(Unit)
  <2>1. CASE Unit = "activation"
    BY <1>2, <2>1 DEF Applied, HostType, Objects
  <2>2. CASE Unit = "kickstart"
    BY <1>2, <2>2 DEF Applied, HostType, Objects
  <2>3. CASE Unit \notin {"activation", "kickstart"}
    <3>1. host' = [host EXCEPT ![Unit] = "yes"]
      BY <1>2, <2>3 DEF Applied
    <3>2. QED
      BY <3>1 DEF HostType
  <2>4. QED
    BY <2>1, <2>2, <2>3
<1>3. CASE host' \in Halfway(Unit)
  <2>1. \/ host' = [host EXCEPT ![Unit] = "temp"]
        \/ host' = [host EXCEPT ![Unit] = "both"]
        \/ host' = [host EXCEPT ![Unit] = "raw"]
        \/ host' = [host EXCEPT !["authority"] = "both"]
    BY <1>3 DEF Halfway, Published, Created
  <2>2. QED
    BY <2>1 DEF HostType
<1>4. Unit \in ReadOnly => Applied(Unit) = host
  BY DEF Applied, ReadOnly
<1>5. QED
  BY <1>1, <1>2, <1>3, <1>4 DEF KilledIn

LEMMA HostMoves ==
    ASSUME InstallInv, [Next]_vars
    PROVE  Adds \/ \E e : Removes(e)
<1>1. HostType
  BY DEF InstallInv, DurableInv, HostInv
<1>2. CASE host' = host /\ retained' = retained
  BY <1>2 DEF Adds
<1>3. CASE Apply
  <2>1. retained' = retained /\ host' \in KilledIn(Unit)
    BY <1>3 DEF Apply, KilledIn, FailedIn
  <2>2. QED
    BY <1>1, <2>1, ApplyAdds DEF Adds
<1>4. CASE Reconcile
  <2>1. retained' = retained
    BY <1>4 DEF Reconcile
  <2>2. CASE InFlight = {}
    BY <1>2, <1>4, <2>1, <2>2 DEF Reconcile
  <2>3. CASE InFlight # {}
    <3> DEFINE row == Last(journal)
               o == ObjectOf(row.unit)
               after == Reconciled(row.unit, row.intent).host
    <3>1. LastEvent = "operation-start"
      BY <2>3, InFlightIs DEF InstallInv, DurableInv
    <3>2. /\ journal[CHOOSE i \in InFlight : TRUE] = row
          /\ row.step \in StepIds /\ row.unit \in UnitsOf(row.step)
      BY <3>1, OpenRow DEF InstallInv
    <3>3. host' \in {host, after}
      BY <1>4, <2>3, <3>2 DEF Reconcile
    <3>4. CASE host' = host
      BY <1>2, <2>1, <3>4
    <3>5. CASE host' = after
      <4>1. ReconciledFine(row.unit, row.intent)
        BY <1>1, <3>2, ReconciledIs
      <4>2. \/ after = host
            \/ /\ \/ after = [host EXCEPT ![o] = "no"]
                  \/ after = [host EXCEPT ![o] = "yes"]
               /\ host[o] \in {"yes", "live"} => after[o] = host[o]
        BY <4>1 DEF ReconciledFine
      <4>3. ASSUME NEW x \in Objects, host[x] \in {"yes", "live"}, after[x] = "no" PROVE FALSE
        <5>1. x = o
          BY <1>1, <4>2, <4>3 DEF HostType
        <5>2. QED
          BY <4>2, <4>3, <5>1
      <4>4. QED
        BY <2>1, <3>5, <4>3 DEF Adds
    <3>6. QED
      BY <3>3, <3>4, <3>5
  <2>4. QED
    BY <2>2, <2>3
<1>5. CASE Undo
  <2>1. /\ Whole(Current).gone = Present(Current) /\ Whole(Current).copied = Present(Current) \cap Secrets
        /\ Untouched.gone = {} /\ Untouched.copied = {}
    BY DEF Whole, Untouched
  <2>2. \A e \in Cuts(Current) : /\ e.gone \subseteq Present(Current)
                                 /\ e.gone \cap Secrets \subseteq e.copied
    BY DEF Cuts, Reaches
  <2>3. \/ host' = HostAfter(Whole(Current)) /\ retained' = RetainedAfter(Whole(Current))
        \/ host' = HostAfter(Untouched) /\ retained' = RetainedAfter(Untouched)
        \/ \E e \in Cuts(Current) : host' = HostAfter(e) /\ retained' = RetainedAfter(e)
    BY <1>5 DEF Undo
  <2>4. QED
    BY <2>1, <2>2, <2>3 DEF Removes
<1>6. QED
  BY <1>2, <1>3, <1>4, <1>5 DEF Next, vars, Begin, Resume, Record, StartStep, StartOperation,
     CompleteOperation, CompleteStep, CompletePlan, Adopt, SkipRollback, StartRollback,
     SettleRollback, Settle

\* Nothing leaves the host but what a receipt in the journal says the transaction
\* made (_rollback_attempts and reconcile_operation).
THEOREM RemovedIsOwned == Spec => OnlyOwnedIsRemoved
<1> DEFINE A == \A o \in Objects :
                    (host[o] \in {"yes", "live"} /\ host'[o] = "no") =>
                        \/ \E i \in DOMAIN journal : o \in journal[i].receipt
                        \/ o = "candidate" /\ host'["authority"] = "yes"
<1>1. ASSUME InstallInv, [Next]_vars PROVE A
  <2>1. CASE Adds
    BY <2>1 DEF Adds
  <2>2. ASSUME NEW e, Removes(e) PROVE A
    <3>1. SUFFICES ASSUME NEW o \in Objects, host[o] \in {"yes", "live"}, host'[o] = "no"
                   PROVE  \E i \in DOMAIN journal : o \in journal[i].receipt
      OBVIOUS
    <3>2. o \in e.gone
      BY <2>2, <3>1 DEF Removes, HostAfter
    <3>3. o \in Owned(Current)
      BY <2>2, <3>2 DEF Removes, Present
    <3>4. QED
      BY <3>3, OwnedIs
  <2>3. QED
    BY <1>1, <2>1, <2>2, HostMoves
<1>2. InstallInv /\ [Next]_vars => [A]_vars
  BY <1>1
<1>3. QED
  BY <1>2, InstallSafety, PTL DEF Spec, OnlyOwnedIsRemoved

\* A signing seed or an authority is never destroyed: it leaves its place only when
\* a copy has been retained, and no copy is ever removed.
THEOREM SecretsKept == Spec => SecretsAreRetained
<1> DEFINE A == /\ retained \subseteq retained'
                /\ \A o \in {"seed", "authority"} :
                      (host[o] = "yes" /\ host'[o] = "no") => <<o, Transaction>> \in retained'
<1>1. ASSUME InstallInv, [Next]_vars PROVE A
  <2>1. CASE Adds
    BY <2>1 DEF Adds, Objects
  <2>2. ASSUME NEW e, Removes(e) PROVE A
    <3>1. SUFFICES ASSUME NEW o \in {"seed", "authority"}, host[o] = "yes", host'[o] = "no"
                   PROVE  <<o, Transaction>> \in retained'
      BY <2>2 DEF Removes, RetainedAfter
    <3>2. o \in e.gone
      BY <2>2, <3>1 DEF Removes, HostAfter, Objects
    <3>3. o \in e.copied /\ ContentOf(o) = o
      BY <2>2, <3>2 DEF Removes, Secrets, ContentOf
    <3>4. QED
      BY <2>2, <3>3 DEF Removes, RetainedAfter
  <2>3. QED
    BY <1>1, <2>1, <2>2, HostMoves
<1>2. InstallInv /\ [Next]_vars => [A]_vars
  BY <1>1
<1>3. QED
  BY <1>2, InstallSafety, PTL DEF Spec, SecretsAreRetained

-----------------------------------------------------------------------------
(* The installer can read its own journal                                  *)

LEMMA SegmentIs == ASSUME JournalInv PROVE SegmentReadable
  BY DEF JournalInv, SegmentReadable

LEMMA OwnershipIs == ASSUME JournalInv PROVE OwnershipReadable
<1>1. Cardinality(InFlight) <= 1
  <2>1. InFlight = {} \/ InFlight = {Len(journal)}
    BY InFlightIs
  <2>2. CASE InFlight = {}
    BY <2>2, FS_EmptySet
  <2>3. CASE InFlight = {Len(journal)}
    <3>1. Cardinality(InFlight) = 1
      BY <2>3, FS_Singleton
    <3>2. QED
      BY <3>1
  <2>4. QED
    BY <2>1, <2>2, <2>3
<1>2. ASSUME NEW i \in Rows("operation-complete"), NEW k \in Rows("operation-complete"),
             journal[i].step = journal[k].step, journal[i].unit = journal[k].unit
      PROVE  i = k
  <2>1. /\ i \in DOMAIN journal /\ journal[i].event = "operation-complete"
        /\ k \in DOMAIN journal /\ journal[k].event = "operation-complete"
    BY DEF Rows
  <2>2. Position(journal[i]) = i /\ Position(journal[k]) = k
    BY <2>1 DEF JournalInv, PlanEvents
  <2>3. Position(journal[i]) = Position(journal[k])
    BY <1>2, <2>1 DEF Position
  <2>4. QED
    BY <2>2, <2>3
<1>3. QED
  BY <1>1, <1>2 DEF OwnershipReadable

\* The number of a step, and what the reader knows after a row of the plan.
Number(step) == CASE step = "validate" -> 1 [] step = "identity" -> 2 [] step = "code" -> 3
                  [] step = "leaves" -> 4 [] step = "key" -> 5 [] step = "service" -> 6
                  [] OTHER -> 7
Seen(step, n) == {Units(step)[u] : u \in 1 .. n}

Reading(step, within, unit, index, seen) ==
    [ok |-> TRUE, rolled |-> FALSE, step |-> step, active |-> within, unit |-> unit,
     index |-> index, seen |-> seen]
StateAfter(row) ==
    CASE row.event = "transaction-start" -> Unread
      [] row.event = "step-start" -> Reading(Number(row.step), row.step, "none", 1, {})
      [] row.event = "operation-start" ->
             Reading(Number(row.step), row.step, row.unit, Place(row.unit),
                     Seen(row.step, Place(row.unit)))
      [] row.event = "operation-complete" ->
             Reading(Number(row.step), row.step, "none", Place(row.unit),
                     Seen(row.step, Place(row.unit)))
      [] OTHER -> Reading(Number(row.step), "none", "none", Len(Units(row.step)),
                          Seen(row.step, Len(Units(row.step))))

LEMMA NumberIs ==
    ASSUME NEW s \in 1 .. 7
    PROVE  Number(Steps[s]) = s
  BY StepTable DEF Number

\* The units of a step differ.
LEMMA UnitsDiffer ==
    ASSUME NEW s \in 1 .. 7, NEW u \in 1 .. Sizes[s], NEW v \in 1 .. Sizes[s],
           Units(Steps[s])[u] = Units(Steps[s])[v]
    PROVE  u = v
<1>1. Place(Units(Steps[s])[u]) = u /\ Place(Units(Steps[s])[v]) = v
  BY UnitFacts
<1>2. QED
  BY <1>1

\* Reading a row of the plan after the row it follows.
LEMMA ReadFollows ==
    ASSUME NEW prev, NEW row, RowFits(prev), RowFits(row), Follows(prev, row),
           row.event \in PlanEvents
    PROVE  ReadRow(StateAfter(prev), row) = StateAfter(row)
<1>1. row.event \notin RollbackEvents /\ row.event # "plan-complete"
  BY EventsApart
<1>2. CASE row.event = "step-start"
  <2>1. PICK s \in 1 .. 7 : row.step = Steps[s]
    BY <1>2 DEF RowFits, StepIds
  <2>2. StateAfter(row) = Reading(s, row.step, "none", 1, {})
    BY <1>2, <2>1, NumberIs DEF StateAfter
  <2>3. ASSUME NEW index, NEW seen, StateAfter(prev) = Reading(s - 1, "none", "none", index, seen)
        PROVE  ReadRow(StateAfter(prev), row) = StateAfter(row)
    <3>1. s - 1 < Len(Steps) /\ Steps[(s - 1) + 1] = row.step /\ (s - 1) + 1 = s
      BY <2>1, StepTable
    <3>2. QED
      <4>1. ReadRow(Reading(s - 1, "none", "none", index, seen), row)
            = Reading(s, row.step, "none", 1, {})
        BY <1>1, <1>2, <3>1 DEF ReadRow, Reading
      <4>2. QED
        BY <2>2, <2>3, <4>1
  <2>4. CASE prev.event = "transaction-start" /\ row.step = Steps[1]
    <3>1. s = 1
      <4>1. 1 \in 1 .. 7 /\ Number(Steps[s]) = s
        BY NumberIs
      <4>2. Number(Steps[1]) = 1
        BY <4>1, NumberIs
      <4>3. QED
        BY <2>1, <2>4, <4>1, <4>2
    <3>2. StateAfter(prev) = Reading(s - 1, "none", "none", 1, {})
      BY <2>4, <3>1 DEF StateAfter, Unread, Reading
    <3>3. QED
      BY <2>3, <3>2
  <2>5. ASSUME NEW k \in 1 .. 6, prev.event = "step-complete", prev.step = Steps[k],
               row.step = Steps[k + 1]
        PROVE  ReadRow(StateAfter(prev), row) = StateAfter(row)
    <3>1. k \in 1 .. 7 /\ k + 1 \in 1 .. 7
      OBVIOUS
    <3>2. s = k + 1 /\ s - 1 = k
      <4>1. Number(Steps[s]) = s /\ Number(Steps[k + 1]) = k + 1
        BY <3>1, NumberIs
      <4>2. QED
        BY <2>1, <2>5, <4>1
    <3>3. Number(prev.step) = s - 1
      BY <2>5, <3>1, <3>2, NumberIs
    <3>4. StateAfter(prev) = Reading(s - 1, "none", "none", Len(Units(prev.step)),
                                     Seen(prev.step, Len(Units(prev.step))))
      BY <2>5, <3>3 DEF StateAfter
    <3>5. QED
      BY <2>3, <3>4
  <2>6. QED
    BY <1>2, <2>4, <2>5 DEF Follows, RollbackEvents
<1>3. CASE row.event = "operation-start"
  <2>1. PICK s \in 1 .. 7 : row.step = Steps[s]
    BY <1>3 DEF RowFits, StepIds
  <2>2. Len(Units(row.step)) = Sizes[s] /\ Sizes[s] \in {1, 2, 3} /\ prev.step = row.step
        /\ Number(row.step) = s
    BY <1>3, <2>1, SizeFacts, NumberIs DEF Follows, RollbackEvents
  <2>3. CASE prev.event = "step-start" /\ row.unit = Units(row.step)[1]
    <3>1. Place(row.unit) = 1
      BY <2>1, <2>2, <2>3, UnitFacts
    <3>2. StateAfter(prev) = Reading(s, row.step, "none", 1, {})
      BY <2>2, <2>3 DEF StateAfter
    <3>3. StateAfter(row) = Reading(s, row.step, row.unit, 1, Seen(row.step, 1))
      BY <1>3, <2>2, <3>1 DEF StateAfter
    <3>4. Seen(row.step, 1) = {row.unit}
      BY <2>3 DEF Seen
    <3>5. ReadRow(Reading(s, row.step, "none", 1, {}), row)
          = Reading(s, row.step, row.unit, 1, {row.unit})
      BY <1>1, <1>3, <2>3 DEF ReadRow, Reading
    <3>6. QED
      BY <3>2, <3>3, <3>4, <3>5
  <2>4. ASSUME NEW k \in 1 .. Len(Units(row.step)) - 1, prev.event = "operation-complete",
               prev.unit = Units(row.step)[k], row.unit = Units(row.step)[k + 1]
        PROVE  ReadRow(StateAfter(prev), row) = StateAfter(row)
    <3>1. k \in 1 .. Sizes[s] /\ k + 1 \in 1 .. Sizes[s] /\ k < Sizes[s]
      BY <2>2
    <3>2. Place(prev.unit) = k /\ Place(row.unit) = k + 1
      BY <2>1, <2>4, <3>1, UnitFacts
    <3>3. StateAfter(prev) = Reading(s, row.step, "none", k, Seen(row.step, k))
      BY <2>2, <2>4, <3>2 DEF StateAfter
    <3>4. StateAfter(row) = Reading(s, row.step, row.unit, k + 1, Seen(row.step, k + 1))
      BY <1>3, <2>2, <3>2 DEF StateAfter
    <3>5. row.unit # Units(row.step)[k]
      BY <2>1, <2>4, <3>1, UnitsDiffer
    <3>6. row.unit \notin Seen(row.step, k)
      <4>1. ASSUME NEW u \in 1 .. k, Units(row.step)[u] = row.unit PROVE FALSE
        <5>1. u \in 1 .. Sizes[s]
          BY <2>2, <3>1
        <5>2. u = k + 1
          BY <2>1, <2>4, <3>1, <4>1, <5>1, UnitsDiffer
        <5>3. QED
          BY <3>1, <5>2
      <4>2. QED
        BY <4>1 DEF Seen
    <3>7. Seen(row.step, k + 1) = Seen(row.step, k) \cup {row.unit}
      <4>1. 1 .. k + 1 = 1 .. k \cup {k + 1}
        BY <3>1
      <4>2. QED
        BY <2>4, <4>1 DEF Seen
    <3>8. ReadRow(Reading(s, row.step, "none", k, Seen(row.step, k)), row)
          = Reading(s, row.step, row.unit, k + 1, Seen(row.step, k) \cup {row.unit})
      BY <1>1, <1>3, <2>2, <2>4, <3>1, <3>5, <3>6 DEF ReadRow, Reading
    <3>9. QED
      BY <3>3, <3>4, <3>7, <3>8
  <2>5. QED
    BY <1>3, <2>3, <2>4 DEF Follows, RollbackEvents
<1>4. CASE row.event = "operation-complete"
  <2>1. prev.event = "operation-start" /\ prev.step = row.step /\ prev.unit = row.unit
    BY <1>4 DEF Follows, RollbackEvents
  <2> DEFINE index == Place(row.unit)
             seen == Seen(row.step, Place(row.unit))
             number == Number(row.step)
  <2>2. StateAfter(prev) = Reading(number, row.step, row.unit, index, seen)
    BY <2>1 DEF StateAfter
  <2>3. StateAfter(row) = Reading(number, row.step, "none", index, seen)
    BY <1>4 DEF StateAfter
  <2>4. ReadRow(Reading(number, row.step, row.unit, index, seen), row)
        = Reading(number, row.step, "none", index, seen)
    <3> HIDE DEF index, seen, number
    <3>1. QED
      BY <1>1, <1>4 DEF ReadRow, Reading
  <2>5. QED
    BY <2>2, <2>3, <2>4
<1>5. CASE row.event = "step-complete"
  <2>1. /\ prev.event = "operation-complete" /\ prev.step = row.step
        /\ prev.unit = Units(row.step)[Len(Units(row.step))]
    BY <1>5 DEF Follows, RollbackEvents
  <2>2. PICK s \in 1 .. 7 : row.step = Steps[s]
    BY <1>5 DEF RowFits, StepIds
  <2>3. Len(Units(row.step)) = Sizes[s] /\ Sizes[s] \in {1, 2, 3}
    BY <2>2, SizeFacts
  <2>4. Place(prev.unit) = Len(Units(row.step))
    <3>1. Sizes[s] \in 1 .. Sizes[s]
      BY <2>3
    <3>2. QED
      BY <2>1, <2>2, <2>3, <3>1, UnitFacts
  <2> DEFINE index == Len(Units(row.step))
             seen == Seen(row.step, index)
             number == Number(row.step)
  <2>5. StateAfter(prev) = Reading(number, row.step, "none", index, seen)
    BY <2>1, <2>4 DEF StateAfter
  <2>6. StateAfter(row) = Reading(number, "none", "none", index, seen)
    BY <1>5 DEF StateAfter
  <2>7. ReadRow(Reading(number, row.step, "none", index, seen), row)
        = Reading(number, "none", "none", index, seen)
    <3> HIDE DEF seen, number
    <3>1. QED
      BY <1>1, <1>5 DEF ReadRow, Reading
  <2>8. QED
    BY <2>5, <2>6, <2>7
<1>6. row.event # "transaction-start"
  BY <1>1, FollowsCounts
<1>7. QED
  BY <1>2, <1>3, <1>4, <1>5, <1>6 DEF PlanEvents

LEMMA EventIs ==
    ASSUME JournalInv, NEW i \in DOMAIN journal, journal[i].event \notin PlanEvents
    PROVE  journal[i].event \in RollbackEvents \cup {"plan-complete"}
<1>1. journal[i] \in RowType
  BY DEF JournalInv
<1>2. journal[i].event \in Events
  BY <1>1 DEF RowType
<1>3. QED
  BY <1>2 DEF Events

\* The rows of the plan come first.
LEMMA PlanFirst ==
    ASSUME JournalInv
    PROVE  \E last \in 0 .. Len(journal) :
               \A i \in DOMAIN journal : journal[i].event \in PlanEvents <=> i <= last
<1> DEFINE S == {i \in DOMAIN journal : journal[i].event \notin PlanEvents}
<1>1. Len(journal) \in Nat /\ DOMAIN journal = 1 .. Len(journal)
  BY DEF JournalInv
<1>2. CASE S = {}
  <2>1. \A i \in DOMAIN journal : journal[i].event \in PlanEvents /\ i <= Len(journal)
    BY <1>1, <1>2
  <2>2. QED
    BY <1>1, <2>1
<1>3. CASE S # {}
  <2>1. S \in SUBSET Nat
    BY <1>1
  <2>2. PICK n \in S : \A m \in S : n <= m
    BY <1>3, <2>1, Smallest
  <2>3. n \in 1 .. Len(journal) /\ n \in DOMAIN journal /\ journal[n].event \notin PlanEvents
    BY <1>1, <2>2
  <2>4. ASSUME NEW i \in DOMAIN journal, i <= n - 1 PROVE journal[i].event \in PlanEvents
    <3>1. CASE i \in S
      BY <1>1, <2>2, <2>3, <2>4, <3>1
    <3>2. QED
      BY <3>1
  <2>5. ASSUME NEW i \in DOMAIN journal, ~(i <= n - 1) PROVE journal[i].event \notin PlanEvents
    <3>1. n <= i /\ i <= Len(journal)
      BY <1>1, <2>3, <2>5
    <3>2. journal[n].event \in RollbackEvents \cup {"plan-complete"}
      BY <2>3, EventIs
    <3>3. CASE i = n
      BY <2>3, <3>3
    <3>4. CASE n < i
      <4>1. journal[n].event \in RollbackEvents
        BY <1>1, <2>3, <3>1, <3>2, <3>4 DEF JournalInv, Terminal
      <4>2. journal[i].event \in RollbackEvents
        BY <2>3, <3>4, <4>1 DEF JournalInv
      <4>3. QED
        BY <4>2, EventsApart
    <3>5. QED
      BY <1>1, <2>3, <3>1, <3>3, <3>4
  <2>6. n - 1 \in 0 .. Len(journal)
    BY <1>1, <2>3
  <2>7. QED
    BY <2>4, <2>5, <2>6
<1>4. QED
  BY <1>2, <1>3

\* What the reader knows after a row, in closed form: the rollbacks' rows only tell
\* it that one began.
Rolled(s) == [s EXCEPT !.rolled = TRUE]
Known(last, i) ==
    IF i <= last THEN StateAfter(journal[i])
    ELSE IF journal[i].event \in RollbackEvents THEN Rolled(StateAfter(journal[last]))
    ELSE StateAfter(journal[last])

LEMMA RolledIs ==
    ASSUME NEW step, NEW within, NEW unit, NEW index, NEW seen
    PROVE  LET s == Reading(step, within, unit, index, seen)
           IN  s.ok /\ ~s.rolled /\ Rolled(s).ok /\ Rolled(s).rolled
<1>1. Reading(step, within, unit, index, seen).ok /\ ~Reading(step, within, unit, index, seen).rolled
  BY DEF Reading
<1>2. Rolled(Reading(step, within, unit, index, seen)).ok
  BY DEF Reading, Rolled
<1>3. Rolled(Reading(step, within, unit, index, seen)).rolled
  BY DEF Reading, Rolled
<1>4. QED
  BY <1>1, <1>2, <1>3

LEMMA StateIs ==
    ASSUME NEW row, row.event \in PlanEvents
    PROVE  LET s == StateAfter(row)
           IN  s.ok /\ ~s.rolled /\ Rolled(s).ok /\ Rolled(s).rolled
<1>1. \E step, within, unit, index, seen :
          StateAfter(row) = Reading(step, within, unit, index, seen)
  <2>1. CASE row.event = "transaction-start"
    <3>1. StateAfter(row) = Reading(0, "none", "none", 1, {})
      BY <2>1 DEF StateAfter, Unread, Reading
    <3>2. QED
      BY <3>1
  <2>2. CASE row.event = "step-start"
    <3>1. StateAfter(row) = Reading(Number(row.step), row.step, "none", 1, {})
      BY <2>2 DEF StateAfter
    <3>2. QED
      BY <3>1
  <2>3. CASE row.event = "operation-start"
    <3>1. StateAfter(row) = Reading(Number(row.step), row.step, row.unit, Place(row.unit),
                                    Seen(row.step, Place(row.unit)))
      BY <2>3 DEF StateAfter
    <3>2. QED
      BY <3>1
  <2>4. CASE row.event = "operation-complete"
    <3>1. StateAfter(row) = Reading(Number(row.step), row.step, "none", Place(row.unit),
                                    Seen(row.step, Place(row.unit)))
      BY <2>4 DEF StateAfter
    <3>2. QED
      BY <3>1
  <2>5. CASE row.event = "step-complete"
    <3>1. StateAfter(row) = Reading(Number(row.step), "none", "none", Len(Units(row.step)),
                                    Seen(row.step, Len(Units(row.step))))
      BY <2>5 DEF StateAfter
    <3>2. QED
      BY <3>1
  <2>6. QED
    BY <2>1, <2>2, <2>3, <2>4, <2>5 DEF PlanEvents
<1>2. PICK step, within, unit, index, seen :
          StateAfter(row) = Reading(step, within, unit, index, seen)
  BY <1>1
<1>3. QED
  BY <1>2, RolledIs

\* The next row leads from one to the next.
LEMMA ReadOn ==
    ASSUME JournalInv, NEW last \in 0 .. Len(journal),
           \A k \in DOMAIN journal : journal[k].event \in PlanEvents <=> k <= last,
           NEW i \in DOMAIN journal, i # 1
    PROVE  ReadRow(Known(last, i - 1), journal[i]) = Known(last, i)
<1>1. /\ DOMAIN journal = 1 .. Len(journal) /\ Len(journal) \in Nat /\ i - 1 \in DOMAIN journal
      /\ i - 1 \in 1 .. Len(journal) /\ i - 1 < Len(journal) /\ (i - 1) + 1 = i /\ i \in Nat
      /\ 1 \in DOMAIN journal /\ i - 1 < i
  BY DEF JournalInv
<1>2. Follows(journal[i - 1], journal[i]) /\ RowFits(journal[i - 1]) /\ RowFits(journal[i])
  BY <1>1 DEF JournalInv
<1>3. last \in DOMAIN journal /\ last \in Nat
  <2>1. journal[1].event \in PlanEvents
    BY <1>1 DEF JournalInv, PlanEvents
  <2>2. QED
    BY <1>1, <2>1
<1>4. journal[last].event \in PlanEvents
  BY <1>3
<1> DEFINE s == StateAfter(journal[last])
<1>5. s.ok /\ ~s.rolled /\ Rolled(s).ok /\ Rolled(s).rolled
  BY <1>4, StateIs
<1>6. CASE i <= last
  <2>1. journal[i].event \in PlanEvents /\ i - 1 <= last
    BY <1>1, <1>3, <1>6
  <2>2. QED
    BY <1>2, <1>6, <2>1, ReadFollows DEF Known
<1>7. CASE i - 1 = last
  <2>1. Known(last, i - 1) = s /\ ~(i <= last)
    BY <1>1, <1>3, <1>7 DEF Known
  <2>2. journal[i].event \in RollbackEvents \cup {"plan-complete"}
    BY <2>1, EventIs
  <2>3. CASE journal[i].event \in RollbackEvents
    <3>1. journal[i].event # "plan-complete"
      BY <2>3, EventsApart
    <3>2. ReadRow(s, journal[i]) = Rolled(s)
      <4> HIDE DEF s
      <4>1. QED
        BY <1>5, <2>3, <3>1 DEF ReadRow, Rolled
    <3>3. QED
      BY <2>1, <2>3, <3>2 DEF Known
  <2>4. CASE journal[i].event = "plan-complete"
    <3>1. ReadRow(s, journal[i]) = s
      <4> HIDE DEF s
      <4>1. QED
        BY <2>4 DEF ReadRow
    <3>2. journal[i].event \notin RollbackEvents
      BY <2>4, EventsApart
    <3>3. QED
      BY <2>1, <3>1, <3>2 DEF Known
  <2>5. QED
    BY <2>2, <2>3, <2>4
<1>8. CASE i - 1 > last
  <2>1. ~(i <= last) /\ ~(i - 1 <= last)
    BY <1>1, <1>3, <1>8
  <2>2. journal[i - 1].event \in RollbackEvents \cup {"plan-complete"}
    BY <1>1, <2>1, EventIs
  <2>3. journal[i - 1].event \in RollbackEvents
    BY <1>1, <2>2 DEF JournalInv, Terminal
  <2>4. journal[i].event \in RollbackEvents
    BY <1>1, <2>3 DEF JournalInv
  <2>5. Known(last, i - 1) = Rolled(s) /\ Known(last, i) = Rolled(s)
    BY <2>1, <2>3, <2>4 DEF Known
  <2>6. ReadRow(Rolled(s), journal[i]) = Rolled(s)
    <3> DEFINE t == Rolled(s)
    <3>1. t.rolled
      BY <1>5
    <3> HIDE DEF t
    <3>2. ReadRow(t, journal[i]) = t
      BY <3>1 DEF ReadRow
    <3>3. QED
      BY <3>2 DEF t
  <2>7. QED
    BY <2>5, <2>6
<1>9. QED
  BY <1>1, <1>3, <1>6, <1>7, <1>8

\* The reader's recursion has that solution, and no other.
LEMMA ReadIs ==
    ASSUME JournalInv, NEW last \in 0 .. Len(journal),
           \A k \in DOMAIN journal : journal[k].event \in PlanEvents <=> k <= last
    PROVE  \A i \in DOMAIN journal : ReadUpTo[i] = Known(last, i)
<1> DEFINE By(f) == [i \in DOMAIN journal |->
                        IF i = 1 THEN Unread ELSE ReadRow(f[i - 1], journal[i])]
           known == [i \in DOMAIN journal |-> Known(last, i)]
<1>1. DOMAIN journal = 1 .. Len(journal) /\ Len(journal) \in Nat
  BY DEF JournalInv
<1>2. ASSUME NEW i \in DOMAIN journal, i = 1 PROVE Known(last, i) = Unread
  <2>1. journal[i].event = "transaction-start"
    BY <1>2 DEF JournalInv
  <2>2. i <= last
    BY <2>1 DEF PlanEvents
  <2>3. QED
    BY <2>1, <2>2 DEF Known, StateAfter
<1>3. ASSUME NEW i \in DOMAIN journal
      PROVE  known[i] = IF i = 1 THEN Unread ELSE ReadRow(known[i - 1], journal[i])
  <2>1. CASE i = 1
    BY <1>2, <2>1
  <2>2. CASE i # 1
    <3>1. i - 1 \in DOMAIN journal
      BY <1>1, <2>2
    <3>2. known[i - 1] = Known(last, i - 1) /\ known[i] = Known(last, i)
      BY <3>1
    <3>3. ReadRow(Known(last, i - 1), journal[i]) = Known(last, i)
      BY <2>2, ReadOn
    <3>4. QED
      BY <2>2, <3>2, <3>3
  <2>3. QED
    BY <2>1, <2>2
<1>4. known = By(known)
  BY <1>3
<1>5. ReadUpTo = CHOOSE f : f = By(f)
  BY DEF ReadUpTo
<1>6. ReadUpTo = By(ReadUpTo)
  <2> HIDE DEF By, known
  <2>1. QED
    BY <1>4, <1>5
<1>7. ASSUME NEW i \in DOMAIN journal
      PROVE  ReadUpTo[i] = IF i = 1 THEN Unread ELSE ReadRow(ReadUpTo[i - 1], journal[i])
  <2> DEFINE f == ReadUpTo
  <2>1. f = By(f)
    BY <1>6
  <2> HIDE DEF f
  <2>2. f[i] = IF i = 1 THEN Unread ELSE ReadRow(f[i - 1], journal[i])
    BY <2>1
  <2>3. QED
    BY <2>2 DEF f
<1> DEFINE Wrong == {i \in DOMAIN journal : ReadUpTo[i] # Known(last, i)}
<1>8. Wrong = {}
  <2>1. SUFFICES ASSUME Wrong # {} PROVE FALSE
    OBVIOUS
  <2>2. Wrong \in SUBSET Nat
    BY <1>1
  <2>3. PICK n \in Wrong : \A m \in Wrong : n <= m
    BY <2>1, <2>2, Smallest
  <2>4. n \in DOMAIN journal /\ ReadUpTo[n] # Known(last, n)
    BY <2>3
  <2>5. n # 1
    BY <1>2, <1>7, <2>4
  <2>6. n - 1 \in DOMAIN journal /\ ~(n <= n - 1)
    BY <1>1, <2>4, <2>5
  <2>7. n - 1 \notin Wrong
    BY <2>3, <2>6
  <2>8. ReadUpTo[n - 1] = Known(last, n - 1)
    BY <2>6, <2>7
  <2>9. ReadUpTo[n] = ReadRow(Known(last, n - 1), journal[n])
    BY <1>7, <2>4, <2>5, <2>8
  <2>10. QED
    BY <2>4, <2>5, <2>9, ReadOn
<1>9. QED
  BY <1>8

LEMMA OrderIs == ASSUME JournalInv PROVE OrderReadable
<1>1. SUFFICES ASSUME journal # <<>> PROVE ReadUpTo[Len(journal)].ok
  <2>1. ASSUME NEW i \in DOMAIN journal PROVE journal # <<>>
    BY DEF JournalInv
  <2>2. QED
    BY <2>1, <1>1 DEF OrderReadable
<1>2. Len(journal) \in DOMAIN journal /\ 1 \in DOMAIN journal /\ DOMAIN journal = 1 .. Len(journal)
  BY <1>1 DEF JournalInv
<1>3. PICK last \in 0 .. Len(journal) :
          \A i \in DOMAIN journal : journal[i].event \in PlanEvents <=> i <= last
  BY PlanFirst
<1>4. ReadUpTo[Len(journal)] = Known(last, Len(journal))
  BY <1>2, <1>3, ReadIs
<1>5. last \in DOMAIN journal
  <2>1. journal[1].event \in PlanEvents
    BY <1>2 DEF JournalInv, PlanEvents
  <2>2. QED
    BY <1>2, <1>3, <2>1
<1>6. journal[last].event \in PlanEvents
  BY <1>3, <1>5
<1>7. StateAfter(journal[last]).ok /\ Rolled(StateAfter(journal[last])).ok
  BY <1>6, StateIs
<1>8. CASE Len(journal) <= last
  <2>1. StateAfter(journal[Len(journal)]).ok
    BY <1>2, <1>3, <1>8, StateIs
  <2>2. QED
    BY <1>4, <1>8, <2>1 DEF Known
<1>9. QED
  BY <1>4, <1>7, <1>8 DEF Known

\* The journal stays readable by the installer's own rules, however often it is killed
\* and recovered: _journal_segments, _validate_operation_journal_order and
\* _recover_operation_ownership never refuse what the installer has written.
THEOREM JournalRead == Spec => []JournalReadable
<1>1. InstallInv => JournalReadable
  BY SegmentIs, OrderIs, OwnershipIs DEF InstallInv, DurableInv, JournalReadable, Readable
<1>2. QED
  BY <1>1, InstallSafety, PTL
==============================================================================
