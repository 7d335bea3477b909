------------------------- MODULE InstallTransaction -------------------------
(***************************************************************************)
(* The privileged installer of src/runtime/w3_broker_executor.py: one      *)
(* process at a time (the journal's exclusive flock) walks the install     *)
(* plan, writes every transition to a hash-chained journal before and      *)
(* after the effect on the host, and undoes a plan that stopped halfway    *)
(* from the ownership receipts the journal holds.                          *)
(*                                                                         *)
(* The plan is reduced to one representative of every kind of operation    *)
(* the roster has: an account (group, user), a directory, a file published *)
(* through a temporary name, a retained leaf, a mutable directory, the     *)
(* signing seed, the prepared authority, a launchd registration, the       *)
(* activation of the authority and the kickstart after it.  The program    *)
(* can be killed between any two effects, every effect and every append    *)
(* can fail, and the administrator starts it again.                        *)
(***************************************************************************)
EXTENDS Naturals, Sequences, FiniteSets, SequencesExt

CONSTANTS MaxTransactions,  \* bound: installations tried
          MaxFaults,        \* bound: kills and failing calls
          MaxRecoveries,    \* bound: recoveries that end in recovery-failed
          Foreign           \* sets of objects that may be on the host before

Objects == {"group", "user", "directory", "file", "ledger", "active", "seed",
            "candidate", "registration", "authority"}

ASSUME BoundsAssumption ==
    /\ MaxTransactions \in Nat \ {0}
    /\ MaxFaults \in Nat
    /\ MaxRecoveries \in Nat
    /\ Foreign \subseteq SUBSET Objects

VARIABLES
    closed,    \* transactions before the last one, all rolled back
    journal,   \* the rows of the last transaction, oldest first
    torn,      \* TRUE: the file ends in an incomplete record
    host,      \* what the host has of every object
    retained,  \* copies kept for evidence: <<object, transaction>>
    pc,        \* where the running process is, "idle" when none runs
    at,        \* [step, unit]: the operation the loops have reached
    rolling,   \* index of the rollback under way
    failed,    \* TRUE: rollback_failures is not empty
    foreign,   \* what was on the host before the first installation
    faults     \* kills and failures so far

vars == <<closed, journal, torn, host, retained, pc, at, rolling, failed, foreign,
          faults>>

-----------------------------------------------------------------------------
(* The plan and its operations                                             *)

\* The steps in the order the plan lists them.
Steps == <<"validate", "identity", "code", "leaves", "key", "service",
           "authority">>

\* The operation units of a step, in order.
Units(step) ==
    CASE step = "validate"  -> <<"preflight">>
      [] step = "identity"  -> <<"group", "user">>
      [] step = "code"      -> <<"directory", "file">>
      [] step = "leaves"    -> <<"ledger", "active">>
      [] step = "key"       -> <<"seed", "candidate">>
      [] step = "service"   -> <<"registration">>
      [] step = "authority" -> <<"activation", "kickstart", "final">>

Published == {"file", "seed", "candidate"}      \* temporary name, link, unlink
Created   == {"directory", "active", "ledger"}  \* made first, owner set after
Kept      == {"directory", "ledger"}            \* may be there from before
ReadOnly  == {"preflight", "final"}

\* The object whose ownership the receipt of a unit states.
ObjectOf(u) ==
    CASE u = "activation" -> "authority"
      [] u = "kickstart"  -> "registration"
      [] OTHER            -> u

\* What operation_intent records about the object before the operation.
IntentOf(u) ==
    CASE u \in ReadOnly -> "none"
      [] u \in Kept /\ host[u] # "no" -> "existing"
      [] OTHER -> "absent"

\* The read-only operations: nothing of the service is there yet, everything is.
Unoccupied == \A o \in Objects :
                  host[o] = "no" \/ (host[o] = "yes" /\ o \in Kept)
Complete == /\ \A o \in Objects \ {"candidate"} : host[o] \in {"yes", "live"}
            /\ host["candidate"] = "no"

\* operation_intent refuses to activate over an active authority, and the
\* operations check what they find before they act.
Applicable(u) ==
    /\ u = "preflight" => Unoccupied
    /\ u \in Kept => host[u] \in {"no", "yes"}
    /\ u \in Objects \ Kept => host[u] = "no"
    /\ u = "activation" => host["candidate"] = "yes" /\ host["authority"] = "no"
    /\ u = "kickstart" => host["registration"] # "no" /\ host["authority"] = "yes"
    /\ u = "final" => Complete

\* The host when the operation has run to its end.
Applied(u) ==
    CASE u \in ReadOnly -> host
      [] u = "activation" -> [host EXCEPT !["authority"] = "yes", !["candidate"] = "no"]
      [] u = "kickstart" -> [host EXCEPT !["registration"] = "live"]
      [] OTHER -> [host EXCEPT ![u] = "yes"]

\* The hosts an operation can stop at before its end; a publication removes its
\* temporary name on an exception, and only a kill leaves it alone.
Halfway(u) ==
    CASE u \in Published /\ host[u] = "no" ->
             {[host EXCEPT ![u] = stage] : stage \in {"temp", "both"}}
      [] u \in Created /\ host[u] = "no" -> {[host EXCEPT ![u] = "raw"]}
      [] u = "activation" -> {[host EXCEPT !["authority"] = "both"]}
      [] OTHER -> {}

KilledIn(u) == {host, Applied(u)} \cup Halfway(u)
FailedIn(u) == {h \in KilledIn(u) : u \in Published => h[u] # "temp"}

-----------------------------------------------------------------------------
(* The journal                                                             *)

Transaction == closed + 1
LastEvent == IF journal = <<>> THEN "none" ELSE Last(journal).event

Row(event, step, unit, intent, receipt) ==
    [event |-> event, step |-> step, unit |-> unit,
     intent |-> intent, receipt |-> receipt]

Mark(event, step) == Row(event, step, "none", "none", {})

Terminal == {"plan-complete", "recovery-complete"}

\* _journal_segments: a transaction begins with its start and nothing follows
\* its end.
SegmentReadable ==
    \A i \in DOMAIN journal :
        /\ i = 1 <=> journal[i].event = "transaction-start"
        /\ i < Len(journal) => journal[i].event \notin Terminal

RollbackEvents == {"rollback-start", "rollback-complete", "rollback-failed",
                   "recovery-complete", "recovery-failed"}

\* One row of _validate_operation_journal_order; "index" is the position in the
\* roster of the operation the row may name, or of the one after it.
ReadRow(s, row) ==
    LET roster == Units(s.active)
        index == IF /\ s.index < Len(roster) /\ row.unit # roster[s.index]
                    /\ row.unit = roster[s.index + 1]
                 THEN s.index + 1 ELSE s.index
        Reject == [s EXCEPT !.ok = FALSE]
    IN IF s.rolled \/ row.event = "plan-complete" \/ ~s.ok THEN s
       ELSE IF row.event \in RollbackEvents THEN [s EXCEPT !.rolled = TRUE]
       ELSE CASE row.event = "step-start" ->
                IF s.step < Len(Steps) /\ row.step = Steps[s.step + 1] /\ s.active = "none"
                THEN [s EXCEPT !.step = @ + 1, !.active = row.step, !.index = 1, !.seen = {}]
                ELSE Reject
         [] row.event = "operation-start" ->
                IF /\ s.active = row.step /\ s.unit = "none"
                   /\ row.unit = roster[index] /\ row.unit \notin s.seen
                THEN [s EXCEPT !.unit = row.unit, !.index = index, !.seen = @ \cup {row.unit}]
                ELSE Reject
         [] row.event = "operation-complete" ->
                IF s.active = row.step /\ row.unit = s.unit
                THEN [s EXCEPT !.unit = "none"] ELSE Reject
         [] row.event = "step-complete" ->
                IF s.active = row.step /\ s.unit = "none" /\ s.index = Len(roster)
                THEN [s EXCEPT !.active = "none"] ELSE Reject
         [] OTHER -> Reject

\* What it knows at the first row of a segment, and after the rows up to i.
Unread == [ok |-> TRUE, rolled |-> FALSE, step |-> 0, active |-> "none",
           unit |-> "none", index |-> 1, seen |-> {}]
ReadUpTo[i \in DOMAIN journal] ==
    IF i = 1 THEN Unread ELSE ReadRow(ReadUpTo[i - 1], journal[i])

\* _validate_operation_journal_order: only a segment with operations is read.
OrderReadable ==
    (\E i \in DOMAIN journal : journal[i].unit # "none") => ReadUpTo[Len(journal)].ok

Readable == SegmentReadable /\ OrderReadable

-----------------------------------------------------------------------------
(* Ownership: what the rows of a transaction say about the host             *)

Rows(event) == {i \in DOMAIN journal : journal[i].event = event}

\* A step whose own receipt is durable: its targets are all owned.
FullReceipt(step) == \E i \in Rows("step-complete") :
                         journal[i].step = step /\ journal[i].receipt # {}

\* The targets the receipts of some steps name: a step's own receipt when the
\* journal holds it, the receipts of its operations otherwise.
ReceiptsOf(steps) ==
    UNION {journal[i].receipt :
               i \in {k \in DOMAIN journal :
                          /\ journal[k].receipt # {} /\ journal[k].step \in steps
                          /\ \/ journal[k].event = "step-complete"
                             \/ ~FullReceipt(journal[k].step)}}

\* Faulty variant: the last operation started, with or without an outcome.
LastStarted == {i \in Rows("operation-start") :
                    \A k \in Rows("operation-start") : k <= i}

\* The one operation that was started and has no outcome yet.
InFlight == {i \in Rows("operation-start") :
                 ~\E k \in (i + 1)..Len(journal) :
                      /\ journal[k].event = "operation-complete"
                      /\ journal[k].step = journal[i].step
                      /\ journal[k].unit = journal[i].unit}

\* _recover_operation_ownership refuses a journal with two operations in flight or
\* an operation completed twice.
OwnershipReadable ==
    /\ Cardinality(InFlight) <= 1
    /\ \A i, k \in Rows("operation-complete") :
           journal[i].step = journal[k].step /\ journal[i].unit = journal[k].unit => i = k

\* Faulty variant: a temporary name without its target is taken for nothing.
ReconciledByTarget(u, intent) ==
    LET o == ObjectOf(u)
    IN [host |-> [host EXCEPT ![o] = IF @ \in {"both", "raw"} THEN "yes" ELSE @],
        receipt |-> IF u \in ReadOnly \/ host[o] \in {"no", "temp"} \/ intent = "existing"
                    THEN {} ELSE {o}]

\* reconcile_operation: the exact postimage is adopted, an unfinished one
\* repaired or removed.  [host, receipt] after it.
Reconciled(u, intent) ==
    LET o == ObjectOf(u)
        Adopted(h)   == [host |-> h, receipt |-> {o}]
        Unclaimed(h) == [host |-> h, receipt |-> {}]
    IN IF u \in ReadOnly THEN Unclaimed(host)
       ELSE IF u = "activation"
            THEN IF host[o] = "yes" THEN Adopted(host)
                 ELSE Unclaimed([host EXCEPT ![o] = "no"])
       ELSE IF u = "kickstart"
            THEN IF host[o] = "live" THEN Adopted(host) ELSE Unclaimed(host)
       ELSE IF host[o] = "no" \/ (u = "directory" /\ intent = "existing")
            THEN Unclaimed(host)
       ELSE IF host[o] = "temp" THEN Unclaimed([host EXCEPT ![o] = "no"])
       ELSE Adopted([host EXCEPT ![o] = IF @ \in {"both", "raw"} THEN "yes" ELSE @])

-----------------------------------------------------------------------------
(* Rollbacks                                                               *)

\* The rollbacks in their order with the steps whose effects they undo.
Rollbacks == <<
    [id |-> "withdraw-authority", sources |-> {"authority"}],
    [id |-> "stop-service",       sources |-> {"service"}],
    [id |-> "archive-evidence",   sources |-> {"leaves", "key"}],
    [id |-> "quarantine-key",     sources |-> {"key"}],
    [id |-> "remove-state",       sources |-> {"leaves"}],
    [id |-> "remove-code",        sources |-> {"code"}],
    [id |-> "remove-identities",  sources |-> {"identity"}]>>

\* Faulty variant: a rollback that follows the plan and not the receipts.
OwnedByPlan(r) == UNION {ToSet(Units(step)) : step \in r.sources} \cap Objects

Owned(r) == ReceiptsOf(r.sources)

\* The content that is archived: an authority is archived as the candidate it
\* was, under the same name.
ContentOf(o) == IF o = "candidate" THEN "authority" ELSE o
Archived(o) == <<ContentOf(o), Transaction>> \in retained

\* The objects a rollback removes, in order.
Removals(r) ==
    CASE r.id = "withdraw-authority" -> <<"authority">>
      [] r.id = "stop-service"       -> <<"registration">>
      [] r.id = "archive-evidence"   -> <<>>
      [] r.id = "quarantine-key"     -> <<"seed", "candidate">>
      [] r.id = "remove-state"       -> <<"active">>
      [] r.id = "remove-code"        -> <<"file">>
      [] r.id = "remove-identities"  -> <<"user", "group">>

Secrets == {"authority", "seed", "candidate"}   \* archived before they go

\* What the backend refuses to undo: a receipt without the row it needs, a
\* secret that is neither in place nor archived, an account with a full receipt
\* that is no longer complete.
Refuses(r) ==
    \/ r.id = "withdraw-authority" /\ "authority" \notin Owned(r)
    \/ r.id = "stop-service" /\ "registration" \notin Owned(r)
    \/ r.id = "remove-code" /\ "file" \notin Owned(r)
    \/ r.id = "remove-identities" /\ FullReceipt("identity")
           /\ ~(host["user"] = "yes" /\ host["group"] = "yes")
    \/ \E o \in ToSet(Removals(r)) \cap Owned(r) \cap Secrets :
           host[o] = "no" /\ ~Archived(o)

\* The objects a rollback removes: what is there, and owned.
Present(r) == {o \in ToSet(Removals(r)) \cap Owned(r) : host[o] # "no"}

\* They go one by one, in the order of the list.
Before(r, x, o) == \E i, j \in DOMAIN Removals(r) :
                       i < j /\ Removals(r)[i] = x /\ Removals(r)[j] = o

\* How far a rollback can be: which objects are gone and which secrets copied.
Reaches(r) ==
    {e \in [gone : SUBSET Present(r), copied : SUBSET (Present(r) \cap Secrets)] :
         \A o \in e.gone \cup e.copied, x \in Present(r) : Before(r, x, o) => x \in e.gone}

\* Faulty variant: what is archived is moved away first.
CutsMovingFirst(r) == {e \in Reaches(r) : e.copied \subseteq e.gone}

\* Where a rollback can stop: a secret is copied before it goes.
Cuts(r) == {e \in Reaches(r) : e.gone \cap Secrets \subseteq e.copied}

\* The host and the archive at a cut.
HostAfter(e) == [o \in Objects |-> IF o \in e.gone THEN "no" ELSE host[o]]
RetainedAfter(e) == retained \cup {<<ContentOf(o), Transaction>> : o \in e.copied}

Untouched == [gone |-> {}, copied |-> {}]
Whole(r)  == [gone |-> Present(r), copied |-> Present(r) \cap Secrets]

\* Rollbacks of this transaction whose completion the journal holds.
RolledBack == {journal[i].step : i \in Rows("rollback-complete")}

-----------------------------------------------------------------------------
(* The program                                                             *)

Init ==
    /\ closed = 0 /\ journal = <<>> /\ torn = FALSE /\ retained = {}
    /\ foreign \in Foreign
    /\ host = [o \in Objects |-> IF o \in foreign THEN "yes" ELSE "no"]
    /\ pc = "idle" /\ at = [step |-> 1, unit |-> 1]
    /\ rolling = 1 /\ failed = FALSE /\ faults = 0

Step == Steps[at.step]
Unit == Units(Step)[at.unit]

\* The process ends: by its last statement, an exception that leaves it, or a
\* kill.
Exit == /\ pc' = "idle" /\ at' = [step |-> 1, unit |-> 1]
        /\ rolling' = 1 /\ failed' = FALSE

\* The process goes on inside the loops of the plan.
Continue(next) == pc' = next /\ UNCHANGED <<at, rolling, failed>>

Fault == faults < MaxFaults /\ faults' = faults + 1

\* _append_locked: a torn tail is cut off, the record written and synced.
Durable(row) == journal' = Append(journal, row) /\ torn' = FALSE /\ UNCHANGED closed
Written(row) == Durable(row) /\ UNCHANGED faults

\* An append that fails or is interrupted: the record may be there all the
\* same, be there in part, or not at all.
Broken(row) == Fault /\ \/ Durable(row)
                        \/ UNCHANGED <<closed, journal>> /\ torn' \in BOOLEAN

\* execute_install_plan with nothing installed: a new transaction.  Its first
\* row is written outside the try statement.
Begin ==
    LET Opened == /\ closed' = closed + (IF journal = <<>> THEN 0 ELSE 1)
                  /\ journal' = <<Mark("transaction-start", "none")>>
                  /\ torn' = FALSE
    IN /\ pc = "idle" /\ Readable
       /\ LastEvent \in {"none", "recovery-complete"}
       /\ closed + (IF journal = <<>> THEN 0 ELSE 1) < MaxTransactions
       /\ \/ Opened /\ Continue("step") /\ UNCHANGED faults
          \/ /\ Fault /\ Exit
             /\ Opened \/ (UNCHANGED <<closed, journal>> /\ torn' \in BOOLEAN)
       /\ UNCHANGED <<host, retained, foreign>>

\* A transaction that did not end is recovered before any other one.
Resume ==
    /\ pc = "idle" /\ Readable
    /\ LastEvent \notin Terminal \cup {"none"}
    /\ Cardinality(Rows("recovery-failed")) < MaxRecoveries
    /\ torn' = FALSE
    /\ Continue("own")
    /\ UNCHANGED <<closed, journal, host, retained, foreign, faults>>

\* A row of the plan's own loops: an exception is handled by the rollback.
Record(row, where) ==
    /\ \/ Written(row) /\ pc' = where.pc /\ at' = where.at /\ UNCHANGED <<rolling, failed>>
       \/ Broken(row) /\ (Continue("own") \/ Exit)
    /\ UNCHANGED <<host, retained, foreign>>

StartStep ==
    /\ pc = "step"
    /\ Record(Mark("step-start", Step), [pc |-> "intent", at |-> at])

StartOperation ==
    /\ pc = "intent"
    /\ Record(Row("operation-start", Step, Unit, IntentOf(Unit), {}),
              [pc |-> "apply", at |-> at])

\* Faulty variant: a failing call is taken for a done one.
ApplyUnchecked ==
    /\ pc = "apply"
    /\ IF Applicable(Unit)
       THEN \/ host' = Applied(Unit) /\ UNCHANGED faults
            \/ Fault /\ host' \in FailedIn(Unit)
       ELSE UNCHANGED <<host, faults>>
    /\ Continue("done")
    /\ UNCHANGED <<closed, journal, torn, retained, foreign>>

\* apply_operation: done, refused by its own checks, failed on the way or
\* killed on the way.
Apply ==
    /\ pc = "apply"
    /\ IF Applicable(Unit)
       THEN \/ host' = Applied(Unit) /\ Continue("done") /\ UNCHANGED faults
            \/ Fault /\ host' \in FailedIn(Unit) /\ Continue("own")
            \/ Fault /\ host' \in KilledIn(Unit) /\ Exit
       ELSE Continue("own") /\ UNCHANGED <<host, faults>>
    /\ UNCHANGED <<closed, journal, torn, retained, foreign>>

\* The receipt of an operation: none when it only read, or found its object
\* there.
OperationReceipt ==
    IF Unit \in ReadOnly \/ Last(journal).intent = "existing" THEN {} ELSE {ObjectOf(Unit)}

CompleteOperation ==
    /\ pc = "done"
    /\ Record(Row("operation-complete", Step, Unit, "none", OperationReceipt),
              IF at.unit < Len(Units(Step))
              THEN [pc |-> "intent", at |-> [at EXCEPT !.unit = @ + 1]]
              ELSE [pc |-> "ended", at |-> at])

\* The targets step_ownership_receipt measures: the files, not the directories.
StepReceipt(step) ==
    CASE step = "validate"  -> {}
      [] step = "code"      -> {"file"}
      [] step = "authority" -> {"authority"}
      [] OTHER              -> ToSet(Units(step))

CompleteStep ==
    /\ pc = "ended"
    /\ Record(Row("step-complete", Step, "none", "none", StepReceipt(Step)),
              IF at.step < Len(Steps)
              THEN [pc |-> "step", at |-> [step |-> at.step + 1, unit |-> 1]]
              ELSE [pc |-> "complete", at |-> at])

\* The last row is written outside the try statement: when it is lost, the next
\* run rolls everything back.
CompletePlan ==
    /\ pc = "complete"
    /\ Written(Mark("plan-complete", "none")) \/ Broken(Mark("plan-complete", "none"))
    /\ Exit
    /\ UNCHANGED <<host, retained, foreign>>

\* _recover_operation_ownership: the journal is read again and the operation in
\* flight reconciled with the host.
Reconcile ==
    /\ pc = "own"
    /\ torn' = FALSE
    /\ IF InFlight = {}
       THEN Continue("rollback") /\ UNCHANGED <<host, faults>>
       ELSE LET row == journal[CHOOSE i \in InFlight : TRUE]
                after == Reconciled(row.unit, row.intent).host
            IN \/ host' = after /\ Continue("adopt") /\ UNCHANGED faults
               \/ Fault /\ host' \in {host, after} /\ Exit
    /\ UNCHANGED <<closed, journal, retained, foreign>>

\* Its outcome becomes a row before anything is undone.
Adopt ==
    LET open == journal[CHOOSE i \in InFlight : TRUE]
        row == Row("operation-complete", open.step, open.unit, "none",
                   Reconciled(open.unit, open.intent).receipt)
    IN /\ pc = "adopt"
       /\ \/ Written(row) /\ Continue("rollback")
          \/ Broken(row) /\ Exit
       /\ UNCHANGED <<host, retained, foreign>>

Pending == rolling <= Len(Rollbacks)
Current == Rollbacks[rolling]

Advance == pc' = "rollback" /\ rolling' = rolling + 1 /\ UNCHANGED at

\* A rollback without an owned source, or completed by an earlier recovery.
SkipRollback ==
    /\ pc = "rollback" /\ Pending
    /\ Owned(Current) = {} \/ Current.id \in RolledBack
    /\ Advance
    /\ UNCHANGED <<closed, journal, torn, host, retained, failed, foreign, faults>>

\* A row that is lost is a failure to report, and the rollback goes on.
StartRollback ==
    LET row == Mark("rollback-start", Current.id)
    IN /\ pc = "rollback" /\ Pending
       /\ Owned(Current) # {} /\ Current.id \notin RolledBack
       /\ \/ Written(row) /\ Continue("undo")
          \/ Broken(row) /\ pc' = "undo" /\ failed' = TRUE /\ UNCHANGED <<at, rolling>>
          \/ Broken(row) /\ Exit
       /\ UNCHANGED <<host, retained, foreign>>

\* backend.rollback: done, refused, failed on the way or killed on the way.
Undo ==
    LET Reach(e) == host' = HostAfter(e) /\ retained' = RetainedAfter(e)
        Fail == pc' = "unsettled" /\ failed' = TRUE /\ UNCHANGED <<at, rolling>>
    IN /\ pc = "undo"
       /\ IF Refuses(Current)
          THEN /\ Reach(IF Current.id = "quarantine-key" THEN Whole(Current) ELSE Untouched)
               /\ Fail /\ UNCHANGED faults
          ELSE \/ Reach(Whole(Current)) /\ Continue("undone") /\ UNCHANGED faults
               \/ Fault /\ \E e \in Cuts(Current) : Reach(e) /\ (Fail \/ Exit)
       /\ UNCHANGED <<closed, journal, torn, foreign>>

SettleRollback ==
    LET row == Mark(IF pc = "undone" THEN "rollback-complete" ELSE "rollback-failed",
                    Current.id)
    IN /\ pc \in {"undone", "unsettled"}
       /\ \/ Written(row) /\ Advance /\ UNCHANGED failed
          \/ Broken(row) /\ Advance /\ failed' = TRUE
          \/ Broken(row) /\ Exit
       /\ UNCHANGED <<host, retained, foreign>>

\* The end of a recovery: complete only when nothing failed.
Settle ==
    LET row == Mark(IF failed THEN "recovery-failed" ELSE "recovery-complete", "none")
    IN /\ pc = "rollback" /\ ~Pending
       /\ Written(row) \/ Broken(row)
       /\ Exit
       /\ UNCHANGED <<host, retained, foreign>>

Next ==
    \/ Begin \/ Resume
    \/ StartStep \/ StartOperation \/ Apply \/ CompleteOperation \/ CompleteStep
    \/ CompletePlan
    \/ Reconcile \/ Adopt
    \/ SkipRollback \/ StartRollback \/ Undo \/ SettleRollback \/ Settle

Spec == Init /\ [][Next]_vars

-----------------------------------------------------------------------------
(* Properties                                                              *)

\* The journal stays readable by the installer's own rules whatever is killed,
\* lost or torn, and however often it is recovered: those rules never lock the
\* administrator out (_journal_segments, _validate_operation_journal_order,
\* _recover_operation_ownership).
JournalReadable ==
    /\ pc = "idle" => Readable
    /\ pc \in {"idle", "own"} => OwnershipReadable

\* The last row of the journal tells the truth about the host.  A complete
\* recovery has left nothing the transaction made: no object, no half-made one,
\* no temporary name, only directories, retained leaves and what was there
\* before.  A complete plan has every object in place, the services live under
\* the active authority and no prepared authority left behind.
OutcomeIsTrue ==
    /\ LastEvent = "recovery-complete" =>
           \A o \in Objects :
               \/ host[o] = "no"
               \/ host[o] = "yes" /\ o \in Kept \cup foreign
    /\ LastEvent = "plan-complete" => Complete /\ host["registration"] = "live"

\* Nothing leaves the host but what a durable receipt of this transaction says
\* the installer made: what was there before is never removed
\* ("remove only identities created by this journal").
OnlyOwnedIsRemoved ==
    [][\A o \in Objects :
          (host[o] \in {"yes", "live"} /\ host'[o] = "no") =>
              \/ \E i \in DOMAIN journal :
                     o \in journal[i].receipt
              \/ o = "candidate" /\ host'["authority"] = "yes"]_vars

\* A signing seed or an authority is never destroyed: it leaves its place only
\* when a copy has been retained ("quarantine signing key without destroying
\* evidence"), and no copy is ever removed.
SecretsAreRetained ==
    [][/\ retained \subseteq retained'
       /\ \A o \in {"seed", "authority"} :
              (host[o] = "yes" /\ host'[o] = "no") => <<o, Transaction>> \in retained']_vars

\* A rollback that was killed, or whose outcome row was lost, is taken up again
\* by the next recovery and not refused because of what it did already.
RollbackIsIdempotent ==
    LET Named(event) == {i \in Rows(event) : journal[i].step = Current.id}
    IN (pc = "undo" /\ Cardinality(Named("rollback-start")) > 1
                    /\ Named("rollback-failed") = {}) => ~Refuses(Current)

\* A recovery in which no call has failed is not refused by the backend.
RecoveryIsNotRefused == (pc = "undo" /\ ~failed) => ~Refuses(Current)
=============================================================================
