--------------------------- MODULE StorageRounds ---------------------------
(***************************************************************************)
(* The processed rounds in PostGIS and everything that changes them:       *)
(* StorageRepository.replace_measurement_round as the pipeline calls it,   *)
(* with its read-back, and delete_measurement_round as Operations calls    *)
(* it, with the activity log (storage/repository.py, pipeline/service.py,  *)
(* operations/service.py).                                                 *)
(*                                                                         *)
(* Transactions run at PostgreSQL's default level, READ COMMITTED: every   *)
(* statement sees what was committed when it started, and a DELETE of a    *)
(* row that another transaction is deleting waits for that transaction.    *)
(* One pipeline runs at a time (ADR-0003); any number of operators may be  *)
(* deleting.  The five tables of a round are filled in one transaction and *)
(* emptied by one cascade, so a round is one value.                        *)
(***************************************************************************)
EXTENDS Naturals, Sequences, FiniteSets

CONSTANTS
    Rounds,      \* measurement round IDs
    Contents,    \* what a pipeline may store for one
    Operators,   \* the processes that may delete
    Pipeline,    \* the pipeline, as the holder of a lock
    NoOne,
    MaxStores,   \* bound on pipeline runs
    MaxDeletes,  \* bound on deletions
    MaxFaults    \* bound on failures

SameKey(f, g) == f.zone = g.zone /\ f.network = g.network

(* What _validate_round and the ORDER BY clauses make of a round; the      *)
(* pipeline stores none without findings (no_usable_observations).         *)
ASSUME ContentsAssumption ==
    \A c \in Contents :
        /\ c = [zones |-> c.zones, findings |-> c.findings]
        /\ c.zones # {} /\ c.findings # <<>>
        /\ \A i \in DOMAIN c.findings :
              /\ c.findings[i].zone \in c.zones
              /\ \A j \in 1..(i - 1) :
                    /\ ~SameKey(c.findings[j], c.findings[i])
                    /\ c.findings[j].zone <= c.findings[i].zone

ASSUME ActorsAssumption == Pipeline \notin Operators /\ NoOne \notin Operators \cup {Pipeline}
ASSUME BoundsAssumption == {MaxStores, MaxDeletes, MaxFaults} \subseteq Nat
ASSUME NonEmptyAssumption == Rounds # {} /\ Contents # {}

VARIABLES
    stored,    \* the committed rows of every round
    lock,      \* the transaction that is deleting the row of a round
    pipe,      \* the pipeline run
    deletion,  \* each operator's deletion
    log,       \* the event of that deletion in the activity log
    used       \* how much of each bound is used

storageVars == <<stored, lock, pipe, deletion, log, used>>

Nothing     == [zones |-> {}, findings |-> <<>>]
Retained(r) == stored[r] # Nothing
Count(what) == used' = [used EXCEPT ![what] = @ + 1]

NoRun(pc)   == [pc |-> pc, round |-> CHOOSE r \in Rounds : TRUE,
                content |-> CHOOSE c \in Contents : TRUE, read |-> 0]

NoDeletion(pc) == [pc |-> pc, round |-> CHOOSE r \in Rounds : TRUE, gone |-> FALSE]

PipeSteps   == {"idle", "waiting", "replaced", "committed", "verified", "failed"}
DeleteSteps == {"idle", "counted", "waiting", "deleted", "committed", "recounted", "gone", "raised",
                "succeeded", "failed"}
Ended       == {"idle", "succeeded", "failed"}

(* Storage is empty or holds the round of an earlier run. *)
StorageInit ==
    /\ \E c \in Contents \cup {Nothing} :
          stored = [r \in Rounds |-> IF r = CHOOSE kept \in Rounds : TRUE THEN c ELSE Nothing]
    /\ lock = [r \in Rounds |-> NoOne]
    /\ pipe = NoRun("idle")
    /\ deletion = [o \in Operators |-> NoDeletion("idle")]
    /\ log = [o \in Operators |-> "none"]
    /\ used = [stores |-> 0, deletes |-> 0, faults |-> 0]

(***************************************************************************)
(* When the transaction that holds the row of r ends, the DELETEs of       *)
(* operators that wait for it go on: they find no row when it was deleted, *)
(* also when the same transaction inserted a new one, and start over when  *)
(* it was kept.                                                            *)
(***************************************************************************)
WaitsFor(o, r) == deletion[o].pc = "waiting" /\ deletion[o].round = r

Woken(r, pc) == [o \in Operators |->
    IF WaitsFor(o, r) THEN [deletion[o] EXCEPT !.pc = pc] ELSE deletion[o]]

Unlocked(r) == [lock EXCEPT ![r] = NoOne]

(* Variant: the foreign key of the zones does not cascade. *)
CascadeKeepsZones(c) == [zones |-> c.zones, findings |-> <<>>]

(* ON DELETE CASCADE takes zones, findings, scores and factors along. *)
Cascade(c) == [c EXCEPT !.zones = {}, !.findings = <<>>]

(***************************************************************************)
(* The pipeline.                                                           *)
(***************************************************************************)
PipeAt(pc) == pipe.pc = pc
PipeGoes(pc) == pipe' = [pipe EXCEPT !.pc = pc]

Locks(r) == IF Retained(r) THEN [lock EXCEPT ![r] = Pipeline] ELSE lock

(* ActiveMeasurementRoundError, or the DELETE of the round's own row; no   *)
(* other transaction can tell these two statements apart.                  *)
BeginReplace(r, c) ==
    LET refused == \E x \in Rounds \ {r} : Retained(x)
        goes == IF lock[r] # NoOne THEN "waiting" ELSE "replaced"
    IN  /\ pipe.pc \in {"idle", "verified", "failed"}
        /\ used.stores < MaxStores
        /\ Count("stores")
        /\ IF refused
             THEN pipe' = NoRun("failed") /\ UNCHANGED lock
             ELSE /\ pipe' = [pc |-> goes, round |-> r, content |-> c, read |-> 0]
                  /\ lock' = IF goes = "replaced" THEN Locks(r) ELSE lock
        /\ UNCHANGED <<stored, deletion, log>>

ReplaceWaited ==
    /\ PipeAt("waiting")
    /\ lock[pipe.round] = NoOne
    /\ PipeGoes("replaced")
    /\ lock' = Locks(pipe.round)
    /\ UNCHANGED <<stored, deletion, log, used>>

CommitReplace ==
    /\ PipeAt("replaced")
    /\ PipeGoes("committed")
    /\ stored' = [stored EXCEPT ![pipe.round] = pipe.content]
    /\ IF lock[pipe.round] = Pipeline
         THEN lock' = Unlocked(pipe.round) /\ deletion' = Woken(pipe.round, "committed")
         ELSE UNCHANGED <<lock, deletion>>
    /\ UNCHANGED <<log, used>>

(* Variant: the factors are not compared. *)
ReadsSameFindings(i) == i = 0 => stored[pipe.round].findings = pipe.content.findings

(* load_measurement_round: first the findings with their scores, then one *)
(* statement for the factors of each.                                      *)
ReadsSame(i) ==
    IF i = 0 THEN stored[pipe.round].findings = pipe.content.findings
    ELSE \E j \in DOMAIN stored[pipe.round].findings :
            stored[pipe.round].findings[j] = pipe.content.findings[i]

ReadBack ==
    /\ PipeAt("committed")
    /\ pipe' = IF ~ReadsSame(pipe.read) THEN NoRun("failed")
               ELSE IF pipe.read = Len(pipe.content.findings) THEN NoRun("verified")
               ELSE [pipe EXCEPT !.read = @ + 1]
    /\ UNCHANGED <<stored, lock, deletion, log, used>>

(* The pipeline dies or a statement of it fails; an open transaction is    *)
(* rolled back.                                                            *)
PipelineFails ==
    /\ pipe.pc \in {"waiting", "replaced", "committed"}
    /\ used.faults < MaxFaults
    /\ Count("faults")
    /\ pipe' = NoRun("failed")
    /\ IF lock[pipe.round] = Pipeline
         THEN lock' = Unlocked(pipe.round) /\ deletion' = Woken(pipe.round, "counted")
         ELSE UNCHANGED <<lock, deletion>>
    /\ UNCHANGED <<stored, log>>

PipelineStep == ReplaceWaited \/ CommitReplace \/ ReadBack

(***************************************************************************)
(* An operator's deletion: count, delete, commit, count again in a second  *)
(* connection, record the outcome.                                         *)
(***************************************************************************)
DeleteAt(o, pc) == deletion[o].pc = pc
DeleteGoes(o, pc) == deletion' = [deletion EXCEPT ![o].pc = pc]

(* The first count: MeasurementRoundNotFoundError without the row. *)
BeginDelete(o, r) ==
    /\ deletion[o].pc \in Ended
    /\ used.deletes < MaxDeletes
    /\ Count("deletes")
    /\ deletion' = [deletion EXCEPT ![o] =
          [pc |-> IF Retained(r) THEN "counted" ELSE "raised", round |-> r, gone |-> ~Retained(r)]]
    /\ log' = [log EXCEPT ![o] = "none"]
    /\ UNCHANGED <<stored, lock, pipe>>

DeleteRow(o) ==
    LET r == deletion[o].round
        goes == IF ~Retained(r) THEN "committed"
                ELSE IF lock[r] = NoOne THEN "deleted" ELSE "waiting"
    IN  /\ DeleteAt(o, "counted")
        /\ DeleteGoes(o, goes)
        /\ lock' = IF goes = "deleted" THEN [lock EXCEPT ![r] = o] ELSE lock
        /\ UNCHANGED <<stored, pipe, log, used>>

Delete(o, pc) ==
    LET r == deletion[o].round
        woken == Woken(r, "committed")
    IN  /\ stored' = [stored EXCEPT ![r] = Cascade(@)]
        /\ lock' = Unlocked(r)
        /\ deletion' = [p \in Operators |->
              [pc    |-> IF p = o THEN pc ELSE woken[p].pc,
               round |-> woken[p].round,
               gone  |-> woken[p].gone \/ (woken[p].pc \notin Ended /\ woken[p].round = r)]]

CommitDelete(o) ==
    /\ DeleteAt(o, "deleted")
    /\ Delete(o, "committed")
    /\ UNCHANGED <<pipe, log, used>>

(* Variant: the second count is not looked at. *)
RecountIgnored(o) == o \in Operators

(* The second count, of the round and then of what belongs to it: each is  *)
(* a statement of its own.  Rows: DeletionVerificationError.               *)
Recounted(o) == ~Retained(deletion[o].round)

Recount(o) ==
    /\ \/ DeleteAt(o, "committed") /\ DeleteGoes(o, IF Recounted(o) THEN "recounted" ELSE "raised")
       \/ DeleteAt(o, "recounted") /\ DeleteGoes(o, IF Recounted(o) THEN "gone" ELSE "raised")
    /\ UNCHANGED <<stored, lock, pipe, log, used>>

(* OperationsService: record the outcome, then return or raise. *)
DeletionEnds(o, pc) == deletion' = [deletion EXCEPT ![o].pc = pc, ![o].round = NoDeletion(pc).round]

Record(o) ==
    /\ \/ /\ DeleteAt(o, "gone")
          /\ DeletionEnds(o, "succeeded")
          /\ log' = [log EXCEPT ![o] = "SUCCEEDED"]
       \/ /\ DeleteAt(o, "raised")
          /\ DeletionEnds(o, "failed")
          /\ log' = [log EXCEPT ![o] = "FAILED"]
    /\ UNCHANGED <<stored, lock, pipe, used>>

(* The log cannot be written: what record raises reaches the dashboard. *)
LogFails(o) ==
    /\ deletion[o].pc \in {"gone", "raised"}
    /\ used.faults < MaxFaults
    /\ Count("faults")
    /\ DeletionEnds(o, "failed")
    /\ UNCHANGED <<stored, lock, pipe, log>>

(* A statement or the connection fails.  The transaction is rolled back;   *)
(* a COMMIT whose answer is lost took effect.                              *)
DatabaseFails(o) ==
    LET r == deletion[o].round
    IN  /\ deletion[o].pc \in {"counted", "waiting", "deleted", "committed", "recounted"}
        /\ used.faults < MaxFaults
        /\ Count("faults")
        /\ \/ /\ DeleteAt(o, "deleted")
              /\ Delete(o, "raised")
           \/ /\ IF lock[r] = o
                   THEN /\ lock' = Unlocked(r)
                        /\ deletion' = [Woken(r, "counted") EXCEPT ![o].pc = "raised"]
                   ELSE DeleteGoes(o, "raised") /\ UNCHANGED lock
              /\ UNCHANGED stored
        /\ UNCHANGED <<pipe, log>>

DeletionStep(o) == DeleteRow(o) \/ CommitDelete(o) \/ Recount(o) \/ Record(o)

StorageNext ==
    \/ \E r \in Rounds, c \in Contents : BeginReplace(r, c)
    \/ PipelineStep
    \/ \E o \in Operators : DeletionStep(o)

StorageFaults == PipelineFails \/ \E o \in Operators : LogFails(o) \/ DatabaseFails(o)

(***************************************************************************)
(* Properties.                                                             *)
(***************************************************************************)
StorageTypeOK ==
    /\ stored \in [Rounds -> Contents \cup {Nothing}]
    /\ lock \in [Rounds -> Operators \cup {Pipeline, NoOne}]
    /\ pipe \in [pc : PipeSteps, round : Rounds, content : Contents, read : Nat]
    /\ deletion \in [Operators -> [pc : DeleteSteps, round : Rounds, gone : BOOLEAN]]
    /\ log \in [Operators -> {"none", "SUCCEEDED", "FAILED"}]
    /\ used \in [{"stores", "deletes", "faults"} -> Nat]

(* A deletion that reports success is in the log as SUCCEEDED, and the     *)
(* round was really absent at some moment since the operator confirmed,    *)
(* whoever else was deleting or storing it; one that reports a failure is  *)
(* never in the log as a success (operations/service.py 75-84,             *)
(* storage/repository.py 307-326).                                         *)
DeletionToldTruly ==
    \A o \in Operators :
        /\ DeleteAt(o, "succeeded") => deletion[o].gone /\ log[o] = "SUCCEEDED"
        /\ DeleteAt(o, "failed") => log[o] # "SUCCEEDED"

(* The pipeline calls its results verified only when they were still       *)
(* stored at its last statement: a deletion between the commit and the end *)
(* of the read-back makes the verification fail, so the buffer is kept     *)
(* (pipeline/service.py 89-105).                                           *)
VerifiedMeansStored ==
    [][pipe.pc = "committed" /\ pipe'.pc = "verified" =>
          stored[pipe.round] = pipe.content]_storageVars
=============================================================================
