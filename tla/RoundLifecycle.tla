--------------------------- MODULE RoundLifecycle ---------------------------
(***************************************************************************)
(* The life of a measurement round under the launcher: the commands run,   *)
(* resume and discard (workflow/service.py), the lifecycle record          *)
(* (workflow/round_state.py), the pipeline process they start              *)
(* (pipeline/cli.py, pipeline/service.py, pipeline/runtime_inputs.py) and  *)
(* the results that process leaves in Storage.                             *)
(*                                                                         *)
(* Every file operation is a step of its own, so the launcher can be       *)
(* killed, and the host can lose power, between any two of them.  What was *)
(* made, renamed or removed stays so, except for a file that was never     *)
(* synced (the secret, a buffer without a schema): a power loss may take   *)
(* its content or its name.  One launcher runs at a time (ADR-0003 leaves  *)
(* locking out); the dashboard, which may delete stored results, and the   *)
(* operator, who may change the approved zones, act at any moment.         *)
(***************************************************************************)
EXTENDS Naturals

CONSTANTS
    Rounds,        \* measurement round IDs
    LegacyRounds,  \* rounds collected before lifecycle records existed
    Policies,      \* contents an approved zone file can have
    NoPolicy,      \* no zone file, or one that load_approved_zones refuses
    NoRound,
    MaxFaults      \* bound on crashes, failing file operations and tampering

ASSUME LegacyAssumption == LegacyRounds \subseteq Rounds
ASSUME NoPolicyAssumption == NoPolicy \notin Policies
ASSUME NoRoundAssumption == NoRound \notin Rounds
ASSUME FaultsAssumption == MaxFaults \in Nat

VARIABLES
    \* Files, by round.
    source,     \* the SQLite buffer: absent, empty (0 bytes), norows, rows
    journal,    \* did a killed Collection leave a rollback journal beside it?
    yields,     \* the policies under which the buffered rows give findings
    secret,     \* pseudonymisation secret: see SecretFile
    snapshot,   \* zones snapshot: its content, NoPolicy when it is missing
    record,     \* lifecycle record: its state and the policy digest
    temp,       \* is the record's temporary file there?
    zones,      \* content of the operator's approved zone file
    stored,     \* the retained results: the policy they were made with
    \* The launcher and its child process; a crash ends both.
    \* loaded is the policy the running pipeline has read.
    pc, command, current, target, loaded, exit, outcome,
    \* History, read by no action's guard.
    legacy,     \* rounds that predate lifecycle records
    verified,   \* rounds whose present buffer was stored and read back
    closed,     \* rounds the operator was told not to process again
    faults

files    == <<source, journal, yields, secret, snapshot, record, temp>>
launcher == <<pc, command, current, target, loaded, exit, outcome, closed>>
vars     == <<files, zones, stored, launcher, legacy, verified, faults>>

RoundState == {"PREPARED", "COLLECTED", "UNUSABLE", "STORED_UNCLEANED"}

ALLOWED_TRANSITIONS ==
    { <<"PREPARED", "COLLECTED">>,
      <<"COLLECTED", "UNUSABLE">>,
      <<"COLLECTED", "STORED_UNCLEANED">> }

NoRecord  == [state |-> "none", policy |-> NoPolicy]
NoOutcome == [code |-> 0, guidance |-> "none"]

CONFIGURATION_EXIT   == 2
PIPELINE_EXIT        == 3
CLEANUP_EXIT         == 4
UNUSABLE_SOURCE_EXIT == 5
INTERRUPTED          == 130

(* The secret file: never made or removed, written but not synced, on the  *)
(* disk, and what a power loss may have left of an unsynced one: no        *)
(* content, or no file.                                                    *)
SecretFile == {"absent", "unsynced", "kept", "empty", "lost"}

BundleSteps   == {"create_source", "create_secret", "snapshot_zones"}
RollbackSteps == {"undo_source", "undo_secret", "undo_snapshot", "undo_record"}
CleanSteps    == {"clean_sidecars", "clean_source", "clean_secret"}
PipelineSteps == {"validate", "store", "verify"} \cup CleanSteps
Steps ==
    {"idle", "write_temp", "write_replace", "collect", "empty_source",
     "empty_secret", "settle", "drop_snapshot", "drop_record"}
        \cup BundleSteps \cup RollbackSteps \cup PipelineSteps

Guidance ==
    {"none", "retained_round_exists", "preflight_failed",
     "runtime_creation_failed", "recovery", "empty_attempt",
     "empty_cleanup_failed", "round_state_failed", "invalid_round_state",
     "preserved_inputs_missing", "legacy_policy_invalid", "unusable",
     "incomplete_cleanup", "policy_override_rejected", "processed",
     "discarded", "discard_failed"}

-----------------------------------------------------------------------------
HasRows(r) == source[r] = "rows"

HasSecret(r) == secret[r] \notin {"absent", "lost"}

(* load_secret: the file holds the secret.                                 *)
SecretReads(r) == secret[r] \in {"unsynced", "kept"}

(* preserved_inputs_ready: both files are there, whatever they hold. *)
InputsReady(r) == source[r] # "absent" /\ HasSecret(r)

(* Is any of the four files of create_runtime_bundle's check there? *)
BundleExists(r) ==
    \/ source[r] # "absent"
    \/ HasSecret(r)
    \/ snapshot[r] # NoPolicy
    \/ record[r] # NoRecord

Managed(cmd) == cmd \in {"run", "resume"}

(* Variant: resume reads the zone file again, as it did before ADR-0003. *)
PresentZones == zones

(* The zones handed to the pipeline: a legacy round has only the present   *)
(* zone file, a managed one its snapshot.                                  *)
PipelinePolicy == IF Managed(command) THEN snapshot[current] ELSE zones

InPipeline == pc \in PipelineSteps /\ command # "discard"

(* Variant: only UNUSABLE is closed to resume. *)
RefusalOfUnusable(r, override) ==
    CASE record[r].state = "corrupt" -> "invalid_round_state"
      [] record[r].state = "UNUSABLE" -> "unusable"
      [] record[r].state = "none" /\ snapshot[r] # NoPolicy -> "invalid_round_state"
      [] OTHER -> IF InputsReady(r) THEN "none" ELSE "preserved_inputs_missing"

(* What resume answers when it does not start the pipeline, in the order   *)
(* of its tests; "none" when it goes ahead.                                *)
Refusal(r, override) ==
    CASE record[r].state = "corrupt" -> "invalid_round_state"
      [] record[r].state = "UNUSABLE" -> "unusable"
      [] record[r].state = "STORED_UNCLEANED" -> "incomplete_cleanup"
      [] record[r].state = "none" ->
           IF snapshot[r] # NoPolicy THEN "invalid_round_state"
           ELSE IF ~InputsReady(r) THEN "preserved_inputs_missing"
           ELSE IF zones = NoPolicy THEN "legacy_policy_invalid"
           ELSE "none"
      [] OTHER ->
           IF override THEN "policy_override_rejected"
           ELSE IF ~InputsReady(r) THEN "preserved_inputs_missing"
           ELSE IF snapshot[r] # record[r].policy THEN "invalid_round_state"
           ELSE "none"

-----------------------------------------------------------------------------
Init ==
    /\ source = [r \in Rounds |-> IF r \in LegacyRounds THEN "rows" ELSE "absent"]
    /\ journal = [r \in Rounds |-> FALSE]
    /\ yields \in [Rounds -> SUBSET Policies]
    /\ \A r \in Rounds \ LegacyRounds : yields[r] = {}
    /\ secret = [r \in Rounds |-> IF r \in LegacyRounds THEN "kept" ELSE "absent"]
    /\ snapshot = [r \in Rounds |-> NoPolicy]
    /\ record = [r \in Rounds |-> NoRecord]
    /\ temp = [r \in Rounds |-> FALSE]
    /\ zones \in Policies
    /\ stored = [r \in Rounds |-> NoPolicy]
    /\ pc = "idle" /\ command = "none" /\ current = NoRound
    /\ target = "none" /\ loaded = NoPolicy /\ exit = 0 /\ outcome = NoOutcome
    /\ legacy = LegacyRounds /\ verified = {} /\ closed = {}
    /\ faults = 0

-----------------------------------------------------------------------------
(* How a step leaves the launcher.                                         *)

GoTo(step) ==
    /\ pc' = step
    /\ UNCHANGED <<command, current, target, loaded, exit, outcome, closed>>

(* The command ends and reports to the operator.                           *)
Answer(r, code, guidance) ==
    /\ pc' = "idle" /\ command' = "none" /\ current' = r
    /\ target' = "none" /\ loaded' = NoPolicy /\ exit' = 0
    /\ outcome' = [code |-> code, guidance |-> guidance]
    /\ closed' = IF guidance \in {"incomplete_cleanup", "unusable"}
                    THEN closed \cup {r} ELSE closed

Finish(code, guidance) == Answer(current, code, guidance)

(* Variant: the round is not noted. *)
BeginWithoutRound(cmd, r, step, state) ==
    /\ pc = "idle" /\ pc' = step
    /\ command' = cmd /\ current' = NoRound
    /\ target' = state /\ loaded' = NoPolicy
    /\ exit' = 0 /\ outcome' = NoOutcome
    /\ UNCHANGED closed

Begin(cmd, r, step, state) ==
    /\ pc = "idle" /\ pc' = step
    /\ command' = cmd /\ current' = r
    /\ target' = state /\ loaded' = NoPolicy
    /\ exit' = 0 /\ outcome' = NoOutcome
    /\ UNCHANGED closed

Write(state) ==
    /\ pc' = "write_temp" /\ target' = state
    /\ UNCHANGED <<command, current, loaded, exit, outcome, closed>>

(* The child process ends with this exit code.                             *)
Exits(code, step) ==
    /\ pc' = step /\ exit' = code
    /\ UNCHANGED <<command, current, target, loaded, outcome, closed>>

Put(f, value) == [f EXCEPT ![current] = value]

-----------------------------------------------------------------------------
(* run: preflight, then create_runtime_bundle.                             *)

StartRun(r) ==
    /\ zones # NoPolicy
    /\ \A x \in Rounds : stored[x] = NoPolicy
    /\ ~BundleExists(r)
    /\ Begin("run", r, "create_source", "PREPARED")
    /\ UNCHANGED <<files, zones, stored, legacy, verified, faults>>

RunRefused(r) ==
    /\ pc = "idle"
    /\ \/ Answer(r, CONFIGURATION_EXIT, "preflight_failed")
       \/ /\ \E x \in Rounds : stored[x] # NoPolicy
          /\ Answer(r, CONFIGURATION_EXIT, "retained_round_exists")
       \/ /\ \A x \in Rounds : stored[x] = NoPolicy
          /\ BundleExists(r)
          /\ Answer(r, CONFIGURATION_EXIT, "runtime_creation_failed")
    /\ UNCHANGED <<files, zones, stored, legacy, verified, faults>>

CreateSource ==
    /\ pc = "create_source"
    /\ pc' = "create_secret"
    /\ source' = Put(source, "empty") /\ yields' = Put(yields, {})
    /\ legacy' = legacy \ {current} /\ verified' = verified \ {current}
    /\ closed' = closed \ {current}
    /\ UNCHANGED <<journal, secret, snapshot, record, temp, zones, stored, command,
                   current, target, loaded, exit, outcome, faults>>

(* _create_secret does not sync the file it writes.                        *)
CreateSecret ==
    /\ pc = "create_secret"
    /\ secret' = Put(secret, "unsynced")
    /\ GoTo("snapshot_zones")
    /\ UNCHANGED <<source, journal, yields, snapshot, record, temp, zones, stored,
                   legacy, verified, faults>>

(* snapshot_approved_zones copies the zone file as it is now and validates *)
(* the copy; it removes the copy of an invalid one.                        *)
SnapshotZones ==
    /\ pc = "snapshot_zones"
    /\ snapshot' = Put(snapshot, zones)
    /\ GoTo(IF zones = NoPolicy THEN "undo_source" ELSE "write_temp")
    /\ UNCHANGED <<source, journal, yields, secret, record, temp, zones, stored,
                   legacy, verified, faults>>

(* The except branch of create_runtime_bundle: four removals.              *)
UndoSource ==
    /\ pc = "undo_source"
    /\ source' = Put(source, "absent")
    /\ GoTo("undo_secret")
    /\ UNCHANGED <<journal, yields, secret, snapshot, record, temp, zones, stored,
                   legacy, verified, faults>>

UndoSecret ==
    /\ pc = "undo_secret"
    /\ secret' = Put(secret, "absent")
    /\ GoTo("undo_snapshot")
    /\ UNCHANGED <<source, journal, yields, snapshot, record, temp, zones, stored,
                   legacy, verified, faults>>

UndoSnapshot ==
    /\ pc = "undo_snapshot"
    /\ snapshot' = Put(snapshot, NoPolicy)
    /\ GoTo("undo_record")
    /\ UNCHANGED <<source, journal, yields, secret, record, temp, zones, stored,
                   legacy, verified, faults>>

UndoRecord ==
    /\ pc = "undo_record"
    /\ record' = Put(record, NoRecord)
    /\ Finish(CONFIGURATION_EXIT, "runtime_creation_failed")
    /\ UNCHANGED <<source, journal, yields, secret, snapshot, temp, zones, stored,
                   legacy, verified, faults>>

-----------------------------------------------------------------------------
(* RoundStateStore: create and transition write a temporary file and       *)
(* rename it.  The finally clause removes the temporary file, the one an   *)
(* earlier crash left behind (which made this write fail) included.        *)

TransitionAllowed ==
    IF target = "PREPARED" THEN record[current] = NoRecord
    ELSE <<record[current].state, target>> \in ALLOWED_TRANSITIONS

Written ==
    \/ target = "PREPARED" /\ GoTo("collect")
    \/ target = "COLLECTED" /\ GoTo("validate")
    \/ target = "UNUSABLE" /\ Finish(exit, "unusable")
    \/ target = "STORED_UNCLEANED" /\ exit = 0 /\ GoTo("drop_snapshot")
    \/ target = "STORED_UNCLEANED" /\ exit # 0 /\ Finish(exit, "incomplete_cleanup")

NotWritten ==
    \/ target = "PREPARED" /\ GoTo("undo_source")
    \/ /\ target = "COLLECTED"
       /\ Finish(CONFIGURATION_EXIT, IF command = "resume" THEN "invalid_round_state"
                                     ELSE "round_state_failed")
    \/ target = "STORED_UNCLEANED" /\ exit = 0 /\ Finish(CLEANUP_EXIT, "incomplete_cleanup")
    \/ /\ target \in {"UNUSABLE", "STORED_UNCLEANED"} /\ exit # 0
       /\ Finish(CONFIGURATION_EXIT, "round_state_failed")

(* Variant: a failed exclusive create leaves the stale file alone. *)
WriteTempKeepsStale ==
    /\ pc = "write_temp"
    /\ IF ~TransitionAllowed \/ temp[current] THEN NotWritten /\ UNCHANGED temp
       ELSE GoTo("write_replace") /\ temp' = Put(temp, TRUE)
    /\ UNCHANGED <<source, journal, yields, secret, snapshot, record, zones, stored,
                   legacy, verified, faults>>

WriteTemp ==
    /\ pc = "write_temp"
    /\ IF ~TransitionAllowed THEN NotWritten /\ UNCHANGED temp
       ELSE IF temp[current] THEN NotWritten /\ temp' = Put(temp, FALSE)
       ELSE GoTo("write_replace") /\ temp' = Put(temp, TRUE)
    /\ UNCHANGED <<source, journal, yields, secret, snapshot, record, zones, stored,
                   legacy, verified, faults>>

WriteReplace ==
    /\ pc = "write_replace"
    /\ record' = Put(record,
           [state  |-> target,
            policy |-> IF target = "PREPARED" THEN snapshot[current]
                       ELSE record[current].policy])
    /\ temp' = Put(temp, FALSE)
    /\ Written
    /\ UNCHANGED <<source, journal, yields, secret, snapshot, zones, stored,
                   legacy, verified, faults>>

-----------------------------------------------------------------------------
(* The Collection process: it creates the schema, then commits one row per *)
(* observation, and may stop at any moment.                                *)

Capture ==
    /\ pc = "collect"
    /\ \/ /\ source[current] = "empty"
          /\ source' = Put(source, "norows")
          /\ UNCHANGED yields
       \/ /\ source[current] \in {"norows", "rows"}
          /\ source' = Put(source, "rows")
          /\ \E P \in SUBSET Policies : yields' = Put(yields, yields[current] \cup P)
    /\ UNCHANGED <<journal, secret, snapshot, record, temp, zones, stored, launcher,
                   legacy, verified, faults>>

CollectionSucceeds ==
    /\ pc = "collect" /\ source[current] # "empty"
    /\ Write("COLLECTED")
    /\ UNCHANGED <<files, zones, stored, legacy, verified, faults>>

(* Variant: every failed attempt is cleaned up. *)
CollectionFailsCleansAll ==
    /\ pc = "collect"
    /\ Exits(INTERRUPTED, "empty_source")
    /\ UNCHANGED <<files, zones, stored, legacy, verified, faults>>

(* cleanup_empty_attempt removes only a buffer that is known to be empty.  *)
CollectionFails ==
    /\ pc = "collect"
    /\ IF HasRows(current) \/ ~InputsReady(current)
         THEN Finish(INTERRUPTED, "recovery")
         ELSE Exits(INTERRUPTED, "empty_source")
    /\ UNCHANGED <<files, zones, stored, legacy, verified, faults>>

EmptySource ==
    /\ pc = "empty_source"
    /\ source' = Put(source, "absent")
    /\ GoTo("empty_secret")
    /\ UNCHANGED <<journal, yields, secret, snapshot, record, temp, zones, stored,
                   legacy, verified, faults>>

EmptySecret ==
    /\ pc = "empty_secret"
    /\ secret' = Put(secret, "absent")
    /\ GoTo("drop_snapshot")
    /\ UNCHANGED <<source, journal, yields, snapshot, record, temp, zones, stored,
                   legacy, verified, faults>>

-----------------------------------------------------------------------------
(* resume: its tests are made in one step, for no other command runs and   *)
(* only tampering could change a file between them.                        *)

ResumeRefused(r, override) ==
    /\ pc = "idle"
    /\ Refusal(r, override) # "none"
    /\ Answer(r, CONFIGURATION_EXIT, Refusal(r, override))
    /\ UNCHANGED <<files, zones, stored, legacy, verified, faults>>

ResumeLegacy(r) ==
    /\ record[r].state = "none" /\ Refusal(r, FALSE) = "none"
    /\ Begin("legacy", r, "validate", "none")
    /\ UNCHANGED <<files, zones, stored, legacy, verified, faults>>

ResumeManaged(r) ==
    /\ record[r].state # "none" /\ Refusal(r, FALSE) = "none"
    /\ IF record[r].state = "PREPARED"
         THEN Begin("resume", r, "write_temp", "COLLECTED")
         ELSE Begin("resume", r, "validate", "none")
    /\ UNCHANGED <<files, zones, stored, legacy, verified, faults>>

-----------------------------------------------------------------------------
(* The pipeline process.                                                   *)

(* cli.main checks its inputs, loads zones and secret; service.run then checks *)
(* that the buffer holds this round, ingests it and processes it.  It      *)
(* opens the buffer read-only, and SQLite then refuses one that a journal  *)
(* has to be rolled back into.                                             *)
Validate ==
    /\ pc = "validate"
    /\ IF source[current] = "absent" \/ ~SecretReads(current) \/ PipelinePolicy = NoPolicy
         THEN Exits(CONFIGURATION_EXIT, "settle")
       ELSE IF journal[current] \/ ~HasRows(current)
         THEN Exits(PIPELINE_EXIT, "settle")
       ELSE IF PipelinePolicy \notin yields[current]
         THEN Exits(UNUSABLE_SOURCE_EXIT, "settle")
       ELSE /\ pc' = "store" /\ loaded' = PipelinePolicy
            /\ UNCHANGED <<command, current, target, exit, outcome, closed>>
    /\ UNCHANGED <<files, zones, stored, legacy, verified, faults>>

(* Variant: another retained round is not looked for. *)
StoreAlways ==
    /\ pc = "store"
    /\ GoTo("verify") /\ stored' = Put(stored, loaded)
    /\ UNCHANGED <<files, zones, legacy, verified, faults>>

(* replace_measurement_round: one transaction.                             *)
Store ==
    /\ pc = "store"
    /\ IF \E x \in Rounds \ {current} : stored[x] # NoPolicy
         THEN Exits(PIPELINE_EXIT, "settle") /\ UNCHANGED stored
         ELSE GoTo("verify") /\ stored' = Put(stored, loaded)
    /\ UNCHANGED <<files, zones, legacy, verified, faults>>

(* load_measurement_round and the comparison with what was processed.      *)
Verify ==
    /\ pc = "verify"
    /\ IF stored[current] # loaded
         THEN Exits(PIPELINE_EXIT, "settle") /\ UNCHANGED verified
         ELSE GoTo("clean_sidecars") /\ verified' = verified \cup {current}
    /\ UNCHANGED <<files, zones, stored, legacy, faults>>

(* Variant: the secret goes first. *)
CleanSecretFirst ==
    /\ pc = "clean_source"
    /\ secret' = Put(secret, "absent")
    /\ GoTo("clean_secret")
    /\ UNCHANGED <<source, journal, yields, snapshot, record, temp, zones, stored,
                   legacy, verified, faults>>

(* cleanup_runtime_inputs, for the pipeline and for discard alike: the     *)
(* sidecars, then the buffer, then the secret.                             *)
CleanSidecars ==
    /\ pc = "clean_sidecars"
    /\ journal' = Put(journal, FALSE)
    /\ GoTo("clean_source")
    /\ UNCHANGED <<source, yields, secret, snapshot, record, temp, zones, stored,
                   legacy, verified, faults>>

CleanSource ==
    /\ pc = "clean_source"
    /\ source' = Put(source, "absent") /\ yields' = Put(yields, {})
    /\ GoTo("clean_secret")
    /\ UNCHANGED <<journal, secret, snapshot, record, temp, zones, stored,
                   legacy, verified, faults>>

CleanSecret ==
    /\ pc = "clean_secret"
    /\ secret' = Put(secret, "absent")
    /\ IF command = "discard" THEN GoTo("drop_snapshot") ELSE Exits(0, "settle")
    /\ UNCHANGED <<source, journal, yields, snapshot, record, temp, zones, stored,
                   legacy, verified, faults>>

(* Variant: every failure is recorded as an incomplete clean-up. *)
SettleAsStored ==
    /\ pc = "settle"
    /\ IF Managed(command) THEN Write("STORED_UNCLEANED")
       ELSE Finish(exit, "recovery")
    /\ UNCHANGED <<files, zones, stored, legacy, verified, faults>>

(* _process_round acts on the exit code of the pipeline.                   *)
Settle ==
    /\ pc = "settle"
    /\ IF Managed(command) /\ exit \in {0, CLEANUP_EXIT, UNUSABLE_SOURCE_EXIT}
         THEN Write(IF exit = UNUSABLE_SOURCE_EXIT THEN "UNUSABLE"
                    ELSE "STORED_UNCLEANED")
         ELSE Finish(exit, CASE exit = 0 -> "processed"
                             [] exit = CLEANUP_EXIT -> "incomplete_cleanup"
                             [] exit = UNUSABLE_SOURCE_EXIT -> "unusable"
                             [] OTHER -> "recovery")
    /\ UNCHANGED <<files, zones, stored, legacy, verified, faults>>

-----------------------------------------------------------------------------
(* cleanup_policy_inputs: after success, an empty attempt and in discard.  *)

DropSnapshot ==
    /\ pc = "drop_snapshot"
    /\ snapshot' = Put(snapshot, NoPolicy)
    /\ GoTo("drop_record")
    /\ UNCHANGED <<source, journal, yields, secret, record, temp, zones, stored,
                   legacy, verified, faults>>

DropRecord ==
    /\ pc = "drop_record"
    /\ record' = Put(record, NoRecord)
    /\ Finish(exit, IF command = "discard" THEN "discarded"
                    ELSE IF exit = 0 THEN "processed"
                    ELSE "empty_attempt")
    /\ UNCHANGED <<source, journal, yields, secret, snapshot, temp, zones, stored,
                   legacy, verified, faults>>

(* Variant: the policy files go first. *)
DiscardPolicyFirst(r) ==
    /\ Begin("discard", r, "drop_snapshot", "none")
    /\ UNCHANGED <<files, zones, stored, legacy, verified, faults>>

Discard(r) ==
    /\ Begin("discard", r, "clean_sidecars", "none")
    /\ UNCHANGED <<files, zones, stored, legacy, verified, faults>>

-----------------------------------------------------------------------------
(* Faults, MaxFaults of them in all.                                       *)

Fault == faults < MaxFaults /\ faults' = faults + 1

(* Collection dies while it commits: the journal stays behind.             *)
Committing == pc = "collect" /\ source[current] \in {"norows", "rows"}
LeaveJournal == journal' = Put(journal, TRUE)

LauncherDies ==
    /\ pc' = "idle" /\ command' = "none" /\ target' = "none"
    /\ loaded' = NoPolicy /\ exit' = 0 /\ outcome' = NoOutcome
    /\ UNCHANGED journal \/ (Committing /\ LeaveJournal)
    /\ UNCHANGED <<current, closed>>

(* The launcher and its child are killed; the host runs on.                *)
Crash ==
    /\ Fault
    /\ pc # "idle" /\ LauncherDies
    /\ UNCHANGED <<source, yields, secret, snapshot, record, temp, zones, stored,
                   legacy, verified>>

(* The host loses power.  SQLite syncs each commit, and snapshot and       *)
(* record are synced as they are written; the secrets are not, nor is a    *)
(* buffer into which SQLite wrote nothing.                                 *)
PowerLoss ==
    /\ Fault
    /\ LauncherDies
    /\ \E left \in [{r \in Rounds : secret[r] = "unsynced"} -> {"kept", "empty", "lost"}] :
          secret' = [r \in Rounds |-> IF r \in DOMAIN left THEN left[r] ELSE secret[r]]
    /\ \E gone \in SUBSET {r \in Rounds : source[r] = "empty"} :
          source' = [r \in Rounds |-> IF r \in gone THEN "absent" ELSE source[r]]
    /\ UNCHANGED <<yields, snapshot, record, temp, zones, stored, legacy, verified>>

(* Only Collection is killed; is_empty_source_buffer cannot read the       *)
(* buffer, so the launcher leaves it alone.                                *)
CollectionKilled ==
    /\ Fault
    /\ Committing /\ LeaveJournal
    /\ Finish(INTERRUPTED, "recovery")
    /\ UNCHANGED <<source, yields, secret, snapshot, record, temp, zones, stored,
                   legacy, verified>>

BundleFails ==
    /\ Fault
    /\ pc \in BundleSteps
    /\ GoTo("undo_source")
    /\ UNCHANGED <<files, zones, stored, legacy, verified>>

UndoFails ==
    /\ Fault
    /\ pc \in RollbackSteps
    /\ Finish(CONFIGURATION_EXIT, "runtime_creation_failed")
    /\ UNCHANGED <<files, zones, stored, legacy, verified>>

WriteFails ==
    /\ Fault
    /\ pc \in {"write_temp", "write_replace"}
    /\ temp' = Put(temp, FALSE)
    /\ NotWritten
    /\ UNCHANGED <<source, journal, yields, secret, snapshot, record, zones, stored,
                   legacy, verified>>

EmptyCleanupFails ==
    /\ Fault
    /\ pc \in {"empty_source", "empty_secret"}
    /\ Finish(exit, "recovery")
    /\ UNCHANGED <<files, zones, stored, legacy, verified>>

(* Ingestion, Processing, the database or reading back raises.             *)
PipelineFails ==
    /\ Fault
    /\ pc \in {"validate", "store", "verify"}
    /\ Exits(PIPELINE_EXIT, "settle")
    /\ UNCHANGED <<files, zones, stored, legacy, verified>>

(* The operator's interrupt kills the pipeline; _run answers 130.          *)
PipelineInterrupted ==
    /\ Fault
    /\ InPipeline
    /\ Exits(INTERRUPTED, "settle")
    /\ UNCHANGED <<files, zones, stored, legacy, verified>>

CleanupFails ==
    /\ Fault
    /\ pc \in CleanSteps
    /\ IF command = "discard" THEN Finish(CONFIGURATION_EXIT, "discard_failed")
       ELSE Exits(CLEANUP_EXIT, "settle")
    /\ UNCHANGED <<files, zones, stored, legacy, verified>>

(* Variant: the failure is not reported. *)
DropFailsSilently ==
    /\ Fault
    /\ pc \in {"drop_snapshot", "drop_record"}
    /\ Finish(0, IF command = "discard" THEN "discarded" ELSE "processed")
    /\ UNCHANGED <<files, zones, stored, legacy, verified>>

DropFails ==
    /\ Fault
    /\ pc \in {"drop_snapshot", "drop_record"}
    /\ IF command = "discard" THEN Finish(CONFIGURATION_EXIT, "discard_failed")
       ELSE IF exit = 0 THEN Finish(CLEANUP_EXIT, "incomplete_cleanup")
       ELSE Finish(exit, "empty_cleanup_failed")
    /\ UNCHANGED <<files, zones, stored, legacy, verified>>

(* The snapshot is edited or removed: between commands in Spec, and in     *)
(* EditedSpec while one runs.                                              *)
ChangeSnapshot(r, p) ==
    /\ Fault
    /\ snapshot[r] # NoPolicy
    /\ snapshot' = [snapshot EXCEPT ![r] = p]
    /\ UNCHANGED <<source, journal, yields, secret, record, temp, zones, stored,
                   launcher, legacy, verified>>

EditSnapshot(r, p) == pc = "idle" /\ ChangeSnapshot(r, p)

(* The lifecycle record is damaged, at any moment.                         *)
CorruptRecord(r) ==
    /\ Fault
    /\ record[r] # NoRecord
    /\ record' = [record EXCEPT ![r].state = "corrupt"]
    /\ UNCHANGED <<source, journal, yields, secret, snapshot, temp, zones, stored,
                   launcher, legacy, verified>>

-----------------------------------------------------------------------------
(* The dashboard and the operator.                                         *)

(* delete_measurement_round, from the dashboard's delete dialog.           *)
DashboardDelete(r) ==
    /\ stored[r] # NoPolicy
    /\ stored' = [stored EXCEPT ![r] = NoPolicy]
    /\ UNCHANGED <<files, zones, launcher, legacy, verified, faults>>

ChangeZones(p) ==
    /\ zones # p /\ zones' = p
    /\ UNCHANGED <<files, stored, launcher, legacy, verified, faults>>

-----------------------------------------------------------------------------
LauncherStep ==
    \/ CreateSource \/ CreateSecret \/ SnapshotZones
    \/ UndoSource \/ UndoSecret \/ UndoSnapshot \/ UndoRecord
    \/ WriteTemp \/ WriteReplace
    \/ Capture \/ CollectionSucceeds \/ CollectionFails
    \/ EmptySource \/ EmptySecret
    \/ Validate \/ Store \/ Verify
    \/ CleanSidecars \/ CleanSource \/ CleanSecret \/ Settle
    \/ DropSnapshot \/ DropRecord

CommandStep(r) ==
    \/ StartRun(r) \/ RunRefused(r)
    \/ ResumeRefused(r, TRUE) \/ ResumeRefused(r, FALSE)
    \/ ResumeLegacy(r) \/ ResumeManaged(r) \/ Discard(r)

FaultStep ==
    \/ Crash \/ PowerLoss \/ CollectionKilled \/ BundleFails \/ UndoFails \/ WriteFails \/ EmptyCleanupFails
    \/ PipelineFails \/ PipelineInterrupted \/ CleanupFails \/ DropFails
    \/ \E r \in Rounds : CorruptRecord(r)
    \/ \E r \in Rounds, p \in Policies \cup {NoPolicy} : EditSnapshot(r, p)

Next ==
    \/ LauncherStep
    \/ \E r \in Rounds : CommandStep(r) \/ DashboardDelete(r)
    \/ \E p \in Policies \cup {NoPolicy} : ChangeZones(p)
    \/ FaultStep

Spec == Init /\ [][Next]_vars

(* A command that is running goes on: its steps are plain code, and        *)
(* Collection ends by its duration.  The operator retries a round that can *)
(* be resumed, as the runbook asks.                                        *)
Fairness ==
    /\ WF_vars(LauncherStep)
    /\ \A r \in Rounds : SF_vars(ResumeManaged(r))

FairSpec == Spec /\ Fairness

(* The same, with snapshots that may change at any moment.                 *)
EditedNext ==
    \/ Next
    \/ \E r \in Rounds, p \in Policies \cup {NoPolicy} : ChangeSnapshot(r, p)

EditedSpec == Init /\ [][EditedNext]_vars

-----------------------------------------------------------------------------
(* Properties.                                                             *)

TypeOK ==
    /\ source \in [Rounds -> {"absent", "empty", "norows", "rows"}]
    /\ journal \in [Rounds -> BOOLEAN]
    /\ yields \in [Rounds -> SUBSET Policies]
    /\ secret \in [Rounds -> SecretFile]
    /\ snapshot \in [Rounds -> Policies \cup {NoPolicy}]
    /\ record \in [Rounds -> [state  : RoundState \cup {"none", "corrupt"},
                             policy : Policies \cup {NoPolicy}]]
    /\ temp \in [Rounds -> BOOLEAN]
    /\ zones \in Policies \cup {NoPolicy}
    /\ stored \in [Rounds -> Policies \cup {NoPolicy}]
    /\ pc \in Steps
    /\ command \in {"none", "run", "resume", "legacy", "discard"}
    /\ current \in Rounds \cup {NoRound}
    /\ pc # "idle" => current \in Rounds
    /\ target \in {"none", "PREPARED", "COLLECTED", "UNUSABLE", "STORED_UNCLEANED"}
    /\ loaded \in Policies \cup {NoPolicy}
    /\ exit \in {0, CONFIGURATION_EXIT, PIPELINE_EXIT, CLEANUP_EXIT,
                UNUSABLE_SOURCE_EXIT, INTERRUPTED}
    /\ outcome \in [code : {0, CONFIGURATION_EXIT, PIPELINE_EXIT, CLEANUP_EXIT,
                            UNUSABLE_SOURCE_EXIT, INTERRUPTED},
                    guidance : Guidance]
    /\ legacy \subseteq Rounds /\ verified \subseteq Rounds
    /\ closed \subseteq Rounds
    /\ faults \in 0..MaxFaults

(* docs/runtime-contract.md: raw input is deleted only after its results   *)
(* were stored and read back, or by an explicit discard: no crash, retry,  *)
(* roll-back or clean-up of an "empty" attempt loses collected rows.       *)
RawDataKept ==
    [][\A r \in Rounds :
          HasRows(r) /\ source'[r] # "rows"
              => r \in verified \/ (command = "discard" /\ current = r)]_vars

(* No command removes the secret rows still need to be pseudonymised:      *)
(* wherever it is killed, interrupted or refused by a failing removal, the *)
(* secret was made before the rows and goes after them.  Only a power loss *)
(* takes it from them ("empty" or "lost"), for it is never synced; those   *)
(* rows stay, and no resume can process them: see PendingIsSettled.        *)
SecretOutlivesRows == \A r \in Rounds : HasRows(r) => secret[r] # "absent"

(* ADR-0003: a round collected with a pinned policy never falls back to    *)
(* the legacy rules of resume, for its record is the last file to go.      *)
NoLegacyFallback ==
    \A r \in Rounds \ legacy : HasRows(r) => record[r] # NoRecord

(* ADR-0003: results of such a round are only ever made with the policy    *)
(* pinned when it was prepared, however often it is resumed and whatever   *)
(* the approved zone file holds by then.                                   *)
StoredUnderPinnedPolicy ==
    [][\A r \in Rounds \ legacy :
          stored'[r] \notin {stored[r], NoPolicy}
              => stored'[r] = record[r].policy]_vars

(* The lifecycle record tells what happened to the data: STORED_UNCLEANED  *)
(* only after verified storage, UNUSABLE only for rows that gave no        *)
(* results, in no earlier attempt either.                                  *)
RecordTellsTruth ==
    \A r \in Rounds :
        /\ record[r].state = "STORED_UNCLEANED" => r \in verified
        /\ record[r].state = "UNUSABLE" => r \notin verified /\ stored[r] = NoPolicy

(* README: a round reported as stored but not cleaned up, or as unusable,  *)
(* is never processed again (rounds with a lifecycle record).              *)
ClosedStaysClosed ==
    \A r \in closed \ legacy :
        current = r => pc \notin {"store", "verify"}

(* A command that reports success leaves nothing of the round behind: no   *)
(* buffer, secret, snapshot or record, and "processed" follows only on     *)
(* verified storage.                                                       *)
SuccessIsClean ==
    outcome.guidance \in {"processed", "discarded", "empty_attempt"} =>
        /\ ~BundleExists(current)
        /\ outcome.guidance = "processed" => current \in verified

(* A round with rows and an intact record and snapshot does not get stuck: *)
(* when the operator keeps resuming it, it ends up cleaned, discarded or   *)
(* closed, whatever crashes left behind (a stale temporary file included), *)
(* unless results are deleted over and over while being verified, and once *)
(* no other round is retained any more: Storage refuses a second one, so   *)
(* until the operator deletes the other every resume ends in exit 3.  Two  *)
(* kinds of buffer are given up: with a journal beside it (see             *)
(* CollectedIsResumable), and with a secret that a power loss took.        *)
Pending(r) ==
    /\ HasRows(r) /\ r \notin legacy
    /\ record[r].state \in {"PREPARED", "COLLECTED"}
    /\ snapshot[r] = record[r].policy

StaysStored(r) == <>[][stored[r] # NoPolicy => stored'[r] # NoPolicy]_vars

RoomFor(r) == <>[](\A x \in Rounds \ {r} : stored[x] = NoPolicy)

Readable(r) == ~journal[r] /\ SecretReads(r)

PendingIsSettled ==
    \A r \in Rounds :
        StaysStored(r) /\ RoomFor(r)
            => (Pending(r) /\ Readable(r) ~> ~(Pending(r) /\ Readable(r)))

(* The launcher keeps the contract: the rows it holds, the policy they are *)
(* bound to, the results and the requests to discard, without the files,   *)
(* the steps and the crashes.                                              *)
Raw     == {r \in Rounds : HasRows(r)}
Pin     == [r \in Rounds |-> IF HasRows(r) /\ r \notin legacy
                            THEN record[r].policy ELSE NoPolicy]
Checked == {r \in verified : HasRows(r)}
Asked   == IF command = "discard" THEN {current} ELSE {}

Contract == INSTANCE RoundContract WITH
    raw <- Raw, pin <- Pin, results <- stored, checked <- Checked, asked <- Asked

ImplementsContract == Contract!Spec

(* What the documentation and the launcher's messages say, taken at their  *)
(* word; see PROJECT.json.                                                 *)

(* docs/phase-03-runtime-runbook.md: when Collection did store data, the   *)
(* round can be resumed.                                                   *)
CollectedIsResumable ==
    \A r \in Rounds : StaysStored(r) /\ RoomFor(r) => (Pending(r) ~> ~Pending(r))

(* _print_recovery: "buffer and secret are kept", here for a round that    *)
(* did collect rows and had them stored and verified.                      *)
RecoveryKeepsInputs ==
    outcome.guidance = "recovery" /\ current \in verified => InputsReady(current)

(* _print_incomplete_cleanup: "processing may not be carried out again".   *)
NeverReprocessed ==
    \A r \in closed : current = r => pc \notin {"store", "verify"}

(* README: a valid but unusable buffer is not presented as resumable.      *)
EmptyIsNotResumable ==
    outcome.guidance = "recovery" => source[current] # "norows"

(* ADR-0003: a digest that does not match fails closed, here for run, whose *)
(* pipeline starts after a Collection that may take hours.                 *)
MismatchFailsClosed ==
    pc = "store" /\ command = "run" => loaded = record[current].policy
=============================================================================
