# CyberBrein: TLA+ specifications

CyberBrein (`src/`) measures Wi-Fi networks along approved zones.  One operator
runs `./cyberbrein run`: a privileged *Collection* process fills a private SQLite
buffer, a *Pipeline* process ingests, processes and stores the findings in
PostGIS, the raw input is destroyed, and a dashboard shows and finally deletes the
single retained round.  These modules model that system from its source, check it
with TLC and prove part of it with TLAPS.

## 1. Inventory

| Part (under `src/src/cyberbrein/`) | State | Operations | What makes it correct |
|---|---|---|---|
| Launcher, `workflow/service.py`, `workflow/cli.py` | the bundle of a round on disk: buffer, secret, zones snapshot, lifecycle record | `run`, `resume`, `discard`, `dashboard` | raw rows go only after verified storage or a discard; a round keeps its policy; messages tell the truth |
| Record store, `workflow/round_state.py` | `<id>.round.json` and its temporary file | `create`, `load`, `transition`, `delete` | the record says what happened to the data; no crash makes it lie |
| Pipeline, `pipeline/` | none between calls; exit code | check inputs, ingest, process, store, read back, clean up | never cleans up what it has not read back |
| Storage, `storage/repository.py` | five PostGIS tables | `has_retained`, `replace`, `load`, `delete` | at most one round; a reader sees one state |
| Source buffer, `collection/sqlite_writer.py`, `buffer.py` | SQLite file and journal | schema, one commit per row, emptiness check | committed rows survive |
| Collection, `collection/collector.py`, `cli.py`, `channel_hopper.py` | counters, stop event, hopper thread | per-packet handler, run, stop | only rows that satisfy the GPS policy; errors end the run |
| GPS cache, `collection/gpsd_client.py` | latest fix and its age, active transport, thread | stream, store, wait, stop | no stale fix; `stop` ends the reader |
| Interface manager and monitor setup | mode of the card, system files, services | `prepare`/`restore`, `setup`/`teardown` | the card goes back to its owner |
| Ingestion and Processing | none (pure) | validate, pseudonymise, match zones, aggregate, score | deterministic, order-independent, bounded score |
| Operations, Presentation | session state, activity log, filters | delete dialog, filters, detail, PDF | a delete is confirmed, verified and logged; what is shown belongs to the round |

How they interact: the launcher starts Collection and Pipeline as child processes
and sees only their exit codes; they share the bundle's files; Pipeline and
dashboard share the database; inside Collection the packet handler, the GPS reader
and the channel hopper are threads sharing a condition variable and an event.

What is hard: crashes between file operations, interrupts that kill a child half
way through a clean-up, retries of what was already stored, a zone file that
changes under a waiting round, deletes from the dashboard while the pipeline
verifies, threads that stop while another reconnects.  `PROJECT.json` lists each
hazard at its line with the property that covers it, or the reason none does yet.

## 2. Plan

In the order in which the modules were written; each group is a part of the system
that shares state:

1. `RoundLifecycle` with `RoundContract`: launcher, record, pipeline, storage and
   operator with crashes at every step; refinement; proofs.  First, because the
   whole privacy argument of the program rests on it.
2. `GpsCache`: reader thread, `stop`, `wait_for_fix`, ages of fix and accuracy; proofs.
3. `Observations`, `Aggregation`, `Processing`: what becomes of a received frame,
   from the parser to the score of a finding.
4. `HostCommands`, `CaptureHost`: the commands that change the capture card and the
   system's files, with the hopper thread.
5. `StorageRounds`, `DashboardSession`: transactions on the retained rounds, and a
   browser session on top of them; `DashboardSession` extends `StorageRounds`, so
   that page, deletion and pipeline interleave.

`RoundLifecycle` uses coarser versions of what the later modules detail: one step for a
database transaction (`StorageRounds` splits it), a set of policies for what Ingestion
and Processing find (`Processing`), a non-zero exit for a failed Collection
(`CaptureHost`).

Each group has its proofs in modules of their own, named `..._proofs`, after TLC had agreed
with the invariants in them.  Every invariant and action property of a passing run, and
the refinement, is now also a theorem; the three liveness properties (`PendingIsSettled`,
`ReaderEnds`, `CommandEnds`) are model-checked only, because fairness and `ENABLED` are outside
TLAPS.  What a continuation would take up: more about what the functions of the data path
compute (which score a given set of observations has), and two launchers at once, should
the program ever allow them.

Where a proof needs an induction over data, it takes a least counterexample instead: the
theorems about well-founded relations give a smallest finite set or a smallest number that
violates a formula (`WFMin`), and one step of the recursion contradicts it.  In this
way `Processing_proofs` knows what a sum over a set of rows is, and `DashboardSession_proofs`
which findings a filter keeps.

## 3. RoundLifecycle

| Variable | In the code |
|---|---|
| `source[r]` | `data/smoke/<r>.sqlite`: absent, empty (0 bytes), norows (schema only), rows |
| `journal[r]` | `<r>.sqlite-journal` left by a killed writer |
| `yields[r]` | the policies under which Ingestion and Processing give findings for the rows |
| `secret[r]` | `data/local/<r>.secret`: absent (never made or removed), unsynced (as `_create_secret` leaves it), kept, and what a power loss may leave of an unsynced one, empty or lost |
| `snapshot[r]` | `<r>.zones.geojson`: its content, `NoPolicy` when missing |
| `record[r]`, `temp[r]` | `<r>.round.json` (state and digest, which stands for the content) and `.<r>.round.json.tmp` |
| `zones` | the operator's approved zone file |
| `stored[r]` | the rows of PostGIS for the round: the policy they were made with |
| `pc`, `command`, `current`, `target`, `exit`, `outcome` | the running command, the round, the record state being written, the child's exit code, the printed guidance |
| `loaded` | the zones the running pipeline has read |
| `legacy`, `verified`, `closed`, `faults` | history, in no guard except the bound on faults |

Every file operation is an action, in the order of the code: `CreateSource`,
`CreateSecret`, `SnapshotZones`, `WriteTemp`, `WriteReplace` make a bundle
(`create_runtime_bundle`), the `Undo...` actions are its except branch, `Capture`
is one commit of Collection, `CollectionSucceeds`/`CollectionFails` its exit,
`EmptySource`/`EmptySecret` is `cleanup_empty_attempt`, `Validate`, `Store`,
`Verify` and the `Clean...` actions are the pipeline, `Settle` is
`_process_round` acting on its exit code, `DropSnapshot`/`DropRecord` is
`cleanup_policy_inputs`.  `ResumeRefused` answers by `Refusal`, the tests of
`resume` in their order.

Faults, at most `MaxFaults` of them in a behaviour: `Crash` (the launcher and its
child are killed at any step, the host runs on), `PowerLoss` (at any moment, between
commands too), `CollectionKilled`, a failing file operation at each place the code
handles one (`BundleFails`, `UndoFails`, `WriteFails`, `EmptyCleanupFails`,
`CleanupFails`, `DropFails`), `PipelineFails`, `PipelineInterrupted` (Ctrl-C: `_run`
answers 130 whatever the child had done), a damaged record, an edited snapshot.  The
dashboard may delete and the operator may change the zone file at any moment, without
a bound.

A power loss spares what the code synced: the snapshot, the record and every commit
of SQLite.  The secret is written without a sync, so it can come back whole, empty or
not at all, also when rows were committed since; a buffer into which SQLite has
written nothing may be gone.  A file system may do worse and better than that: the code never
syncs a directory, but what was made, renamed or removed stays so here, these two files
excepted; and a secret remains at risk in every later power loss here, although the
kernel writes it out within seconds.

Abstractions: one launcher at a time (ADR-0003 postpones locking); a database
transaction is one step; `INTERRUPTED` stands for
every non-zero exit of Collection; an interrupt that reaches the launcher between
two of its own steps is a `Crash`; resume's tests are one step, because nothing
else than tampering runs between them; file modes and symbolic links are part of
"missing or refused".  `EditSnapshot` comes between commands in `Spec`;
`EditedSpec` drops that restriction.

### RoundContract

`RoundContract` is what the documentation promises without naming a file:
rows are collected once under one policy, published only under it and only while
nothing else is retained, checked, and erased only when checked or asked.
`RoundLifecycle` implements it (`ImplementsContract`, checked and proved) under
the mapping `Raw`, `Pin`, `stored`, `Checked`, `Asked`; all its other variables
are hidden, and each of its actions is a step of the contract or a stutter.

### Runs

| Run | Question | Bounds |
|---|---|---|
| `lifecycle_one` | type, `SecretOutlivesRows`, `RecordTellsTruth`, `ClosedStaysClosed`, `SuccessIsClean`, `RawDataKept`, `StoredUnderPinnedPolicy`, and `PendingIsSettled` under fairness | 1 round, 2 policies, 2 faults |
| `lifecycle_two` | `NoLegacyFallback`, `ImplementsContract`, and `PendingIsSettled` with another round in the way | 2 rounds (one legacy), 1 policy, 1 fault |
| `recovery_message`, `legacy_reprocessed`, `empty_resumable`, `collected_resumable`, `snapshot_edited` | five statements of the documentation that the code does not keep; see below | 1 round, at most 1 fault |

Why the bounds are enough: rounds interact only through the check for a retained
round, so two suffice, and both runs check `PendingIsSettled`, because the second round
matters to it: without its premise `RoomFor`, `lifecycle_two` is violated by a round
whose resume Storage refuses for ever while the other one is retained.  Two policies
tell "pinned" from "present"; two faults allow a crash and then a second fault in the
recovery from it (a stale temporary file and a failing clean-up, an interrupt and a
damaged record).  The theorems below hold without these bounds.

Fairness (`FairSpec`): weak fairness of `LauncherStep`, because the steps of a
running command are plain code and Collection ends by its duration; strong
fairness of `ResumeManaged`, because the runbook has the operator repeat `resume`
(other commands may come in between, so the step is not always possible).  No
fairness for faults, the dashboard or new runs.

`PendingIsSettled` says that a round with rows and an intact record and snapshot ends up
cleaned, discarded or closed, with four exceptions, each of which the code has:

- results are deleted again and again while the pipeline verifies them (`StaysStored`);
- another round is retained and never deleted: Storage refuses a second one, so that
  every resume ends in exit 3 until the operator deletes the first (`RoomFor`);
- Collection left a journal, see `collected_resumable` (`Readable`);
- a power loss took the secret (`Readable`).

`SecretOutlivesRows` is therefore about commands: none of them, wherever it is killed,
interrupted or refused by a failing removal, removes the secret before the rows.  That a
power loss can take it is what the states `empty` and `lost` stand for.

### Statements the code does not keep

Each is the violated property of one run, quoted with its lines in `PROJECT.json`:

- *The buffer and the secret are kept* (`recovery_message`): not when the
  pipeline is interrupted while it removes them after verified storage.
- *Processing may not be carried out again* (`legacy_reprocessed`): nothing
  stops it for a legacy round, which has no record.
- *A valid but unusable buffer is not presented as resumable*
  (`empty_resumable`): a buffer without a single row is, for ever.
- *When Collection did store data, the pipeline can be resumed*
  (`collected_resumable`): not when Collection was killed inside a commit, since
  the pipeline opens the buffer read-only and cannot roll the journal back; and not when a
  power loss took the secret, which this run has as well, although TLC reports the first.
- *A digest mismatch fails closed* (`snapshot_edited`): only `resume` compares;
  `run` processes whatever the snapshot holds after Collection.

### Proofs

`RoundLifecycle_proofs`, `RoundContract_proofs` and `RoundTruth_proofs`, from the
assumptions on the constants only (`LegacyRounds` are rounds, `NoPolicy` is no policy, `NoRound` no
round, `MaxFaults` a natural number):

- `TypeCorrect`: `TypeOK`, inductive by itself.
- `Invariance`: the inductive invariant `IInv`.  `SecretOutlivesRows` and
  `NoLegacyFallback` are not inductive alone: that `EmptySecret`, `UndoRecord` or
  `DropRecord` is harmless depends on what the launcher knows at that point.
  `StepsKnowNoRows` says where the buffer holds no rows, `BundleMade` and
  `NewRound` what `run` has made when Collection starts, `PolicyPinned` which
  policy the pipeline has, `VerifiedFirst` and `StoresHeldRows` why clean-up and
  storage may start.
- `SecretSafe`, `NoFallback`: the two invariants, as parts of `IInv`.  `SecretSafe` says no
  more than its property: the loss by `PowerLoss` is outside it.
- `RawDataIsKept`, `PolicyIsPinned`: the action properties, from `IInv` and a
  lemma on which actions write rows and results.
- `Implementation`: `RoundLifecycle` implements `RoundContract`, and with it that a round is
  published only while no other is retained: one lemma per step that the contract sees, and
  one that all other steps are quiet.

- `TruthInvariance`: the invariant `TruthInv`, inductive given `IInv`, for what the
  record and the messages say.  `CommandInv` says which command takes which step,
  and that nothing is reported while one runs; `LegacyInv` that only a round
  without a record gets through a resume by the old rules; `RemovalInv` in which
  order the files go, so that success means none is left; `VerifiedInv` what
  follows on verified storage only.  `YieldInv` says that rows which gave results
  once give them again, since the policy is pinned and Collection only adds rows:
  without it an interrupted `resume` might call a stored round unusable.
  `OpenInv` and `ClosedInv` say that no command but `discard` works on a round
  whose record is final, and what keeps a round closed that has one.
- `RecordTruthful`, `ClosedForGood`, `SuccessfulIsClean`: the properties
  `RecordTellsTruth`, `ClosedStaysClosed` and `SuccessIsClean`, from both invariants.

Checked by TLC only: `PendingIsSettled` (liveness under fairness is outside
TLAPS).

## 4. GpsCache

The one place where Collection has two threads at work on shared data.

| Variable | In the code |
|---|---|
| `reader`, `mine`, `lines`, `failed`, `accuracyAge` | the thread `gpsd-cache`: where it is in `stream_fixes`, its local `transport`, the lines left of the last chunk, an exception on its way out, `_TpvState` |
| `active`, `stop`, `open` | `_active_transport`, `_stop_event`, the sockets that are not closed |
| `fixAge`, `fixAccuracyAge` | the age of `_latest_fix` and of the accuracy in it, in ticks |
| `main`, `seen`, `stopsLeft`, `notified` | the main thread: where it is, the transport `close` has read, the `finally` clauses that will call `stop`, and whether the condition it sleeps on was notified |

Each critical section of `_condition` or `_transport_lock`, each test of the event
and each socket call is a step, so that `stop` can come between any two lines of
`stream_fixes`.  A connection may fail at every step; a socket may be reused once it
is closed and no longer seen.  `Interrupt` is the Ctrl-C of the operator at every
step of the main thread that is not the capture itself, whose end it is anyway.
`Tick` lets time pass; ages stop one tick after the limit that the code compares
them with.  Positions and accuracies arrive alone or together.

Run `gps_cache`: two sockets (the one `stop` has seen and a later one), limits of 1
and 2 ticks (different, so that no property holds because they are equal), chunks of
at most two lines.  It checks that `stop` releases the reader although it may look
before a new transport is registered (`ReadReleased`), that no failed connection
stays open or registered (`OneConnection`), that the main thread does not sleep
through a fix (`NoMissedFix`), that a fix handed out was made with an accuracy within
its limit (`FixIsConsistent`), and that the reader ends once told to, also when
`stop` itself was interrupted (`ReaderEnds`).

Fairness: weak fairness of each thread.  It asks no more of gpsd than the code does:
connecting, receiving and the delay have a timeout, and so do the wait for a fix,
the capture and the join.  Time itself is not fair.

Proofs (`GpsCache_proofs`, for any sockets and any limits): `TypeCorrect`, and
`Invariance` of `SocketInv` (the registered transport is the reader's own from
`Register` to `ClearActive`; between connections there is none) and `StopInv` (the
event is set before `stop` reads the transport, and the reader tests it before it
receives; hence a reader found in `recv` while `stop` is about to close was there
with the transport that `stop` read).  `StopReleases`, `SingleConnection`,
`FixesWake` and `FixesConsistent` follow.  `ReaderEnds` is model-checked only.

Left out: `get_latest_fix` as a one-shot read of gpsd (the preflight command) and
the polling fallback for sources without `stream_fixes`, which Collection never has.

## 5. Observations, Aggregation, Processing

The data path, one stage after another: `Collect` is `process_packet` for one
reception, `EndCollection` the end of the capture, `Ingest` and `Process` the two
services of the pipeline.

| Variable | In the code |
|---|---|
| `buffer` | `raw_observation`, in the order of its primary key |
| `skipped` | the counters of `CollectorService` |
| `accepted` | the rows that `IngestionService` accepted |
| `rejected` | `rejection_reasons` of both services, as the rows counted under each |
| `findings` | `ProcessingResult.findings`, with their scores |

`Observations` has the functions of one frame or row (`_channel_from_frequency`,
`_get_band`, `_get_encryption`, `validate_observation`, `validate_processing_quality`,
`match_approved_zone`, `normalize_encryption`); the first reason of a chain of tests wins,
as in the code.  `Aggregation` has the functions of a group: the representative by its key,
the weakest encryption, the finding, the score.

Abstractions: encryption text is the set of words the code searches in it; a place is a
number that keeps the order of coordinates, and `Covers` says which zones cover it; the
HMAC is a function of the normalised BSSID; the average is kept as a sum and a
count; a row stands for `times` equal observations, so that ten observations need not
be ten rows; the buffer has one round, because the pipeline refuses another.  The
properties about later stages rely on nothing that Collection does not check itself:
`StagesAgree` says which of the later checks can therefore never fire.

Run `processing`: every sequence of up to three receptions out of 54, chosen at both
sides of every boundary: frequencies and channels of every band, with and without a channel
element, signals at -121, -120, -81, -80, -67, -66, 0 and 1, every category of encryption, fixes
that are missing, without accuracy and too coarse, places in one zone, another, both and none, a
BSSID in other letters, another network, an earlier time, and nine equal frames.  Two
receptions make a pair to aggregate, the third one a tie or a third category between them.

- `EveryRowAccountedFor`: each stored observation is counted once, as rejected by one stage
  or in one finding.
- `StagesAgree`: what Collection stored is never rejected later for its fix or for a band
  that another stage calculates differently, although each stage has ranges of its own.
- `WholeRepresentative`: place, time, radio and signal of a finding come from one observation.
- `OrderOnlyShowsInTie`: the order of capture shows in one thing only, the choice
  between `WPA2` and `WPA2_OR_WPA3` when both are weakest, and never in the score.
- `MoreEvidenceNeverLowersScore`: the findings of a part of the observations never score higher
  than those of all, and none disappears.

Proofs (`Processing_proofs`, for any frames, fixes, zones, accuracy limit and length of the
measurement).  `ReceptionsAssumption` gives the frames their types, and `CoversAssumption` the
zones theirs, with finitely many of them.

- `Invariance` of `RowsInv`: the buffer has only rows that `Collect` may store, Ingestion
  accepts some of them, and Processing rejects some of those.  `StagesAgree` is about rejections
  only, so it needs the first part; with `StoredRowIsSound`, a lemma about one row, it follows
  (`StagesAlwaysAgree`).  `BandsAgree` compares the two calculations of a band for every frequency.
- `TypeCorrect` includes that a score is from 0 to 8 and its level the one that goes with it.
- `ResultsOfTheBuffer` (`ResultInv`): after each stage the variables are what the functions of
  the data path make of the whole buffer, so that the other properties become statements
  about those functions.
- `EveryRowAlwaysAccountedFor`: rejected rows and groups partition the rows, and counts over
  a partition add up to the count over the whole.
- `AlwaysWholeRepresentative`: the least key exists, belongs to a row of the group, and starts with
  the strongest signal.
- `MoreEvidenceAlwaysCounts`: with more rows the strongest signal is not weaker, the weakest
  encryption not stronger and the number of observations not smaller, and points never
  fall with any of them.
- `OrderOnlyEverShowsInTie`: a permutation of the buffer maps groups to groups with equal
  sums, equal keys and an encryption of equal strength.

## 6. HostCommands, CaptureHost

`HostCommands` is the machine: a record of the card (type, up, managed by
NetworkManager, connected), the three system files and the service, and what `nmcli`,
`ip`, `iw`, `udevadm`, `systemctl` and file writes do to it.  `CaptureHost` runs the commands of
`InterfaceManager`, `MonitorProvisioner` and Collection on it, one system command a step.

| Variable | In the code |
|---|---|
| `command`, `phase`, `left`, `code` | the program that runs, the function it is in, the commands left in it, the exit status |
| `changed`, `wasConnected`, `failed` | `_changed`, `_was_connected`, the local `failed` of `restore` |
| `hopper`, `stop` | the thread `channel-hopper` and `stop_event` |
| `leftBy`, `excuses`, `last`, `promise` | history, for the properties: `leftBy` is what made the main thread leave the hopper behind, an interrupt or the timeout of the join |

Faults, at most `MaxFaults` together: any command or file operation fails, Ctrl-C before
any step, the hopper dies, power is lost, the card is plugged in again.  `OnFailure` has what the
code does for a failure in each phase: `prepare` restores, `restore` goes on and remembers,
`setup` rolls back, the roll-back ignores failures of optional commands, `teardown` ignores only
that of `disable`.  A command that fails may have done a part of its work (`FailedEffects`): a
file fails its mode check after it was replaced, a restart of the service fails at each command
of its unit, `disable --now` between removing the link and stopping the service.
NetworkManager connects when it wants, and takes in its configuration file only when it
starts.  An exception from the packet handler ends the sniffer and reaches `run`, as
`CollectorService.run` expects of it.  `CollectorService.run` is the steps `OpenCapture` (up to
the start of the thread), `StartSniffer` (into the `try`), `EndCapture`, `StopHopper` (the event
is set) and `Join`, so that Ctrl-C can come between any two of them; the join returns in any
state of the hopper.

Run `capture_host`: three commands and three faults, which is a setup, a measurement and a
teardown with a failure in each, or a failure, a failing recovery and a reboot in one.

- `CardIsHandedBack`: a measurement that took the card gives it back, whenever it reports
  success and, unless `restore` itself failed or was interrupted, also when it fails.
- `SetupHolds`: what a successful setup promised stays true over measurements, reboots and
  replugs.
- `TeardownHolds`: the files that a successful teardown removed stay away, and nothing starts
  monitor mode at boot.  When `systemctl disable` fails, which teardown ignores, only the first
  half holds: it reports success and the service is still enabled, although the runbook (15.2)
  says that the configuration has been removed.
- `FailedSetupRolledBack`: from its first command on, a failing setup takes all back.  The unit
  file is not part of that, nor is it of teardown: a template that starts nothing of itself.
- `HopperStopsTuning`: from the end of the capture on the hopper starts no further command, so
  that at most the one it is in meets the commands that give the card back, however the join
  ends.  The exception is Ctrl-C before the stop event is set: between the start of the thread
  and the `try`, or at the entry of its `finally` clause.  The thread is then neither stopped
  nor joined while `restore` runs, although the docstring of `run` says *always stop the
  optional channel hopper*.
- `HopperDeathIsReported`: a dead hopper is not reported as success, unless the join gave it up.
- `CommandEnds`: every command ends, under weak fairness of the main thread: system
  commands return (the code waits for them without a timeout) and the sniffer has a duration.
  Nothing is asked of the hopper, whose `iw` may never return: the join has a timeout.

Run `setup_rollback`: the runbook's *draait bij een fout de gedeeltelijke configuratie terug*
is not kept for the three files themselves, which are written before the `try`.  When a step
fails once the NetworkManager file is in place, that file stays: in TLC's trace its own mode
check after the replacement fails; a third file that cannot be written does the same.  A second
file that cannot be written at all leaves only the unit, which does no harm.

Proofs (`CaptureHost_proofs`, for any number of commands and faults): `Invariance` of
`HostInv`.  None of the properties is inductive alone, because they speak of the end of a
command and what they need was done by its steps.  `StepsInv` therefore says for each phase what
has been done to the host when `n` of its steps are left (`RestoreDone`, `FilesDone`,
`SetupDone`, `RollbackDone`, `TeardownDone`), unless something on the list `excuses` came in
between; one lemma per phase shows that its next step brings this from `n` to `n - 1`.
`ControlInv` ties phases to commands, `HopperInv` the thread to the phases, and `PromiseInv`
says that a measurement under a promise of monitor mode leaves the card alone.  `TypeCorrect`,
`CardHandedBack`, `SetupIsKept`, `TeardownIsKept`, `FailedSetupUndone`, `HopperStops` and
`HopperReported` follow.  `CommandEnds` is liveness and model-checked only.

## 7. StorageRounds, DashboardSession

### StorageRounds

| Variable | In the code |
|---|---|
| `stored[r]` | the committed rows of the five tables for a round |
| `lock[r]` | the transaction that is deleting the row of `measurement_round` |
| `pipe` | the pipeline's run: its step, the round it stores, how far the read-back is |
| `deletion[o]`, `log[o]` | each operator's deletion, and the event it left in the activity log |

Statements run under READ COMMITTED, which the repository does not change: each sees what was
committed when it started, and a `DELETE` waits for a transaction that is deleting the same row
(`Woken`: afterwards it finds the row gone, or tries again when that one was rolled back).
`BeginReplace` to `CommitReplace` is `replace_measurement_round`, `ReadBack` the statements of
`load_measurement_round`; `BeginDelete`, `DeleteRow`, `CommitDelete` and `Recount` are
`delete_measurement_round`, `Record` is `OperationsService`.  Failures: the pipeline dies or
loses its connection, a statement of a deletion fails, the answer to its `COMMIT` is lost, the
log cannot be written.

A round's tables are filled in one transaction and emptied by one cascade, so they are
one value; which statement sees it is what the model keeps.

### DashboardSession

A run of the page's script is `List`, two times `ReadRound`, `ReadZones`, `ReadFindings`,
`ReadFactors`, and then one of the ways to draw the page: `ShowDetail`, `ShowOverview`,
`SubmitFilters` (a form was submitted), `BreakPage`.  An interaction (`Click`) starts a run,
`Rerun` starts it again.  `state`, `preview` and `ticked` are the session state with the value of the
confirmation boxes; `marker` is what the map component answers; `screen` is what is drawn.

Streamlit is assumed to work as its users know it: a button is true in the run it
starts and lost when that run does not draw it; a widget that is not drawn loses its value; one
whose options or default changed starts again from its default; a default that is not among its
options raises.

Abstractions: zones and signal categories stand for the six groups of filters (the other four
work as the signal categories do, which is also the group whose value comes from other rows); of
the second load the zones are only drawn; the count in the success message is not kept.  An
interaction waits for the run before it: Streamlit may also abandon a run that is not finished,
which then has changed nothing but the session state it had come to.  Of the steps of the pipeline
and of other operators, only commits matter to the script; the other steps are taken between runs
(`AtRest`), except the ones that lead from one commit to the next, so that every order of commits
among the statements of a page is still there.

Run `dashboard`: this session and a second operator, two round IDs, two contents that differ
in a zone and in a network found in both zones, one pipeline run, two deletions, one failure, and
two interactions and failures together (a tick and a confirmation are not counted).  Two
interactions are a filter and then a click, a preview and then another view, a dialog and then a
deletion, with a stored round or a deletion anywhere in between.

- `DeletionToldTruly`: *verwijderd* is shown only with a SUCCEEDED event, and only when
  the round was really absent at some moment since the confirmation.
- `VerifiedMeansStored`: the pipeline ends its read-back successfully only when the results
  are still stored.
- `ShownFindingsAreWhole`: no finding without its factors and no mixture of two contents is drawn,
  whatever commits between the statements, unless a round was stored anew during the run.
- `DetailIsOfClickedNetwork`: the detail is of the network that was clicked; it can be
  the finding of an earlier zone, because the session keeps the network ID only.
- `DeletesOnlyConfirmedRounds`: a dialog that outlives its round never deletes the next one with
  the tick of the first.
- `BrokenOnlyByStaleFilters`: see below.
- `PdfIsOfThisView`: the preview offered is of the findings on the page.  Its key has no zones, so
  outlines of an earlier zone file may be in it.
- `NoEndlessRerun`: handling one click restarts the script at most twice.

There is no fairness here: nothing obliges the operator to go on.

Proofs (`StorageRounds_proofs` and `DashboardSession_proofs`, for any rounds, operators,
filters and bounds, and for any contents that the pipeline may store: `ContentsAssumption` and
`FindingsAssumption` say that findings are a non-empty sequence in the order of their zones, at
most one for each network in a zone, each with one of the signal categories).

- `StorageInv`: a deletion that is under way is not in the log yet, and a round that is
  absent meanwhile is known to have been absent (`DeletionInv`); from its commit to the end of
  the read-back a round is what the pipeline stored, or gone (`PipeInv`).  `StorageStep` states
  it for every step of the database, so that it can be cited for any of its users.
- `OneRoundInv`: no two rounds are stored at once, and none but its own while one is replaced.
- `ConsentInv`: the box that is ticked is that of a confirmed round, only the round on the page
  can have been confirmed, and the session stays on its page while it deletes.
- `Invariance`: Storage and consent in every state of the session with the database.
  `DeletionsToldTruly`, `VerifiedIsStored` and `OnlyConfirmedDeleted` follow.

The page needs more, and `DashboardInvariance` states all of it together (TLC had checked each
part on the run `dashboard`):

- `PageInv`: the shape of what is read and kept, and that a screen that is drawn is replaced
  before the script goes on.  `TypeCorrect` follows.
- `PdfInv`: the key of a preview tells of which findings and filters it was made, so one that is
  found by its key is of this page (`PdfAlwaysOfThisView`).
- `ReadInv`: as long as no round is stored anew during the run, the first load has found what is
  stored, and the second the same or nothing.  A round that is deleted between two statements
  either makes a statement fail or leaves findings without factors, on which the load raises
  (`LostFactorsRaise`); so a page that is drawn has the findings of one content
  (`ShownAlwaysWhole`).
- `AimInv`: the selection is of the network that was aimed at, and a kept marker is one of
  those that were drawn.  With the order by zone, which a filter keeps (`FilteredKeepsOrder`), the
  first finding of that network is in the zone of the click or before it (`DetailAlwaysOfClicked`).
- `RestartInv`: a run that the operator did not start has no button to handle, and the second
  such run finds the selected network on its page, draws the detail and stops (`RerunsEnd`).
- `FilterInv`: while nothing was stored since the filters were applied, whatever is stored offers
  them.  It needs `ReadInv` when filters are applied, because only a whole load offers the options
  that the stored round has (`OnlyStaleFiltersBreak`).

What these runs taught about the dashboard: deleting a round keeps the applied filters
(`_clear_deleted_round_state`), so the next round is shown filtered by them, and when one of
them is no option of the next round the popover raises outside the `try` of `main`.  The page
then stays broken, because *Filters wissen* is inside that popover; a new browser session helps.
`BrokenOnlyByStaleFilters` shows that nothing else breaks it.  A deletion that raises after its
commit (a round stored in between, a lost answer, a log that cannot be written) is reported as
failed although the round is gone, as its message says: *controleer het activiteitenlog en Storage*.

## 8. Not modelled

- Two launchers or two pipelines at once: the program runs one and ADR-0003 leaves locking out.
  What could go wrong then is in `PROJECT.json` without a property (`storage/repository.py:228`,
  `workflow/service.py:429`).
- Directory entries that a power loss undoes: the code syncs files, never directories.
- The content of a half-written SQLite page after a discard was interrupted
  (`pipeline/runtime_inputs.py:36`), and the collation of the database, which the comparison of
  read-back and findings depends on (`pipeline/service.py:105`).
- `GpsdClient.get_latest_fix` as a one-shot read (the preflight command) and the polling fallback for
  sources without `stream_fixes`.
- Drawing: PDF layout, map tiles and markers, styles, wording, logging of progress.
- Argument parsing, the dashboard command of the launcher, file modes and symbolic links beyond
  "refused".
