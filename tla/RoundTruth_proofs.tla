------------------------- MODULE RoundTruth_proofs -------------------------
(***************************************************************************)
(* That the lifecycle record and the launcher's messages tell the truth,   *)
(* for every set of rounds and policies and any number of faults.          *)
(***************************************************************************)
EXTENDS RoundLifecycle_proofs

(* The pipeline has removed buffer and secret.                             *)
InputsGone == (pc = "settle" \/ Writing("STORED_UNCLEANED")) /\ exit = 0

(* Which command takes which steps; nothing is reported while it runs.     *)
CommandInv ==
    /\ pc # "idle" => command # "none" /\ outcome.guidance = "none"
    /\ pc \in {"write_temp", "write_replace"} => Managed(command)
    /\ pc \in {"validate", "store", "verify", "settle"} => Managed(command) \/ command = "legacy"
    /\ pc \in {"empty_source", "empty_secret"} => exit = INTERRUPTED

(* Rounds that predate records have none, and a resume by the legacy rules *)
(* gets past the checks of the pipeline for such a round only.             *)
LegacyInv ==
    /\ \A r \in legacy : record[r] = NoRecord
    /\ Managed(command) /\ pc # "create_source" /\ pc \notin RollbackSteps => current \notin legacy
    /\ command = "legacy" => snapshot[current] = NoPolicy /\ record[current] = NoRecord
    /\ command = "legacy" /\ pc \in {"store", "verify"} \cup CleanSteps => current \in legacy
    /\ command = "legacy" /\ pc = "settle" /\ exit \in {0, CLEANUP_EXIT, UNUSABLE_SOURCE_EXIT}
          => current \in legacy

(* The order in which the files go.                                        *)
RemovalInv ==
    /\ pc \in {"clean_secret", "empty_secret", "drop_snapshot", "drop_record"} \/ InputsGone
          => source[current] = "absent"
    /\ pc \in {"drop_snapshot", "drop_record"} \/ InputsGone => ~HasSecret(current)
    /\ pc = "drop_record" => snapshot[current] = NoPolicy

(* What may only follow on verified storage.                               *)
VerifiedInv ==
    /\ pc \in CleanSteps /\ command # "discard" => current \in verified
    /\ pc = "settle" /\ exit \in {0, CLEANUP_EXIT} => current \in verified
    /\ Writing("STORED_UNCLEANED") => current \in verified
    /\ pc \in {"drop_snapshot", "drop_record"} /\ exit = 0 /\ command # "discard"
          => current \in verified

(* Rows that gave results once give them again: the pinned policy stays,   *)
(* and Collection only adds rows.                                          *)
YieldInv ==
    /\ \A r \in Rounds \ legacy :
          HasRows(r) /\ (stored[r] # NoPolicy \/ r \in verified) => record[r].policy \in yields[r]
    /\ pc \in {"store", "verify"} => loaded \in yields[current]
    /\ pc \in BundleSteps \cup {"collect"} \/ Writing("PREPARED") => stored[current] = NoPolicy
    /\ Managed(command) /\ ((pc = "settle" /\ exit = UNUSABLE_SOURCE_EXIT) \/ Writing("UNUSABLE"))
          => current \notin verified /\ stored[current] = NoPolicy

(* No command works on a round whose record is final, but a discard.       *)
Processing ==
    \/ pc \in {"collect", "write_temp", "write_replace", "validate", "store", "verify", "settle"}
    \/ pc \in CleanSteps /\ command # "discard"

OpenInv == Processing => record[current].state \notin {"UNUSABLE", "STORED_UNCLEANED"}

(* A round the operator was told not to process again has no rows or a     *)
(* record that says so.                                                    *)
ClosedInv ==
    /\ \A r \in closed \ legacy :
          HasRows(r) => record[r].state \in {"UNUSABLE", "STORED_UNCLEANED", "corrupt"}
    /\ (pc \in {"validate", "store", "verify"} \/ Writing("COLLECTED")) /\ current \in closed \ legacy
          => ~HasRows(current)
    /\ pc \in {"create_secret", "snapshot_zones", "collect"} \/ Writing("PREPARED")
          => current \notin closed

TruthInv ==
    /\ CommandInv
    /\ LegacyInv
    /\ RemovalInv
    /\ VerifiedInv
    /\ YieldInv
    /\ OpenInv
    /\ ClosedInv
    /\ RecordTellsTruth
    /\ SuccessIsClean

-----------------------------------------------------------------------------
(* TruthInv is inductive, given the parts of IInv. *)
LEMMA TruthStep == TypeOK /\ TypeOK' /\ IInv /\ IInv' /\ TruthInv /\ [Next]_vars => TruthInv'
<1> USE NoPolicyAssumption, NoRoundAssumption
<1> SUFFICES ASSUME TypeOK, TypeOK', IInv, IInv', TruthInv, [Next]_vars
             PROVE  TruthInv'
  OBVIOUS
<1> USE DEF TypeOK, Steps, RoundState, BundleSteps, RollbackSteps, PipelineSteps, CleanSteps, files,
      launcher, IInv, NoneIsNoRecord, StepsKnowNoRows, NoRowsHere, Writing, BundleMade,
      PolicyPinned, VerifiedFirst, NewRound, StoresHeldRows, NoLegacyFallback,
      HasRows, HasSecret, NoRecord, Managed, BundleExists, InputsGone, NoOutcome, TruthInv, CommandInv, LegacyInv,
      RemovalInv, VerifiedInv, YieldInv, Processing, OpenInv, ClosedInv, RecordTellsTruth,
      SuccessIsClean, CONFIGURATION_EXIT, PIPELINE_EXIT, CLEANUP_EXIT, UNUSABLE_SOURCE_EXIT, INTERRUPTED
<1>1. CASE LauncherStep
  <2>1. CASE CreateSource
    BY <2>1, SMTT(30) DEF CreateSource, Put
  <2>2. CASE CreateSecret
    BY <2>2, SMTT(30) DEF CreateSecret, Put, GoTo
  <2>3. CASE SnapshotZones
    BY <2>3, SMTT(30) DEF SnapshotZones, Put, GoTo
  <2>4. CASE UndoSource
    BY <2>4, SMTT(30) DEF UndoSource, Put, GoTo
  <2>5. CASE UndoSecret
    BY <2>5, SMTT(30) DEF UndoSecret, Put, GoTo
  <2>6. CASE UndoSnapshot
    BY <2>6, SMTT(30) DEF UndoSnapshot, Put, GoTo
  <2>7. CASE UndoRecord
    BY <2>7, SMTT(30) DEF UndoRecord, Put, Finish, Answer
  <2>8. CASE WriteTemp
    BY <2>8, SMTT(30) DEF WriteTemp, TransitionAllowed, NotWritten, Put, GoTo, ALLOWED_TRANSITIONS,
       Finish, Answer
  <2>9. CASE WriteReplace
    <3>1. CASE target = "PREPARED" /\ GoTo("collect")
      BY <2>9, <3>1, SMTT(30) DEF WriteReplace, Put, GoTo
    <3>2. CASE target = "COLLECTED" /\ GoTo("validate")
      BY <2>9, <3>2, SMTT(30) DEF WriteReplace, Put, GoTo
    <3>3. CASE target = "UNUSABLE" /\ Finish(exit, "unusable")
      BY <2>9, <3>3, SMTT(30) DEF WriteReplace, Put, Finish, Answer
    <3>4. CASE target = "STORED_UNCLEANED" /\ exit = 0 /\ GoTo("drop_snapshot")
      BY <2>9, <3>4, SMTT(30) DEF WriteReplace, Put, GoTo
    <3>5. CASE target = "STORED_UNCLEANED" /\ exit # 0 /\ Finish(exit, "incomplete_cleanup")
      BY <2>9, <3>5, SMTT(30) DEF WriteReplace, Put, Finish, Answer
    <3>6. Written
      BY ONLY <2>9 DEF WriteReplace
    <3> QED
      BY ONLY <3>1, <3>2, <3>3, <3>4, <3>5, <3>6 DEF Written
  <2>10. CASE Capture
    BY <2>10, SMTT(30) DEF Capture, Put
  <2>11. CASE CollectionSucceeds
    BY <2>11, SMTT(30) DEF CollectionSucceeds, Write
  <2>12. CASE CollectionFails
    BY <2>12, SMTT(30) DEF CollectionFails, InputsReady, Finish, Exits, Answer
  <2>13. CASE EmptySource
    BY <2>13, SMTT(30) DEF EmptySource, Put, GoTo
  <2>14. CASE EmptySecret
    BY <2>14, SMTT(30) DEF EmptySecret, Put, GoTo
  <2>15. CASE Validate
    BY <2>15, SMTT(30) DEF Validate, PipelinePolicy, Exits
  <2>16. CASE Store
    BY <2>16, SMTT(30) DEF Store, Exits, GoTo, Put
  <2>17. CASE Verify
    BY <2>17, SMTT(30) DEF Verify, Exits, GoTo
  <2>18. CASE CleanSidecars
    BY <2>18, SMTT(30) DEF CleanSidecars, Put, GoTo
  <2>19. CASE CleanSource
    BY <2>19, SMTT(30) DEF CleanSource, Put, GoTo
  <2>20. CASE CleanSecret
    BY <2>20, SMTT(30) DEF CleanSecret, Put, GoTo, Exits
  <2>21. CASE Settle
    BY <2>21, SMTT(30) DEF Settle, Write, Finish, Answer
  <2>22. CASE DropSnapshot
    BY <2>22, SMTT(30) DEF DropSnapshot, Put, GoTo
  <2>23. CASE DropRecord
    BY <2>23, SMTT(30) DEF DropRecord, Put, Finish, Answer
  <2> QED
    BY <1>1, <2>1, <2>2, <2>3, <2>4, <2>5, <2>6, <2>7, <2>8, <2>9, <2>10, <2>11, <2>12,
       <2>13, <2>14, <2>15, <2>16, <2>17, <2>18, <2>19, <2>20, <2>21, <2>22, <2>23 DEF
       LauncherStep
<1>2. ASSUME NEW r \in Rounds, CommandStep(r) \/ DashboardDelete(r)
      PROVE  TruthInv'
  <2>1. CASE StartRun(r)
    BY <2>1, SMTT(30) DEF StartRun, Begin
  <2>2. CASE RunRefused(r)
    BY <2>2, SMTT(30) DEF RunRefused, Answer
  <2>3. CASE ResumeRefused(r, TRUE)
    BY <2>3, SMTT(30) DEF ResumeRefused, Refusal, Answer, InputsReady
  <2>4. CASE ResumeRefused(r, FALSE)
    BY <2>4, SMTT(30) DEF ResumeRefused, Refusal, Answer, InputsReady
  <2>5. CASE ResumeLegacy(r)
    BY <2>5, SMTT(30) DEF ResumeLegacy, Refusal, Begin, InputsReady
  <2>6. CASE ResumeManaged(r)
    BY <2>6, SMTT(30) DEF ResumeManaged, Refusal, Begin, InputsReady
  <2>7. CASE Discard(r)
    BY <2>7, SMTT(30) DEF Discard, Begin
  <2>8. CASE DashboardDelete(r)
    BY <2>8, SMTT(30) DEF DashboardDelete
  <2> QED
    BY <1>2, <2>1, <2>2, <2>3, <2>4, <2>5, <2>6, <2>7, <2>8 DEF CommandStep
<1>3. ASSUME NEW p \in Policies \cup {NoPolicy}, ChangeZones(p)
      PROVE  TruthInv'
  BY <1>3 DEF ChangeZones
<1>4. CASE FaultStep
  <2>1. CASE Crash
    BY <2>1, SMTT(30) DEF Crash, LauncherDies, Committing, LeaveJournal, Put, Fault
  <2>2. CASE BundleFails
    BY <2>2, SMTT(30) DEF BundleFails, Fault, GoTo
  <2>3. CASE UndoFails
    BY <2>3, SMTT(30) DEF UndoFails, Fault, Finish, Answer
  <2>4. CASE WriteFails
    BY <2>4, SMTT(30) DEF WriteFails, Fault, Put, NotWritten, GoTo, Finish, Answer
  <2>5. CASE EmptyCleanupFails
    BY <2>5, SMTT(30) DEF EmptyCleanupFails, Fault, Finish, Answer
  <2>6. CASE PipelineFails
    BY <2>6, SMTT(30) DEF PipelineFails, Fault, Exits
  <2>7. CASE PipelineInterrupted
    BY <2>7, SMTT(30) DEF PipelineInterrupted, Fault, InPipeline, Exits
  <2>8. CASE CleanupFails
    BY <2>8, SMTT(30) DEF CleanupFails, Fault, Finish, Exits, Answer
  <2>9. CASE DropFails
    BY <2>9, SMTT(30) DEF DropFails, Fault, Finish, Answer
  <2>10. CASE CollectionKilled
    BY <2>10, SMTT(30) DEF CollectionKilled, Committing, LeaveJournal, Fault, Put, Finish, Answer
  <2>11. ASSUME NEW r \in Rounds, CorruptRecord(r)
        PROVE  TruthInv'
    BY <2>11, SMTT(30) DEF CorruptRecord, Fault
  <2>12. ASSUME NEW r \in Rounds, NEW p \in Policies \cup {NoPolicy}, EditSnapshot(r, p)
        PROVE  TruthInv'
    BY <2>12, SMTT(30) DEF EditSnapshot, ChangeSnapshot, Fault
  <2>13. CASE PowerLoss
    <3>1. /\ UNCHANGED <<yields, snapshot, record, stored, legacy, verified, current, closed>>
          /\ pc' = "idle" /\ command' = "none" /\ outcome' = NoOutcome
      BY ONLY <2>13 DEF PowerLoss, LauncherDies
    <3> QED
      BY <2>13, <3>1, PowerLossEffect, SMTT(30)
  <2> QED
    BY <1>4, <2>1, <2>2, <2>3, <2>4, <2>5, <2>6, <2>7, <2>8, <2>9, <2>10, <2>11, <2>12, <2>13 DEF
       FaultStep
<1>5. CASE UNCHANGED vars
  BY <1>5, SMTT(30) DEF vars
<1> QED
  BY <1>1, <1>2, <1>3, <1>4, <1>5 DEF Next

-----------------------------------------------------------------------------
(* The invariant holds in every reachable state. *)
THEOREM TruthInvariance == Spec => []TruthInv
<1>1. Init => TruthInv
  BY LegacyAssumption DEF Init, TruthInv, CommandInv, LegacyInv, RemovalInv, VerifiedInv, YieldInv,
     Processing, OpenInv, ClosedInv, RecordTellsTruth, SuccessIsClean, InputsGone, Writing, NoRecord,
     NoOutcome, BundleSteps, CleanSteps, Managed
<1> QED
  BY <1>1, TypeCorrect, Invariance, TruthStep, PTL DEF Spec

(* The lifecycle record says "stored" only of verified results, and        *)
(* "unusable" only of rows that never gave any.                            *)
THEOREM RecordTruthful == Spec => []RecordTellsTruth
<1>1. TruthInv => RecordTellsTruth
  BY DEF TruthInv
<1> QED
  BY <1>1, TruthInvariance, PTL

(* A round the operator was told not to process again, other than a legacy *)
(* one, never reaches Storage again.                                       *)
THEOREM ClosedForGood == Spec => []ClosedStaysClosed
<1>1. IInv /\ TruthInv => ClosedStaysClosed
  BY DEF IInv, StoresHeldRows, TruthInv, ClosedInv, ClosedStaysClosed
<1> QED
  BY <1>1, Invariance, TruthInvariance, PTL

(* A command that reports success leaves no file of the round behind, and  *)
(* "processed" follows only on verified storage.                           *)
THEOREM SuccessfulIsClean == Spec => []SuccessIsClean
<1>1. TruthInv => SuccessIsClean
  BY DEF TruthInv
<1> QED
  BY <1>1, TruthInvariance, PTL

=============================================================================
