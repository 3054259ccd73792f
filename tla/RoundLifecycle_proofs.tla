------------------------ MODULE RoundLifecycle_proofs ------------------------
(***************************************************************************)
(* Theorems about RoundLifecycle for every set of rounds, every set of     *)
(* policies and any number of faults.                                      *)
(***************************************************************************)
EXTENDS RoundLifecycle, TLAPS

(* NoRecord is the only record without a state.                            *)
NoneIsNoRecord == \A r \in Rounds : record[r].state = "none" => record[r] = NoRecord

Writing(state) == pc \in {"write_temp", "write_replace"} /\ target = state

(* Where the launcher knows that the buffer holds no rows: while the       *)
(* bundle is made or undone, in the clean-up of an empty attempt, and once *)
(* the buffer was removed.                                                 *)
NoRowsHere ==
    \/ pc \in BundleSteps \cup RollbackSteps
    \/ pc \in {"empty_source", "empty_secret", "clean_secret", "drop_snapshot", "drop_record"}
    \/ Writing("PREPARED")
    \/ (pc = "settle" \/ Writing("STORED_UNCLEANED")) /\ exit = 0

StepsKnowNoRows == NoRowsHere => ~HasRows(current)

(* What the run command has made by the time Collection starts.            *)
BundleMade ==
    /\ pc \in BundleSteps \cup {"collect"} => target = "PREPARED"
    /\ target = "PREPARED" => command = "run"
    /\ pc \in BundleSteps => record[current] = NoRecord
    /\ pc \in {"snapshot_zones", "collect"} \/ Writing("PREPARED")
          => secret[current] # "absent"
    /\ pc = "collect" => /\ record[current] # NoRecord
                         /\ snapshot[current] = record[current].policy

(* The pipeline of a round with a record reads the pinned policy.          *)
PolicyPinned ==
    LET FreeOrPinned == \/ current \in legacy
                        \/ ~HasRows(current)
                        \/ /\ Managed(command)
                           /\ snapshot[current] = record[current].policy
    IN  /\ pc = "validate" \/ Writing("COLLECTED") => FreeOrPinned
        /\ pc \in {"store", "verify"} /\ current \notin legacy
              => loaded = record[current].policy

(* Clean-up starts from verified storage or from a discard.                *)
VerifiedFirst ==
    /\ pc \in {"clean_sidecars", "clean_source"}
          => command = "discard" \/ current \in verified
    /\ pc \in {"write_temp", "write_replace"} => target \in RoundState

(* A round being collected is new: not a legacy one, not verified yet, and *)
(* bound to the policy of its snapshot.                                    *)
NewRound ==
    /\ pc \in {"create_secret", "snapshot_zones", "collect"} \/ Writing("PREPARED")
          => current \notin legacy \cup verified
    /\ Writing("PREPARED") => snapshot[current] \in Policies
    /\ pc = "collect" => record[current].policy \in Policies

(* Only held rows are stored.                                              *)
StoresHeldRows ==
    /\ pc \in {"store", "verify"} => HasRows(current) /\ loaded \in Policies
    /\ pc = "idle" => command = "none"

IInv ==
    /\ NoneIsNoRecord
    /\ StepsKnowNoRows
    /\ BundleMade
    /\ PolicyPinned
    /\ VerifiedFirst
    /\ NewRound
    /\ StoresHeldRows
    /\ SecretOutlivesRows
    /\ NoLegacyFallback

-----------------------------------------------------------------------------
(* What a power loss does to the files: rows stay, and what was removed    *)
(* does not come back.                                                     *)
LEMMA PowerLossEffect ==
    ASSUME TypeOK, PowerLoss
    PROVE  /\ source' \in [Rounds -> {"absent", "empty", "norows", "rows"}]
           /\ secret' \in [Rounds -> SecretFile]
           /\ \A r \in Rounds :
                 /\ HasRows(r)' <=> HasRows(r)
                 /\ source[r] = "absent" => source'[r] = "absent"
                 /\ secret[r] = "absent" <=> secret'[r] = "absent"
                 /\ ~HasSecret(r) => ~HasSecret(r)'
<1> USE DEF TypeOK
<1>1. PICK left \in [{r \in Rounds : secret[r] = "unsynced"} -> {"kept", "empty", "lost"}] :
        secret' = [r \in Rounds |-> IF r \in DOMAIN left THEN left[r] ELSE secret[r]]
  BY DEF PowerLoss
<1>2. PICK gone \in SUBSET {r \in Rounds : source[r] = "empty"} :
        source' = [r \in Rounds |-> IF r \in gone THEN "absent" ELSE source[r]]
  BY DEF PowerLoss
<1>3. ASSUME NEW r \in Rounds
      PROVE  secret'[r] = secret[r]
             \/ (secret[r] = "unsynced" /\ secret'[r] \in {"kept", "empty", "lost"})
  BY <1>1
<1>4. secret' \in [Rounds -> SecretFile]
  BY <1>1, <1>3 DEF SecretFile
<1> QED
  BY <1>2, <1>3, <1>4 DEF HasRows, HasSecret

(* Every variable keeps its type.                                          *)
THEOREM TypeCorrect == Spec => []TypeOK
<1> USE LegacyAssumption, FaultsAssumption
<1>1. Init => TypeOK
  BY DEF Init, TypeOK, SecretFile, Steps, Guidance, NoRecord, NoOutcome
<1>2. TypeOK /\ [Next]_vars => TypeOK'
  <2> SUFFICES ASSUME TypeOK, [Next]_vars
               PROVE  TypeOK'
    OBVIOUS
  <2> USE DEF TypeOK, SecretFile, Steps, Guidance, RoundState, BundleSteps, RollbackSteps,
        PipelineSteps, CleanSteps, NoRecord, files, launcher
  <2>1. CASE LauncherStep
    <3>1. CASE CreateSource
      BY <3>1 DEF CreateSource, Put
    <3>2. CASE CreateSecret
      BY <3>2 DEF CreateSecret, Put, GoTo
    <3>3. CASE SnapshotZones
      BY <3>3 DEF SnapshotZones, Put, GoTo
    <3>4. CASE UndoSource
      BY <3>4 DEF UndoSource, Put, GoTo
    <3>5. CASE UndoSecret
      BY <3>5 DEF UndoSecret, Put, GoTo
    <3>6. CASE UndoSnapshot
      BY <3>6 DEF UndoSnapshot, Put, GoTo
    <3>7. CASE UndoRecord
      BY <3>7 DEF UndoRecord, Put, Finish, Answer
    <3>8. CASE WriteTemp
      <4>1. CASE NotWritten /\ UNCHANGED temp
        BY <3>8, <4>1 DEF WriteTemp, NotWritten, GoTo, Finish, Answer
      <4>2. CASE temp' = Put(temp, FALSE) /\ NotWritten
        BY <3>8, <4>2 DEF WriteTemp, NotWritten, Put, GoTo, Finish, Answer
      <4>3. CASE temp' = Put(temp, TRUE) /\ GoTo("write_replace")
        BY <3>8, <4>3 DEF WriteTemp, Put, GoTo
      <4> QED
        BY <3>8, <4>1, <4>2, <4>3 DEF WriteTemp
    <3>9. CASE WriteReplace
      BY <3>9 DEF WriteReplace, Put, Written, GoTo, Finish, Answer
    <3>10. CASE Capture
      <4>1. source' \in [Rounds -> {"absent", "empty", "norows", "rows"}]
        BY <3>10 DEF Capture, Put
      <4>2. yields' \in [Rounds -> SUBSET Policies]
        BY <3>10 DEF Capture, Put
      <4> QED
        BY <3>10, <4>1, <4>2 DEF Capture
    <3>11. CASE CollectionSucceeds
      BY <3>11 DEF CollectionSucceeds, Write
    <3>12. CASE CollectionFails
      BY <3>12 DEF CollectionFails, HasRows, InputsReady, Finish, Exits, Answer
    <3>13. CASE EmptySource
      BY <3>13 DEF EmptySource, Put, GoTo
    <3>14. CASE EmptySecret
      BY <3>14 DEF EmptySecret, Put, GoTo
    <3>15. CASE Validate
      BY <3>15 DEF Validate, InputsReady, PipelinePolicy, Exits, HasRows, Managed
    <3>16. CASE Store
      BY <3>16 DEF Store, Exits, GoTo, Put
    <3>17. CASE Verify
      BY <3>17 DEF Verify, Exits, GoTo
    <3>18. CASE CleanSource
      BY <3>18 DEF CleanSource, Put, GoTo
    <3>19. CASE CleanSecret
      BY <3>19 DEF CleanSecret, Put, GoTo, Exits
    <3>20. CASE Settle
      BY <3>20 DEF Settle, Managed, Write, Finish, Answer
    <3>21. CASE DropSnapshot
      BY <3>21 DEF DropSnapshot, Put, GoTo
    <3>22. CASE DropRecord
      BY <3>22 DEF DropRecord, Put, Finish, Answer
    <3>23. CASE CleanSidecars
      BY <3>23 DEF CleanSidecars, Put, GoTo
    <3> QED
      BY <2>1, <3>1, <3>2, <3>3, <3>4, <3>5, <3>6, <3>7, <3>8, <3>9, <3>10, <3>11,
         <3>12, <3>13, <3>14, <3>15, <3>16, <3>17, <3>18, <3>19, <3>20, <3>21, <3>22, <3>23
         DEF LauncherStep
  <2>2. ASSUME NEW r \in Rounds, CommandStep(r) \/ DashboardDelete(r)
        PROVE  TypeOK'
    <3>1. CASE StartRun(r)
      BY <3>1 DEF StartRun, BundleExists, Begin, NoOutcome
    <3>2. CASE RunRefused(r)
      BY <3>2 DEF RunRefused, Answer, BundleExists
    <3>3. CASE ResumeRefused(r, TRUE)
      BY <3>3 DEF ResumeRefused, Refusal, Answer, InputsReady
    <3>4. CASE ResumeRefused(r, FALSE)
      BY <3>4 DEF ResumeRefused, Refusal, Answer, InputsReady
    <3>5. CASE ResumeLegacy(r)
      BY <3>5 DEF ResumeLegacy, Refusal, Begin, InputsReady, NoOutcome
    <3>6. CASE ResumeManaged(r)
      BY <3>6 DEF ResumeManaged, Refusal, Begin, InputsReady, NoOutcome
    <3>7. CASE Discard(r)
      BY <3>7 DEF Discard, Begin, NoOutcome
    <3>8. CASE DashboardDelete(r)
      BY <3>8 DEF DashboardDelete
    <3> QED
      BY <2>2, <3>1, <3>2, <3>3, <3>4, <3>5, <3>6, <3>7, <3>8 DEF CommandStep
  <2>3. ASSUME NEW p \in Policies \cup {NoPolicy}, ChangeZones(p)
        PROVE  TypeOK'
    BY <2>3 DEF ChangeZones
  <2>4. CASE FaultStep
    <3>1. CASE Crash
      <4>1. journal' \in [Rounds -> BOOLEAN]
        BY <3>1 DEF Crash, LauncherDies, LeaveJournal, Put
      <4> QED
        BY <3>1, <4>1 DEF Crash, LauncherDies, Fault, NoOutcome
    <3>2. CASE BundleFails
      BY <3>2 DEF BundleFails, Fault, GoTo
    <3>3. CASE UndoFails
      BY <3>3 DEF UndoFails, Fault, Finish, Answer
    <3>4. CASE WriteFails
      BY <3>4 DEF WriteFails, Fault, Put, NotWritten, GoTo, Finish, Answer
    <3>5. CASE EmptyCleanupFails
      BY <3>5 DEF EmptyCleanupFails, Fault, Finish, Answer
    <3>6. CASE PipelineFails
      BY <3>6 DEF PipelineFails, Fault, Exits
    <3>7. CASE PipelineInterrupted
      BY <3>7 DEF PipelineInterrupted, Fault, InPipeline, Exits
    <3>8. CASE CleanupFails
      BY <3>8 DEF CleanupFails, Fault, Finish, Exits, Answer
    <3>9. CASE DropFails
      BY <3>9 DEF DropFails, Fault, Finish, Answer
    <3>10. ASSUME NEW r \in Rounds, CorruptRecord(r)
          PROVE  TypeOK'
      BY <3>10 DEF CorruptRecord, Fault
    <3>11. ASSUME NEW r \in Rounds, NEW p \in Policies \cup {NoPolicy},
                 EditSnapshot(r, p)
          PROVE  TypeOK'
      BY <3>11 DEF EditSnapshot, ChangeSnapshot, Fault
    <3>12. CASE CollectionKilled
      BY <3>12 DEF CollectionKilled, Committing, LeaveJournal, Fault, Put, Finish, Answer
    <3>13. CASE PowerLoss
      <4>1. journal' \in [Rounds -> BOOLEAN]
        BY <3>13 DEF PowerLoss, LauncherDies, LeaveJournal, Put
      <4> QED
        BY <3>13, <4>1, PowerLossEffect DEF PowerLoss, LauncherDies, Fault, NoOutcome
    <3> QED
      BY ONLY <2>4, <3>1, <3>2, <3>3, <3>4, <3>5, <3>6, <3>7, <3>8, <3>9, <3>10, <3>11, <3>12, <3>13
         DEF FaultStep
  <2>5. CASE UNCHANGED vars
    BY <2>5 DEF vars
  <2> QED
    BY <2>1, <2>2, <2>3, <2>4, <2>5 DEF Next
<1> QED
  BY <1>1, <1>2, PTL DEF Spec

-----------------------------------------------------------------------------
(* IInv is inductive.                                                      *)
LEMMA Inductive == TypeOK /\ TypeOK' /\ IInv /\ [Next]_vars => IInv'
<1> USE NoPolicyAssumption, NoRoundAssumption
<1> SUFFICES ASSUME TypeOK, TypeOK', IInv, [Next]_vars
             PROVE  IInv'
  OBVIOUS
<1>1. IInv'
  <2> USE DEF TypeOK, Steps, RoundState, BundleSteps, RollbackSteps,
        PipelineSteps, CleanSteps, files, launcher, IInv, NoneIsNoRecord, StepsKnowNoRows,
        NoRowsHere, Writing, BundleMade, PolicyPinned, VerifiedFirst,
        NewRound, StoresHeldRows, SecretOutlivesRows, NoLegacyFallback,
        HasRows, NoRecord, Managed
  <2>1. CASE LauncherStep
    <3>1. CASE CreateSource
      BY <3>1 DEF CreateSource, Put
    <3>2. CASE CreateSecret
      BY <3>2 DEF CreateSecret, Put, GoTo
    <3>3. CASE SnapshotZones
      BY <3>3 DEF SnapshotZones, Put, GoTo
    <3>4. CASE UndoSource
      BY <3>4 DEF UndoSource, Put, GoTo
    <3>5. CASE UndoSecret
      BY <3>5 DEF UndoSecret, Put, GoTo
    <3>6. CASE UndoSnapshot
      BY <3>6 DEF UndoSnapshot, Put, GoTo
    <3>7. CASE UndoRecord
      BY <3>7 DEF UndoRecord, Put, Finish, Answer
    <3>8. CASE WriteTemp
      BY <3>8 DEF WriteTemp, TransitionAllowed, NotWritten, Put, GoTo, ALLOWED_TRANSITIONS, Finish, Answer
    <3>9. CASE WriteReplace
      BY <3>9 DEF WriteReplace, Put, Written, GoTo, Finish, Answer
    <3>10. CASE Capture
      BY <3>10 DEF Capture, Put
    <3>11. CASE CollectionSucceeds
      BY <3>11 DEF CollectionSucceeds, Write
    <3>12. CASE CollectionFails
      BY <3>12 DEF CollectionFails, InputsReady, Finish, Exits, Answer
    <3>13. CASE EmptySource
      BY <3>13 DEF EmptySource, Put, GoTo
    <3>14. CASE EmptySecret
      BY <3>14 DEF EmptySecret, Put, GoTo
    <3>15. CASE Validate
      BY <3>15 DEF Validate, InputsReady, PipelinePolicy, Exits, CONFIGURATION_EXIT, PIPELINE_EXIT,
            CLEANUP_EXIT, UNUSABLE_SOURCE_EXIT, INTERRUPTED
    <3>16. CASE Store
      BY <3>16 DEF Store, Exits, GoTo, Put, CONFIGURATION_EXIT, PIPELINE_EXIT,
            CLEANUP_EXIT, UNUSABLE_SOURCE_EXIT, INTERRUPTED
    <3>17. CASE Verify
      BY <3>17 DEF Verify, Exits, GoTo, CONFIGURATION_EXIT, PIPELINE_EXIT,
            CLEANUP_EXIT, UNUSABLE_SOURCE_EXIT, INTERRUPTED
    <3>18. CASE CleanSource
      BY <3>18 DEF CleanSource, Put, GoTo
    <3>19. CASE CleanSecret
      BY <3>19 DEF CleanSecret, Put, GoTo, Exits
    <3>20. CASE Settle
      BY <3>20 DEF Settle, Write, Finish, Answer
    <3>21. CASE DropSnapshot
      BY <3>21 DEF DropSnapshot, Put, GoTo
    <3>22. CASE DropRecord
      BY <3>22 DEF DropRecord, Put, Finish, Answer
    <3>23. CASE CleanSidecars
      BY <3>23 DEF CleanSidecars, Put, GoTo
    <3> QED
      BY <2>1, <3>1, <3>2, <3>3, <3>4, <3>5, <3>6, <3>7, <3>8, <3>9, <3>10, <3>11,
         <3>12, <3>13, <3>14, <3>15, <3>16, <3>17, <3>18, <3>19, <3>20, <3>21, <3>22, <3>23
         DEF LauncherStep
  <2>2. ASSUME NEW r \in Rounds, CommandStep(r) \/ DashboardDelete(r)
        PROVE  IInv'
    <3>1. CASE StartRun(r)
      BY <3>1 DEF StartRun, BundleExists, Begin, NoOutcome
    <3>2. CASE RunRefused(r)
      BY <3>2 DEF RunRefused, Answer, BundleExists
    <3>3. CASE ResumeRefused(r, TRUE)
      BY <3>3 DEF ResumeRefused, Refusal, Answer, InputsReady
    <3>4. CASE ResumeRefused(r, FALSE)
      BY <3>4 DEF ResumeRefused, Refusal, Answer, InputsReady
    <3>5. CASE ResumeLegacy(r)
      BY <3>5 DEF ResumeLegacy, Refusal, Begin, InputsReady, NoOutcome
    <3>6. CASE ResumeManaged(r)
      BY <3>6 DEF ResumeManaged, Refusal, Begin, InputsReady, NoOutcome
    <3>7. CASE Discard(r)
      BY <3>7 DEF Discard, Begin, NoOutcome
    <3>8. CASE DashboardDelete(r)
      BY <3>8 DEF DashboardDelete
    <3> QED
      BY <2>2, <3>1, <3>2, <3>3, <3>4, <3>5, <3>6, <3>7, <3>8 DEF CommandStep
  <2>3. ASSUME NEW p \in Policies \cup {NoPolicy}, ChangeZones(p)
        PROVE  IInv'
    BY <2>3 DEF ChangeZones
  <2>4. CASE FaultStep
    <3>1. CASE Crash
      BY <3>1 DEF Crash, LauncherDies, Committing, LeaveJournal, Put, Fault, NoOutcome
    <3>2. CASE BundleFails
      BY <3>2 DEF BundleFails, Fault, GoTo
    <3>3. CASE UndoFails
      BY <3>3 DEF UndoFails, Fault, Finish, Answer
    <3>4. CASE WriteFails
      BY <3>4 DEF WriteFails, Fault, Put, NotWritten, GoTo, Finish, Answer
    <3>5. CASE EmptyCleanupFails
      BY <3>5 DEF EmptyCleanupFails, Fault, Finish, Answer
    <3>6. CASE PipelineFails
      BY <3>6 DEF PipelineFails, Fault, Exits, CONFIGURATION_EXIT, PIPELINE_EXIT,
            CLEANUP_EXIT, UNUSABLE_SOURCE_EXIT, INTERRUPTED
    <3>7. CASE PipelineInterrupted
      BY <3>7 DEF PipelineInterrupted, Fault, InPipeline, Exits, CONFIGURATION_EXIT, PIPELINE_EXIT,
            CLEANUP_EXIT, UNUSABLE_SOURCE_EXIT, INTERRUPTED
    <3>8. CASE CleanupFails
      BY <3>8 DEF CleanupFails, Fault, Finish, Exits, Answer, CONFIGURATION_EXIT, PIPELINE_EXIT,
            CLEANUP_EXIT, UNUSABLE_SOURCE_EXIT, INTERRUPTED
    <3>9. CASE DropFails
      BY <3>9 DEF DropFails, Fault, Finish, Answer
    <3>10. ASSUME NEW r \in Rounds, CorruptRecord(r)
          PROVE  IInv'
      BY <3>10 DEF CorruptRecord, Fault
    <3>11. ASSUME NEW r \in Rounds, NEW p \in Policies \cup {NoPolicy},
                 EditSnapshot(r, p)
          PROVE  IInv'
      BY <3>11 DEF EditSnapshot, ChangeSnapshot, Fault
    <3>12. CASE CollectionKilled
      BY <3>12 DEF CollectionKilled, Committing, LeaveJournal, Fault, Put, Finish, Answer
    <3>13. CASE PowerLoss
      BY <3>13, PowerLossEffect DEF PowerLoss, LauncherDies, Fault, NoOutcome
    <3> HIDE DEF IInv, TypeOK
    <3> QED
      BY ONLY <2>4, <3>1, <3>2, <3>3, <3>4, <3>5, <3>6, <3>7, <3>8, <3>9, <3>10, <3>11, <3>12, <3>13
         DEF FaultStep
  <2>5. CASE UNCHANGED vars
    BY <2>5 DEF vars
  <2> QED
    BY <2>1, <2>2, <2>3, <2>4, <2>5 DEF Next
<1> QED
  BY <1>1

(* The parts of IInv hold in every reachable state.                       *)
THEOREM Invariance == Spec => []IInv
<1>1. Init => IInv
  BY LegacyAssumption DEF Init, IInv, NoneIsNoRecord, StepsKnowNoRows, NoRowsHere,
     Writing, BundleMade, PolicyPinned, VerifiedFirst, NewRound, StoresHeldRows,
     SecretOutlivesRows, NoLegacyFallback, HasRows, NoRecord, BundleSteps, RollbackSteps
<1> QED
  BY <1>1, TypeCorrect, Inductive, PTL DEF Spec

(* At every kill, interrupt and failing removal the secret outlives the    *)
(* rows: rows without one have lost it in a power loss.                    *)
THEOREM SecretSafe == Spec => []SecretOutlivesRows
<1>1. IInv => SecretOutlivesRows
  BY DEF IInv
<1> QED
  BY <1>1, Invariance, PTL

(* A round collected with a pinned policy never looks like a legacy one.   *)
THEOREM NoFallback == Spec => []NoLegacyFallback
<1>1. IInv => NoLegacyFallback
  BY DEF IInv
<1> QED
  BY <1>1, Invariance, PTL
=============================================================================
