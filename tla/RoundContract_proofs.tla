------------------------ MODULE RoundContract_proofs ------------------------
(***************************************************************************)
(* What no step of RoundLifecycle may do, and that it implements           *)
(* RoundContract, for every value of the constants.  Both rest on the      *)
(* inductive invariant IInv of RoundLifecycle_proofs.                      *)
(***************************************************************************)
EXTENDS RoundLifecycle_proofs

-----------------------------------------------------------------------------
(* Which actions write the state that the properties are about.            *)

(* Rows come and go in five steps only, and a buffer without any may go in *)
(* a power loss.                                                           *)
LEMMA SourceWriters ==
    [Next]_vars =>
        \/ UNCHANGED source
        \/ CreateSource \/ UndoSource \/ EmptySource \/ Capture \/ CleanSource \/ PowerLoss
<1> SUFFICES ASSUME [Next]_vars
             PROVE  \/ UNCHANGED source
                    \/ CreateSource \/ UndoSource \/ EmptySource \/ Capture \/ CleanSource \/ PowerLoss
  OBVIOUS
<1>1. CASE LauncherStep
  BY <1>1 DEF LauncherStep, CreateSecret, SnapshotZones, UndoSecret, UndoSnapshot,
     UndoRecord, WriteTemp, WriteReplace, CollectionSucceeds, CollectionFails,
     EmptySecret, Validate, Store, Verify, CleanSidecars, CleanSecret, Settle, DropSnapshot,
     DropRecord, files
<1>2. CASE \E r \in Rounds : CommandStep(r) \/ DashboardDelete(r)
  BY <1>2 DEF CommandStep, StartRun, RunRefused, ResumeRefused, ResumeLegacy,
     ResumeManaged, Discard, DashboardDelete, files
<1>3. CASE \E p \in Policies \cup {NoPolicy} : ChangeZones(p)
  BY <1>3 DEF ChangeZones, files
<1>4. CASE FaultStep
  BY <1>4 DEF FaultStep, Crash, PowerLoss, LauncherDies, CollectionKilled, BundleFails, UndoFails, WriteFails,
     EmptyCleanupFails,
     PipelineFails, PipelineInterrupted, CleanupFails, DropFails, EditSnapshot, ChangeSnapshot,
     CorruptRecord, files
<1>5. CASE UNCHANGED vars
  BY <1>5 DEF vars, files
<1> QED
  BY <1>1, <1>2, <1>3, <1>4, <1>5 DEF Next

(* Results change in Storage's two transactions, and a round is noted as   *)
(* verified or as new by one step each.                                    *)
LEMMA ResultWriters ==
    [Next]_vars =>
        \/ UNCHANGED <<stored, legacy, verified>>
        \/ CreateSource \/ Store \/ Verify
        \/ \E r \in Rounds : DashboardDelete(r)
<1> SUFFICES ASSUME [Next]_vars
             PROVE  \/ UNCHANGED <<stored, legacy, verified>>
                    \/ CreateSource \/ Store \/ Verify
                    \/ \E r \in Rounds : DashboardDelete(r)
  OBVIOUS
<1>1. CASE LauncherStep
  BY <1>1 DEF LauncherStep, CreateSecret, SnapshotZones, UndoSource, UndoSecret,
     UndoSnapshot, UndoRecord, WriteTemp, WriteReplace, Capture, CollectionSucceeds,
     CollectionFails, EmptySource, EmptySecret, Validate, CleanSidecars, CleanSource, CleanSecret,
     Settle, DropSnapshot, DropRecord
<1>2. CASE \E r \in Rounds : CommandStep(r) \/ DashboardDelete(r)
  BY <1>2 DEF CommandStep, StartRun, RunRefused, ResumeRefused, ResumeLegacy,
     ResumeManaged, Discard
<1>3. CASE \E p \in Policies \cup {NoPolicy} : ChangeZones(p)
  BY <1>3 DEF ChangeZones
<1>4. CASE FaultStep
  BY <1>4 DEF FaultStep, Crash, PowerLoss, LauncherDies, CollectionKilled, BundleFails, UndoFails, WriteFails,
     EmptyCleanupFails,
     PipelineFails, PipelineInterrupted, CleanupFails, DropFails, EditSnapshot, ChangeSnapshot,
     CorruptRecord
<1>5. CASE UNCHANGED vars
  BY <1>5 DEF vars
<1> QED
  BY <1>1, <1>2, <1>3, <1>4, <1>5 DEF Next

(* The lifecycle record is written by the launcher's rename, removed with  *)
(* the bundle, and damaged from outside.                                   *)
LEMMA RecordWriters ==
    [Next]_vars =>
        \/ UNCHANGED record
        \/ UndoRecord \/ WriteReplace \/ DropRecord
        \/ \E r \in Rounds : CorruptRecord(r)
<1> SUFFICES ASSUME [Next]_vars
             PROVE  \/ UNCHANGED record
                    \/ UndoRecord \/ WriteReplace \/ DropRecord
                    \/ \E r \in Rounds : CorruptRecord(r)
  OBVIOUS
<1>1. CASE LauncherStep
  BY <1>1 DEF LauncherStep, CreateSource, CreateSecret, SnapshotZones, UndoSource,
     UndoSecret, UndoSnapshot, WriteTemp, Capture, CollectionSucceeds, CollectionFails,
     EmptySource, EmptySecret, Validate, Store, Verify, CleanSidecars, CleanSource, CleanSecret,
     Settle, DropSnapshot, files
<1>2. CASE \E r \in Rounds : CommandStep(r) \/ DashboardDelete(r)
  BY <1>2 DEF CommandStep, StartRun, RunRefused, ResumeRefused, ResumeLegacy,
     ResumeManaged, Discard, DashboardDelete, files
<1>3. CASE \E p \in Policies \cup {NoPolicy} : ChangeZones(p)
  BY <1>3 DEF ChangeZones, files
<1>4. CASE FaultStep
  BY <1>4 DEF FaultStep, Crash, PowerLoss, LauncherDies, CollectionKilled, BundleFails, UndoFails, WriteFails,
     EmptyCleanupFails,
     PipelineFails, PipelineInterrupted, CleanupFails, DropFails, EditSnapshot, ChangeSnapshot, files
<1>5. CASE UNCHANGED vars
  BY <1>5 DEF vars, files
<1> QED
  BY <1>1, <1>2, <1>3, <1>4, <1>5 DEF Next

-----------------------------------------------------------------------------
(* Rows are removed only once verified, or by the discard that asked it.   *)
LEMMA RowsRemoved ==
    TypeOK /\ IInv /\ [Next]_vars =>
        \A r \in Rounds :
            HasRows(r) /\ source'[r] # "rows"
                => r \in verified \/ (command = "discard" /\ current = r)
<1> SUFFICES ASSUME TypeOK, IInv, [Next]_vars,
                    NEW x \in Rounds, HasRows(x), source'[x] # "rows"
             PROVE  x \in verified \/ (command = "discard" /\ current = x)
  OBVIOUS
<1> USE DEF TypeOK, IInv, HasRows, Put
<1>1. source' # source
  OBVIOUS
<1>2. CASE CreateSource \/ UndoSource
  BY <1>2 DEF CreateSource, UndoSource, StepsKnowNoRows, NoRowsHere, BundleSteps, RollbackSteps
<1>3. CASE EmptySource
  BY <1>3 DEF EmptySource, StepsKnowNoRows, NoRowsHere
<1>4. CASE Capture
  BY <1>4 DEF Capture
<1>5. CASE CleanSource
  BY <1>5 DEF CleanSource, VerifiedFirst
<1>6. CASE PowerLoss
  BY <1>6, PowerLossEffect
<1> QED
  BY <1>1, <1>2, <1>3, <1>4, <1>5, <1>6, SourceWriters

(* Collected rows are never lost: whatever crashes, fails or is retried,   *)
(* they go after verified storage or by an explicit discard.               *)
THEOREM RawDataIsKept == Spec => RawDataKept
<1>1. TypeOK /\ IInv /\ [Next]_vars =>
        [\A r \in Rounds :
            HasRows(r) /\ source'[r] # "rows"
                => r \in verified \/ (command = "discard" /\ current = r)]_vars
  BY RowsRemoved
<1> QED
  BY <1>1, TypeCorrect, Invariance, PTL DEF Spec, RawDataKept

(* The results of a round with a record are made with its pinned policy.   *)
LEMMA PinnedResults ==
    TypeOK /\ IInv /\ [Next]_vars =>
        \A r \in Rounds \ legacy :
            stored'[r] \notin {stored[r], NoPolicy} => stored'[r] = record[r].policy
<1> SUFFICES ASSUME TypeOK, IInv, [Next]_vars,
                    NEW x \in Rounds \ legacy, stored'[x] \notin {stored[x], NoPolicy}
             PROVE  stored'[x] = record[x].policy
  OBVIOUS
<1>1. CASE Store
  BY <1>1 DEF Store, Put, TypeOK, IInv, PolicyPinned
<1>2. CASE CreateSource \/ Verify
  BY <1>2 DEF CreateSource, Verify
<1>3. CASE \E r \in Rounds : DashboardDelete(r)
  BY <1>3 DEF DashboardDelete, TypeOK
<1> QED
  BY <1>1, <1>2, <1>3, ResultWriters

(* ADR-0003: whatever the zone file holds by then, and however often the   *)
(* round is resumed, its results come from the policy in its record.       *)
THEOREM PolicyIsPinned == Spec => StoredUnderPinnedPolicy
<1>1. TypeOK /\ IInv /\ [Next]_vars =>
        [\A r \in Rounds \ legacy :
            stored'[r] \notin {stored[r], NoPolicy}
                => stored'[r] = record[r].policy]_vars
  BY PinnedResults
<1> QED
  BY <1>1, TypeCorrect, Invariance, PTL DEF Spec, StoredUnderPinnedPolicy

-----------------------------------------------------------------------------
(* RoundLifecycle implements RoundContract.                                *)

(* A step that leaves rows, pins, results and checks alone starts or ends  *)
(* a discard, or stutters.                                                 *)
LEMMA QuietSteps ==
    TypeOK' /\ IInv' /\ UNCHANGED <<Raw, Pin, stored, Checked>>
        => [Contract!Next]_(Contract!cvars)
<1> SUFFICES ASSUME TypeOK', IInv', UNCHANGED <<Raw, Pin, stored, Checked>>
             PROVE  [Contract!Next]_(Contract!cvars)
  OBVIOUS
<1>1. CASE command' = "discard"
  <2>1. current' \in Rounds /\ Asked' = {current'}
    BY <1>1 DEF TypeOK, IInv, StoresHeldRows, Asked
  <2>2. Contract!AskDiscard(current')
    BY <2>1 DEF Contract!AskDiscard
  <2> QED
    BY <2>1, <2>2 DEF Contract!Next
<1>2. CASE command' # "discard"
  BY <1>2 DEF Asked, Contract!DiscardEnds, Contract!Next
<1> QED
  BY <1>1, <1>2

(* The steps that do touch them, one by one: Collection gains rows, which  *)
(* the contract collects under the pinned policy.                          *)
LEMMA CaptureRefines ==
    ASSUME TypeOK, TypeOK', IInv, IInv', Capture
    PROVE  [Contract!Next]_(Contract!cvars)
<1> USE DEF TypeOK, Capture, Put, launcher, HasRows
<1>1. current \in Rounds /\ current \notin legacy \cup verified
      /\ record[current].policy \in Policies
  BY DEF IInv, NewRound
<1>2. UNCHANGED <<stored, Checked, Asked>>
  BY <1>1 DEF Checked, Asked
<1>3. CASE HasRows(current) = HasRows(current)'
  <2>1. UNCHANGED <<Raw, Pin>>
    BY <1>3 DEF Raw, Pin
  <2> QED
    BY <1>2, <2>1, QuietSteps
<1>4. CASE HasRows(current) # HasRows(current)'
  <2>1. ~HasRows(current) /\ HasRows(current)'
    BY <1>4
  <2>2. current \notin Raw /\ Raw' = Raw \cup {current}
    BY <2>1, <1>1 DEF Raw
  <2>3. Pin' = [Pin EXCEPT ![current] = record[current].policy]
    <3>1. \A x \in Rounds : HasRows(x)' <=> HasRows(x) \/ x = current
      BY <2>1, <1>1
    <3>2. UNCHANGED <<record, legacy>>
      OBVIOUS
    <3> HIDE DEF TypeOK, Capture, HasRows
    <3> QED
      BY <1>1, <3>1, <3>2 DEF Pin
  <2>4. Contract!Collect(current)
    BY <1>1, <1>2, <2>2, <2>3 DEF Contract!Collect
  <2> QED
    BY <1>1, <2>4 DEF Contract!Next
<1> QED
  BY <1>3, <1>4

(* Removing the buffer erases checked rows, or rows asked to be discarded. *)
LEMMA CleanSourceRefines ==
    ASSUME TypeOK, TypeOK', IInv, IInv', CleanSource
    PROVE  [Contract!Next]_(Contract!cvars)
<1> USE DEF TypeOK, CleanSource, Put, GoTo, HasRows
<1>1. current \in Rounds /\ (current \in verified \/ command = "discard")
  BY DEF IInv, VerifiedFirst
<1>2. UNCHANGED <<stored, Asked>>
  BY DEF Asked
<1>3. CASE ~HasRows(current)
  <2>1. UNCHANGED <<Raw, Pin, Checked>>
    BY <1>3 DEF Raw, Pin, Checked
  <2> QED
    BY <1>2, <2>1, QuietSteps
<1>4. CASE HasRows(current)
  <2>1. current \in Raw /\ Raw' = Raw \ {current}
    BY <1>1, <1>4 DEF Raw
  <2>2. current \in Checked \cup Asked /\ Checked' = Checked \ {current}
    BY <1>1, <1>4 DEF Checked, Asked
  <2>3. Pin' = [Pin EXCEPT ![current] = NoPolicy]
    BY <1>1, <1>4 DEF Pin
  <2>4. Contract!Erase(current)
    BY <1>2, <2>1, <2>2, <2>3 DEF Contract!Erase
  <2> QED
    BY <1>1, <2>4 DEF Contract!Next
<1> QED
  BY <1>3, <1>4

(* Storing publishes results under the pinned policy, beside no other.     *)
LEMMA StoreRefines ==
    ASSUME TypeOK, TypeOK', IInv, IInv', Store
    PROVE  [Contract!Next]_(Contract!cvars)
<1> USE DEF TypeOK, Store, Put, HasRows
<1>1. /\ current \in Rounds /\ HasRows(current) /\ loaded \in Policies
      /\ current \notin legacy => loaded = record[current].policy
  BY DEF IInv, StoresHeldRows, PolicyPinned
<1>2. UNCHANGED <<Raw, Pin, Checked, Asked>>
  BY DEF Raw, Pin, Checked, Asked, files, Exits, GoTo
<1>3. CASE \E x \in Rounds \ {current} : stored[x] # NoPolicy
  BY <1>2, <1>3, QuietSteps
<1>4. CASE \A x \in Rounds \ {current} : stored[x] = NoPolicy
  <2>1. stored' = [stored EXCEPT ![current] = loaded]
    BY <1>4
  <2>2. current \in Raw /\ Pin[current] \in {NoPolicy, loaded}
    BY <1>1 DEF Raw, Pin
  <2>3. Contract!Publish(current)
    BY <1>1, <1>2, <1>4, <2>1, <2>2 DEF Contract!Publish
  <2> QED
    BY <1>1, <2>3 DEF Contract!Next
<1> QED
  BY <1>3, <1>4

(* Reading the results back checks the rows they were made from.           *)
LEMMA VerifyRefines ==
    ASSUME TypeOK, TypeOK', IInv, IInv', Verify
    PROVE  [Contract!Next]_(Contract!cvars)
<1> USE NoPolicyAssumption DEF TypeOK, Verify, HasRows
<1>1. current \in Rounds /\ HasRows(current) /\ loaded \in Policies
  BY DEF IInv, StoresHeldRows
<1>2. UNCHANGED <<Raw, Pin, stored, Asked>>
  BY DEF Raw, Pin, Asked, files, Exits, GoTo
<1>3. CASE stored[current] # loaded
  <2>1. UNCHANGED Checked
    BY <1>3 DEF Checked, files
  <2> QED
    BY <1>2, <2>1, QuietSteps
<1>4. CASE stored[current] = loaded
  <2>1. Checked' = Checked \cup {current}
    BY <1>1, <1>4 DEF Checked, files
  <2>2. Contract!Check(current)
    BY <1>1, <1>2, <1>4, <2>1 DEF Contract!Check, Raw
  <2> QED
    BY <1>1, <2>2 DEF Contract!Next
<1> QED
  BY <1>3, <1>4

(* The dashboard deletes results, and nothing else.                        *)
LEMMA DeleteRefines ==
    ASSUME TypeOK, TypeOK', IInv, IInv', NEW r \in Rounds, DashboardDelete(r)
    PROVE  [Contract!Next]_(Contract!cvars)
<1>1. UNCHANGED <<Raw, Pin, Checked, Asked>>
  BY DEF DashboardDelete, files, launcher, Raw, Pin, Checked, Asked, HasRows
<1>2. Contract!Delete(r)
  BY <1>1 DEF DashboardDelete, Contract!Delete
<1> QED
  BY <1>2 DEF Contract!Next

(* Making, undoing and clearing an empty bundle, and the moves of the      *)
(* record, are not seen by the contract: the round has no rows, or keeps   *)
(* its policy.                                                             *)
LEMMA FileStepsQuiet ==
    ASSUME TypeOK, TypeOK', IInv, IInv',
           \/ CreateSource \/ UndoSource \/ EmptySource
           \/ UndoRecord \/ WriteReplace \/ DropRecord
           \/ \E r \in Rounds : CorruptRecord(r)
    PROVE  [Contract!Next]_(Contract!cvars)
<1> USE DEF TypeOK, IInv, HasRows, Put, StepsKnowNoRows, NoRowsHere, BundleSteps,
       RollbackSteps, Raw, Pin, Checked
<1>1. CASE CreateSource
  BY <1>1, QuietSteps DEF CreateSource
<1>2. CASE UndoSource \/ EmptySource
  BY <1>2, QuietSteps DEF UndoSource, EmptySource
<1>3. CASE UndoRecord \/ DropRecord
  BY <1>3, QuietSteps DEF UndoRecord, DropRecord
<1>4. CASE WriteReplace
  BY <1>4, QuietSteps DEF WriteReplace, Writing
<1>5. CASE \E r \in Rounds : CorruptRecord(r)
  BY <1>5, QuietSteps DEF CorruptRecord
<1> QED
  BY <1>1, <1>2, <1>3, <1>4, <1>5

(* A power loss takes no rows.                                             *)
LEMMA PowerLossQuiet ==
    ASSUME TypeOK, TypeOK', IInv, IInv', PowerLoss
    PROVE  [Contract!Next]_(Contract!cvars)
<1>1. \A r \in Rounds : HasRows(r)' <=> HasRows(r)
  BY PowerLossEffect
<1>2. UNCHANGED <<record, legacy, verified, stored>>
  BY DEF PowerLoss
<1>3. UNCHANGED <<Raw, Pin, Checked>>
  BY <1>1, <1>2 DEF Raw, Pin, Checked, HasRows, TypeOK
<1> QED
  BY <1>2, <1>3, QuietSteps

(* Seen through Raw, Pin, stored, Checked and Asked, the launcher, with    *)
(* its files, crashes and retries, takes only the steps of the contract.   *)
THEOREM Implementation == Spec => ImplementsContract
<1>1. Init => Contract!Init
  BY LegacyAssumption DEF Init, Contract!Init, Raw, Pin, Checked, Asked, HasRows
<1>2. TypeOK /\ TypeOK' /\ IInv /\ IInv' /\ [Next]_vars
        => [Contract!Next]_(Contract!cvars)
  <2> SUFFICES ASSUME TypeOK, TypeOK', IInv, IInv', [Next]_vars
               PROVE  [Contract!Next]_(Contract!cvars)
    OBVIOUS
  <2>1. CASE \/ CreateSource \/ UndoSource \/ EmptySource
             \/ UndoRecord \/ WriteReplace \/ DropRecord
             \/ \E r \in Rounds : CorruptRecord(r)
    BY <2>1, FileStepsQuiet
  <2>2. CASE \E r \in Rounds : DashboardDelete(r)
    BY <2>2, DeleteRefines
  <2>3. CASE UNCHANGED <<source, record, stored, legacy, verified>>
    BY <2>3, QuietSteps DEF Raw, Pin, Checked, HasRows
  <2>4. CASE PowerLoss
    BY <2>4, PowerLossQuiet
  <2> QED
    BY <2>1, <2>2, <2>3, <2>4, CaptureRefines, CleanSourceRefines, StoreRefines,
       VerifyRefines, SourceWriters, ResultWriters, RecordWriters
<1> QED
  BY <1>1, <1>2, TypeCorrect, Invariance, PTL
     DEF Spec, ImplementsContract, Contract!Spec
=============================================================================
