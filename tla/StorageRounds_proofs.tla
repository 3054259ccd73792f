------------------------ MODULE StorageRounds_proofs ------------------------
(***************************************************************************)
(* What the transactions of the pipeline and of the operators keep, for    *)
(* every number of operators and rounds and whatever the rounds contain.   *)
(* Modules that compose StorageRounds with its users cite StorageStep.     *)
(***************************************************************************)
EXTENDS StorageRounds, TLAPS

(* Everything that changes Storage. *)
StorageMoves ==
    \/ StorageNext
    \/ StorageFaults
    \/ \E o \in Operators, r \in Rounds : BeginDelete(o, r)

(* A deletion under way has not been recorded yet; when its round is       *)
(* absent, or was found so, it was absent since the deletion began.        *)
DeletionInv(o) ==
    LET d == deletion[o]
    IN  /\ d.pc \notin Ended => log[o] = "none"
        /\ d.pc \notin Ended /\ ~Retained(d.round) => d.gone
        /\ d.pc \in {"recounted", "gone", "succeeded"} => d.gone
        /\ d.pc = "succeeded" => log[o] = "SUCCEEDED"
        /\ d.pc = "failed" => log[o] # "SUCCEEDED"

(* Between the commit and the end of the read-back, only a deletion can    *)
(* change the round.                                                       *)
PipeInv == pipe.pc = "committed" => stored[pipe.round] \in {pipe.content, Nothing}

StorageInv == StorageTypeOK /\ PipeInv /\ \A o \in Operators : DeletionInv(o)

-----------------------------------------------------------------------------
(* Contents and the cascade.                                               *)

(* A round that is stored can be told from one that is not. *)
LEMMA ContentIsSomething ==
    ASSUME NEW c \in Contents
    PROVE  c # Nothing /\ c.findings # <<>>
<1>1. c.findings # <<>>
  BY ContentsAssumption
<1> QED
  BY <1>1 DEF Nothing

(* Deleting a round takes its zones and findings with it. *)
LEMMA CascadeLeavesNothing ==
    ASSUME NEW c \in Contents \cup {Nothing}
    PROVE  Cascade(c) = Nothing
<1>1. PICK z, f : c = [zones |-> z, findings |-> f]
  BY ContentsAssumption DEF Nothing
<1>2. ASSUME NEW x, NEW y, NEW e
      PROVE  /\ [[zones |-> x, findings |-> y] EXCEPT !.zones = e] = [zones |-> e, findings |-> y]
             /\ [[zones |-> x, findings |-> y] EXCEPT !.findings = e] = [zones |-> x, findings |-> e]
  OBVIOUS
<1>3. Cascade(c) = [[c EXCEPT !.zones = {}] EXCEPT !.findings = <<>>]
  BY Zenon DEF Cascade
<1> QED
  BY <1>1, <1>2, <1>3, Zenon DEF Nothing

(* A pipeline between two runs is well typed. *)
LEMMA NoRunType ==
    ASSUME NEW pc \in PipeSteps
    PROVE  /\ NoRun(pc) \in [pc : PipeSteps, round : Rounds, content : Contents, read : Nat]
           /\ NoRun(pc).pc = pc
BY NonEmptyAssumption DEF NoRun

(* An operator between two deletions is well typed. *)
LEMMA NoDeletionType ==
    ASSUME NEW pc \in DeleteSteps
    PROVE  /\ NoDeletion(pc) \in [pc : DeleteSteps, round : Rounds, gone : BOOLEAN]
           /\ NoDeletion(pc).pc = pc
BY NonEmptyAssumption DEF NoDeletion

(* Waking the deletions that wait leaves them under way, and everything    *)
(* else about them as it was.                                              *)
LEMMA WokenKeeps ==
    ASSUME StorageTypeOK, NEW r \in Rounds, NEW pc \in {"counted", "committed"}
    PROVE  /\ Woken(r, pc) \in [Operators -> [pc : DeleteSteps, round : Rounds, gone : BOOLEAN]]
           /\ \A o \in Operators :
                 /\ Woken(r, pc)[o].round = deletion[o].round
                 /\ Woken(r, pc)[o].gone = deletion[o].gone
                 /\ \/ Woken(r, pc)[o].pc = deletion[o].pc
                    \/ deletion[o].pc = "waiting" /\ Woken(r, pc)[o].pc = pc
BY DEF StorageTypeOK, Woken, WaitsFor, DeleteSteps

-----------------------------------------------------------------------------
(* The invariant holds in an empty database. *)
LEMMA StorageStarts == StorageInit => StorageInv
<1> SUFFICES ASSUME StorageInit PROVE StorageInv
  OBVIOUS
<1>1. StorageTypeOK
  BY NoRunType, NoDeletionType
  DEF StorageInit, StorageTypeOK, PipeSteps, DeleteSteps
<1>2. PipeInv
  BY NoRunType DEF StorageInit, PipeInv, PipeSteps
<1>3. ASSUME NEW o \in Operators PROVE DeletionInv(o)
  BY NoDeletionType DEF StorageInit, DeletionInv, DeleteSteps, Ended
<1> QED
  BY <1>1, <1>2, <1>3 DEF StorageInv

-----------------------------------------------------------------------------
(* A step that changes neither Storage nor log, and a deletion in its      *)
(* place only as long as it is under way, keeps what is said of deletions. *)
LEMMA DeletionKept ==
    ASSUME StorageInv, NEW o \in Operators,
           stored' = stored, log' = log,
           deletion'[o].round = deletion[o].round, deletion'[o].gone = deletion[o].gone,
           \/ deletion'[o].pc = deletion[o].pc
           \/ /\ deletion[o].pc \notin Ended
              /\ deletion'[o].pc \in {"counted", "waiting", "deleted", "committed", "raised"}
    PROVE  DeletionInv(o)'
BY DEF StorageInv, DeletionInv, Ended, Retained

(* A commit that empties a round marks every deletion of it. *)
LEMMA DeleteKeeps ==
    ASSUME StorageInv, NEW o \in Operators, NEW pc \in {"committed", "raised"},
           DeleteAt(o, "deleted"), Delete(o, pc), UNCHANGED <<pipe, log>>,
           used' \in [{"stores", "deletes", "faults"} -> Nat]
    PROVE  StorageInv'
<1> DEFINE r == deletion[o].round
           woken == Woken(r, "committed")
<1> USE DEF StorageInv
<1>1. r \in Rounds /\ StorageTypeOK
  BY DEF StorageTypeOK
<1>2. /\ woken \in [Operators -> [pc : DeleteSteps, round : Rounds, gone : BOOLEAN]]
      /\ \A p \in Operators :
            /\ woken[p].round = deletion[p].round
            /\ woken[p].gone = deletion[p].gone
            /\ woken[p].pc = deletion[p].pc \/ (deletion[p].pc = "waiting" /\ woken[p].pc = "committed")
  BY <1>1, WokenKeeps
<1>3. stored' = [stored EXCEPT ![r] = Nothing]
  BY <1>1, CascadeLeavesNothing DEF Delete, StorageTypeOK
<1>4. deletion' = [p \in Operators |->
              [pc    |-> IF p = o THEN pc ELSE woken[p].pc,
               round |-> woken[p].round,
               gone  |-> woken[p].gone \/ (woken[p].pc \notin Ended /\ woken[p].round = r)]]
  BY DEF Delete
<1> HIDE DEF woken
<1>5. StorageTypeOK'
  <2>1. deletion' \in [Operators -> [pc : DeleteSteps, round : Rounds, gone : BOOLEAN]]
    BY <1>2, <1>4 DEF DeleteSteps
  <2>2. lock' \in [Rounds -> Operators \cup {Pipeline, NoOne}]
    BY <1>1 DEF Delete, Unlocked, StorageTypeOK
  <2> QED
    BY <1>1, <1>3, <2>1, <2>2 DEF StorageTypeOK
<1>6. PipeInv'
  BY <1>1, <1>3 DEF PipeInv, StorageTypeOK
<1>7. ASSUME NEW p \in Operators PROVE DeletionInv(p)'
  <2>1. /\ deletion'[p].pc = IF p = o THEN pc ELSE woken[p].pc
        /\ deletion'[p].round = deletion[p].round
        /\ deletion'[p].gone = (deletion[p].gone \/ (woken[p].pc \notin Ended /\ deletion[p].round = r))
    BY <1>2, <1>4
  <2>2. deletion[o].pc = "deleted" /\ woken[o].pc = "deleted"
    BY <1>2 DEF DeleteAt
  <2>3. DeletionInv(p) /\ log'[p] = log[p] /\ stored \in [Rounds -> Contents \cup {Nothing}]
        /\ deletion[p].round \in Rounds
    BY DEF StorageTypeOK
  <2>4. CASE p = o
    BY <2>1, <2>2, <2>3, <2>4 DEF DeletionInv, Ended
  <2>5. CASE p # o /\ deletion[p].round = r
    BY <1>2, <2>1, <2>3, <2>5 DEF DeletionInv, Ended
  <2>6. CASE p # o /\ deletion[p].round # r
    <3>1. Retained(deletion[p].round)' = Retained(deletion[p].round)
      BY <1>3, <2>1, <2>3, <2>6 DEF Retained
    <3> QED
      BY <1>2, <2>1, <2>3, <2>6, <3>1 DEF DeletionInv, Ended
  <2> QED
    BY <2>4, <2>5, <2>6
<1> QED
  BY <1>5, <1>6, <1>7

-----------------------------------------------------------------------------
(* One step of the pipeline, of an operator, or a failure. *)
LEMMA StorageStep == StorageInv /\ StorageMoves => StorageInv'
<1> SUFFICES ASSUME StorageInv, StorageMoves PROVE StorageInv'
  OBVIOUS
<1>0. StorageTypeOK /\ PipeInv /\ \A o \in Operators : DeletionInv(o)
  BY DEF StorageInv
<1>U. \A what \in {"stores", "deletes", "faults"} :
          Count(what) => used' \in [{"stores", "deletes", "faults"} -> Nat]
  BY <1>0 DEF StorageTypeOK, Count
<1>W. ASSUME NEW r \in Rounds, NEW pc \in {"counted", "committed"}, NEW o \in Operators,
             deletion' = Woken(r, pc), stored' = stored, log' = log
      PROVE  DeletionInv(o)'
  <2>1. /\ deletion'[o].round = deletion[o].round /\ deletion'[o].gone = deletion[o].gone
        /\ \/ deletion'[o].pc = deletion[o].pc
           \/ deletion[o].pc = "waiting" /\ deletion'[o].pc = pc
    BY <1>0, <1>W, WokenKeeps
  <2> QED
    BY <1>W, <2>1, DeletionKept DEF Ended
<1>1. ASSUME NEW r \in Rounds, NEW c \in Contents, BeginReplace(r, c) PROVE StorageInv'
  <2>1. StorageTypeOK'
    BY <1>0, <1>1, <1>U, NoRunType DEF BeginReplace, StorageTypeOK, PipeSteps, Locks
  <2>2. pipe'.pc # "committed"
    BY <1>1, NoRunType DEF BeginReplace, PipeSteps
  <2>3. ASSUME NEW o \in Operators PROVE DeletionInv(o)'
    BY <1>1, DeletionKept DEF BeginReplace
  <2> QED
    BY <2>1, <2>2, <2>3 DEF StorageInv, PipeInv
<1>2. CASE ReplaceWaited
  <2>1. StorageTypeOK' /\ pipe'.pc = "replaced"
    BY <1>0, <1>2 DEF ReplaceWaited, PipeGoes, StorageTypeOK, PipeSteps, Locks
  <2>2. ASSUME NEW o \in Operators PROVE DeletionInv(o)'
    BY <1>2, DeletionKept DEF ReplaceWaited
  <2> QED
    BY <2>1, <2>2 DEF StorageInv, PipeInv
<1>3. CASE CommitReplace
  <2>1. pipe.round \in Rounds /\ pipe.content \in Contents /\ pipe.content # Nothing
    BY <1>0, ContentIsSomething DEF StorageTypeOK
  <2>2. /\ stored' = [stored EXCEPT ![pipe.round] = pipe.content]
        /\ pipe' = [pipe EXCEPT !.pc = "committed"]
        /\ UNCHANGED <<log, used>>
    BY <1>3 DEF CommitReplace, PipeGoes
  <2>3. \/ lock' = Unlocked(pipe.round) /\ deletion' = Woken(pipe.round, "committed")
        \/ UNCHANGED <<lock, deletion>>
    BY <1>3 DEF CommitReplace
  <2>4. StorageTypeOK'
    <3>1. deletion' \in [Operators -> [pc : DeleteSteps, round : Rounds, gone : BOOLEAN]]
      BY <1>0, <2>1, <2>3, WokenKeeps DEF StorageTypeOK
    <3> QED
      BY <1>0, <2>1, <2>2, <2>3, <3>1 DEF StorageTypeOK, PipeSteps, Unlocked
  <2>5. PipeInv'
    BY <1>0, <2>1, <2>2 DEF PipeInv, StorageTypeOK
  <2>6. ASSUME NEW o \in Operators PROVE DeletionInv(o)'
    <3>1. /\ deletion'[o].round = deletion[o].round /\ deletion'[o].gone = deletion[o].gone
          /\ \/ deletion'[o].pc = deletion[o].pc
             \/ deletion[o].pc = "waiting" /\ deletion'[o].pc = "committed"
      BY <1>0, <2>1, <2>3, WokenKeeps
    <3>2. deletion[o].round \in Rounds /\ stored \in [Rounds -> Contents \cup {Nothing}]
      BY <1>0 DEF StorageTypeOK
    <3>3. ~Retained(deletion[o].round)' => ~Retained(deletion[o].round)
      BY <2>1, <2>2, <3>1, <3>2 DEF Retained
    <3>4. DeletionInv(o) /\ log' = log
      BY <1>0, <2>2
    <3> QED
      BY <3>1, <3>3, <3>4 DEF DeletionInv, Ended
  <2> QED
    BY <2>4, <2>5, <2>6 DEF StorageInv
<1>4. CASE ReadBack
  <2>1. StorageTypeOK' /\ PipeInv'
    <3>1. pipe' \in {NoRun("failed"), NoRun("verified"), [pipe EXCEPT !.read = @ + 1]}
      BY <1>4 DEF ReadBack
    <3> QED
      BY <1>0, <1>4, <3>1, NoRunType DEF ReadBack, StorageTypeOK, PipeSteps, PipeInv
  <2>2. ASSUME NEW o \in Operators PROVE DeletionInv(o)'
    BY <1>4, DeletionKept DEF ReadBack
  <2> QED
    BY <2>1, <2>2 DEF StorageInv
<1>5. CASE PipelineFails
  <2>1. pipe.round \in Rounds
    BY <1>0 DEF StorageTypeOK
  <2>2. /\ pipe' = NoRun("failed") /\ UNCHANGED <<stored, log>>
        /\ used' \in [{"stores", "deletes", "faults"} -> Nat]
        /\ \/ lock' = Unlocked(pipe.round) /\ deletion' = Woken(pipe.round, "counted")
           \/ UNCHANGED <<lock, deletion>>
    BY <1>5, <1>U DEF PipelineFails
  <2>3. StorageTypeOK' /\ PipeInv'
    <3>1. deletion' \in [Operators -> [pc : DeleteSteps, round : Rounds, gone : BOOLEAN]]
      BY <1>0, <2>1, <2>2, WokenKeeps DEF StorageTypeOK
    <3> QED
      BY <1>0, <2>1, <2>2, <3>1, NoRunType DEF StorageTypeOK, PipeSteps, Unlocked, PipeInv
  <2>4. ASSUME NEW o \in Operators PROVE DeletionInv(o)'
    BY <1>W, <2>1, <2>2, DeletionKept
  <2> QED
    BY <2>3, <2>4 DEF StorageInv
<1>6. ASSUME NEW o \in Operators, NEW r \in Rounds, BeginDelete(o, r) PROVE StorageInv'
  <2>1. StorageTypeOK'
    BY <1>0, <1>6, <1>U DEF BeginDelete, StorageTypeOK, DeleteSteps
  <2>2. ASSUME NEW p \in Operators PROVE DeletionInv(p)'
    <3>1. CASE p = o
      BY <1>0, <1>6, <3>1 DEF BeginDelete, StorageTypeOK, DeletionInv, Ended, Retained
    <3>2. CASE p # o
      BY <1>0, <1>6, <3>2 DEF BeginDelete, StorageTypeOK, DeletionInv, Ended, Retained
    <3> QED
      BY <3>1, <3>2
  <2> QED
    BY <1>0, <1>6, <2>1, <2>2 DEF StorageInv, PipeInv, BeginDelete
<1>7. ASSUME NEW o \in Operators, DeleteRow(o) PROVE StorageInv'
  <2>1. StorageTypeOK'
    BY <1>0, <1>7 DEF DeleteRow, DeleteGoes, StorageTypeOK, DeleteSteps
  <2>2. ASSUME NEW p \in Operators PROVE DeletionInv(p)'
    <3>1. /\ stored' = stored /\ log' = log
          /\ deletion'[p].round = deletion[p].round /\ deletion'[p].gone = deletion[p].gone
          /\ \/ deletion'[p].pc = deletion[p].pc
             \/ deletion[p].pc = "counted" /\ deletion'[p].pc \in {"committed", "deleted", "waiting"}
      BY <1>0, <1>7 DEF DeleteRow, DeleteGoes, DeleteAt, StorageTypeOK
    <3> QED
      BY <3>1, DeletionKept DEF Ended
  <2> QED
    BY <1>0, <1>7, <2>1, <2>2 DEF StorageInv, PipeInv, DeleteRow
<1>8. ASSUME NEW o \in Operators, CommitDelete(o) PROVE StorageInv'
  BY <1>0, <1>8, DeleteKeeps DEF CommitDelete, StorageTypeOK
<1>9. ASSUME NEW o \in Operators, Recount(o) PROVE StorageInv'
  <2>1. StorageTypeOK'
    <3>1. PICK pc \in {"recounted", "gone", "raised"} : deletion' = [deletion EXCEPT ![o].pc = pc]
      BY <1>9 DEF Recount, DeleteGoes
    <3> QED
      BY <1>0, <1>9, <3>1 DEF Recount, StorageTypeOK, DeleteSteps
  <2>2. ASSUME NEW p \in Operators PROVE DeletionInv(p)'
    <3>1. CASE p = o
      BY <1>0, <1>9, <3>1
      DEF Recount, Recounted, DeleteGoes, DeleteAt, StorageTypeOK, DeletionInv, Ended, Retained
    <3>2. CASE p # o
      BY <1>0, <1>9, <3>2 DEF Recount, DeleteGoes, StorageTypeOK, DeletionInv, Ended, Retained
    <3> QED
      BY <3>1, <3>2
  <2> QED
    BY <1>0, <1>9, <2>1, <2>2 DEF StorageInv, PipeInv, Recount
<1>10. ASSUME NEW o \in Operators, Record(o) \/ LogFails(o) PROVE StorageInv'
  <2>0. \A pc \in {"succeeded", "failed"} : NoDeletion(pc).round \in Rounds
    BY NoDeletionType DEF DeleteSteps
  <2>1. StorageTypeOK'
    BY <1>0, <1>10, <1>U, <2>0
    DEF Record, LogFails, DeletionEnds, StorageTypeOK, DeleteSteps
  <2>2. ASSUME NEW p \in Operators PROVE DeletionInv(p)'
    <3>1. CASE p = o
      BY <1>0, <1>10, <3>1
      DEF Record, LogFails, DeletionEnds, DeleteAt, StorageTypeOK, DeletionInv, Ended
    <3>2. CASE p # o
      BY <1>0, <1>10, <3>2
      DEF Record, LogFails, DeletionEnds, StorageTypeOK, DeletionInv, Ended, Retained
    <3> QED
      BY <3>1, <3>2
  <2> QED
    BY <1>0, <1>10, <2>1, <2>2 DEF StorageInv, PipeInv, Record, LogFails
<1>11. ASSUME NEW o \in Operators, DatabaseFails(o) PROVE StorageInv'
  <2> DEFINE r == deletion[o].round
  <2>1. /\ r \in Rounds /\ UNCHANGED <<pipe, log>>
        /\ deletion[o].pc \in {"counted", "waiting", "deleted", "committed", "recounted"}
        /\ used' \in [{"stores", "deletes", "faults"} -> Nat]
    BY <1>0, <1>11, <1>U DEF DatabaseFails, StorageTypeOK
  <2>2. CASE DeleteAt(o, "deleted") /\ Delete(o, "raised")
    BY <2>1, <2>2, DeleteKeeps
  <2>3. CASE /\ stored' = stored
             /\ \/ /\ lock' = Unlocked(r)
                   /\ deletion' = [Woken(r, "counted") EXCEPT ![o].pc = "raised"]
                \/ deletion' = [deletion EXCEPT ![o].pc = "raised"] /\ lock' = lock
    <3>1. /\ deletion' \in [Operators -> [pc : DeleteSteps, round : Rounds, gone : BOOLEAN]]
          /\ \A p \in Operators :
                /\ deletion'[p].round = deletion[p].round /\ deletion'[p].gone = deletion[p].gone
                /\ \/ deletion'[p].pc = deletion[p].pc
                   \/ deletion[p].pc = "waiting" /\ deletion'[p].pc = "counted"
                   \/ p = o /\ deletion'[p].pc = "raised"
      <4>1. CASE deletion' = [Woken(r, "counted") EXCEPT ![o].pc = "raised"]
        <5> DEFINE woken == Woken(r, "counted")
        <5>1. /\ woken \in [Operators -> [pc : DeleteSteps, round : Rounds, gone : BOOLEAN]]
              /\ \A p \in Operators :
                    /\ woken[p].round = deletion[p].round /\ woken[p].gone = deletion[p].gone
                    /\ \/ woken[p].pc = deletion[p].pc
                       \/ deletion[p].pc = "waiting" /\ woken[p].pc = "counted"
          BY <1>0, <2>1, WokenKeeps
        <5> HIDE DEF woken
        <5> QED
          BY <4>1, <5>1 DEF woken, DeleteSteps
      <4>2. CASE deletion' = [deletion EXCEPT ![o].pc = "raised"]
        BY <1>0, <4>2 DEF StorageTypeOK, DeleteSteps
      <4> QED
        BY <2>3, <4>1, <4>2
    <3>2. StorageTypeOK'
      BY <1>0, <2>1, <2>3, <3>1 DEF StorageTypeOK, Unlocked
    <3>3. ASSUME NEW p \in Operators PROVE DeletionInv(p)'
      BY <2>1, <2>3, <3>1, DeletionKept DEF Ended
    <3> QED
      BY <1>0, <2>1, <2>3, <3>2, <3>3 DEF StorageInv, PipeInv
  <2> QED
    BY <1>11, <2>2, <2>3 DEF DatabaseFails, DeleteGoes
<1> QED
  BY <1>1, <1>2, <1>3, <1>4, <1>5, <1>6, <1>7, <1>8, <1>9, <1>10, <1>11
  DEF StorageMoves, StorageNext, StorageFaults, PipelineStep, DeletionStep

(* Steps of the dashboard alone preserve it. *)
LEMMA StorageStutters == StorageInv /\ UNCHANGED storageVars => StorageInv'
BY DEF StorageInv, storageVars, StorageTypeOK, PipeInv, DeletionInv, Retained

(* The pipeline ends its read-back only on rows that are there. *)
LEMMA VerifiedStep ==
    ASSUME StorageInv, StorageMoves \/ UNCHANGED storageVars,
           pipe.pc = "committed", pipe'.pc = "verified"
    PROVE  stored[pipe.round] = pipe.content
<1>1. ReadBack
  BY NoRunType
  DEF StorageMoves, StorageNext, StorageFaults, PipelineStep, DeletionStep, storageVars,
      BeginReplace, ReplaceWaited, CommitReplace, PipeAt, PipelineFails, PipeSteps,
      BeginDelete, DeleteRow, CommitDelete, Recount, Record, LogFails, DatabaseFails
<1>2. ReadsSame(pipe.read)
  BY <1>1, NoRunType DEF ReadBack, PipeSteps
<1>3. pipe.content \in Contents /\ pipe.content.findings # <<>>
  BY ContentIsSomething DEF StorageInv, StorageTypeOK
<1>4. stored[pipe.round] # Nothing
  BY <1>2, <1>3 DEF ReadsSame, Nothing
<1> QED
  BY <1>4 DEF StorageInv, PipeInv

(* A deletion gets under way by BeginDelete only, and keeps its round. *)
LEMMA OnlyBeginStarts ==
    ASSUME StorageInv, NEW o \in Operators, deletion'[o].pc \notin Ended,
           \/ StorageNext \/ StorageFaults \/ UNCHANGED storageVars
           \/ \E p \in Operators \ {o}, r \in Rounds : BeginDelete(p, r)
    PROVE  deletion[o].pc \notin Ended /\ deletion'[o].round = deletion[o].round
<1>0. StorageTypeOK
  BY DEF StorageInv
<1>1. CASE deletion' = deletion
  BY <1>1
<1>2. ASSUME NEW r \in Rounds, NEW pc \in {"counted", "committed"}, deletion' = Woken(r, pc)
      PROVE  deletion[o].pc \notin Ended /\ deletion'[o].round = deletion[o].round
  <2>1. /\ Woken(r, pc)[o].round = deletion[o].round
        /\ Woken(r, pc)[o].pc = deletion[o].pc \/ deletion[o].pc = "waiting"
    BY <1>0, WokenKeeps
  <2> QED
    BY <1>2, <2>1 DEF Ended
<1>3. ASSUME NEW p \in Operators, NEW pc, deletion[p].pc \notin Ended,
             deletion' = [deletion EXCEPT ![p].pc = pc]
      PROVE  deletion[o].pc \notin Ended /\ deletion'[o].round = deletion[o].round
  BY <1>0, <1>3 DEF StorageTypeOK
<1>4. CASE \E r \in Rounds, c \in Contents : BeginReplace(r, c)
  BY <1>1, <1>4 DEF BeginReplace
<1>5. CASE PipelineStep \/ PipelineFails
  <2>1. pipe.round \in Rounds
    BY <1>0 DEF StorageTypeOK
  <2> QED
    BY <1>1, <1>2, <1>5, <2>1
    DEF PipelineStep, ReplaceWaited, CommitReplace, ReadBack, PipelineFails
<1>6. CASE \E p \in Operators \ {o}, r \in Rounds : BeginDelete(p, r)
  BY <1>0, <1>6 DEF BeginDelete, StorageTypeOK
<1>7. ASSUME NEW p \in Operators, DeleteRow(p)
      PROVE  deletion[o].pc \notin Ended /\ deletion'[o].round = deletion[o].round
  <2>1. PICK pc : deletion' = [deletion EXCEPT ![p].pc = pc]
    BY <1>7 DEF DeleteRow, DeleteGoes
  <2> QED
    BY <1>3, <1>7, <2>1 DEF DeleteRow, DeleteAt, Ended
<1>8. ASSUME NEW p \in Operators, Recount(p)
      PROVE  deletion[o].pc \notin Ended /\ deletion'[o].round = deletion[o].round
  <2>1. PICK pc : deletion' = [deletion EXCEPT ![p].pc = pc]
    BY <1>8 DEF Recount, DeleteGoes
  <2> QED
    BY <1>3, <1>8, <2>1 DEF Recount, DeleteAt, Ended
<1>9. ASSUME NEW p \in Operators, NEW pc \in {"committed", "raised"},
             DeleteAt(p, "deleted"), Delete(p, pc)
      PROVE  deletion[o].pc \notin Ended /\ deletion'[o].round = deletion[o].round
  <2> DEFINE woken == Woken(deletion[p].round, "committed")
  <2>1. /\ deletion'[o].pc = IF o = p THEN pc ELSE woken[o].pc
        /\ deletion'[o].round = woken[o].round
    BY <1>9 DEF Delete
  <2>2. /\ woken[o].round = deletion[o].round
        /\ woken[o].pc = deletion[o].pc \/ deletion[o].pc = "waiting"
    BY <1>0, WokenKeeps DEF StorageTypeOK
  <2> QED
    BY <1>9, <2>1, <2>2 DEF DeleteAt, Ended
<1>10. ASSUME NEW p \in Operators, Record(p) \/ LogFails(p)
       PROVE  deletion[o].pc \notin Ended /\ deletion'[o].round = deletion[o].round
  BY <1>0, <1>10 DEF Record, LogFails, DeletionEnds, StorageTypeOK, Ended
<1>11. ASSUME NEW p \in Operators, DatabaseFails(p)
       PROVE  deletion[o].pc \notin Ended /\ deletion'[o].round = deletion[o].round
  <2>1. deletion[p].round \in Rounds /\ deletion[p].pc \notin Ended
    BY <1>0, <1>11 DEF DatabaseFails, StorageTypeOK, Ended
  <2>2. CASE deletion' = [Woken(deletion[p].round, "counted") EXCEPT ![p].pc = "raised"]
    <3> DEFINE woken == Woken(deletion[p].round, "counted")
    <3>1. /\ woken \in [Operators -> [pc : DeleteSteps, round : Rounds, gone : BOOLEAN]]
          /\ woken[o].round = deletion[o].round
          /\ woken[o].pc = deletion[o].pc \/ deletion[o].pc = "waiting"
      BY <1>0, <2>1, WokenKeeps
    <3> HIDE DEF woken
    <3>2. deletion'[o].round = woken[o].round /\ (o # p => deletion'[o].pc = woken[o].pc)
      BY <2>2, <3>1 DEF woken
    <3> QED
      BY <2>1, <3>1, <3>2 DEF Ended
  <2> QED
    BY <1>3, <1>9, <1>11, <2>1, <2>2 DEF DatabaseFails, DeleteGoes
<1> QED
  BY <1>1, <1>4, <1>5, <1>6, <1>7, <1>8, <1>9, <1>10, <1>11
  DEF StorageNext, StorageFaults, DeletionStep, CommitDelete, storageVars

-----------------------------------------------------------------------------
(* At most one round is stored, and none but its own while the pipeline    *)
(* replaces one: a round is stored by a replacement only.                  *)
OneRoundInv ==
    /\ \A r, s \in Rounds : Retained(r) /\ Retained(s) => r = s
    /\ pipe.pc \in {"waiting", "replaced"} => \A r \in Rounds \ {pipe.round} : ~Retained(r)

(* What a step stores. *)
LEMMA StoredMoves ==
    ASSUME StorageInv, StorageMoves \/ UNCHANGED storageVars
    PROVE  \/ \A r \in Rounds : stored'[r] \in {stored[r], Nothing}
           \/ /\ pipe.pc = "replaced" /\ pipe'.pc = "committed"
              /\ stored' = [stored EXCEPT ![pipe.round] = pipe.content]
<1>0. StorageTypeOK
  BY DEF StorageInv
<1>1. ASSUME NEW o \in Operators, NEW pc, Delete(o, pc)
      PROVE  \A r \in Rounds : stored'[r] \in {stored[r], Nothing}
  <2>1. deletion[o].round \in Rounds /\ stored[deletion[o].round] \in Contents \cup {Nothing}
    BY <1>0 DEF StorageTypeOK
  <2>2. stored' = [stored EXCEPT ![deletion[o].round] = Nothing]
    BY <1>1, <2>1, CascadeLeavesNothing DEF Delete
  <2> QED
    BY <1>0, <2>2 DEF StorageTypeOK
<1>2. CASE stored' = stored
  BY <1>2
<1>3. CASE CommitReplace
  BY <1>0, <1>3 DEF CommitReplace, PipeAt, PipeGoes, StorageTypeOK
<1>4. CASE \E o \in Operators : CommitDelete(o) \/ DatabaseFails(o)
  BY <1>1, <1>2, <1>4 DEF CommitDelete, DatabaseFails
<1>5. CASE ~CommitReplace /\ ~\E o \in Operators : CommitDelete(o) \/ DatabaseFails(o)
  <2>1. stored' = stored
    BY <1>5
    DEF StorageMoves, StorageNext, StorageFaults, PipelineStep, DeletionStep, storageVars,
        BeginReplace, ReplaceWaited, ReadBack, PipelineFails, BeginDelete, DeleteRow, Recount,
        Record, LogFails
  <2> QED
    BY <1>2, <2>1
<1> QED
  BY <1>3, <1>4, <1>5

(* Where a replacement under way comes from. *)
LEMMA ReplaceMoves ==
    ASSUME StorageInv, StorageMoves \/ UNCHANGED storageVars, pipe'.pc \in {"waiting", "replaced"}
    PROVE  \/ pipe.pc \in {"waiting", "replaced"} /\ pipe'.round = pipe.round
           \/ \A r \in Rounds \ {pipe'.round} : ~Retained(r)
<1>0. StorageTypeOK
  BY DEF StorageInv
<1>1. CASE pipe' = pipe
  BY <1>1
<1>2. CASE \E r \in Rounds, c \in Contents : BeginReplace(r, c)
  <2>1. PICK r \in Rounds, c \in Contents : BeginReplace(r, c)
    BY <1>2
  <2>2. pipe' # NoRun("failed")
    BY NoRunType DEF PipeSteps
  <2>3. pipe'.round = r /\ ~\E x \in Rounds \ {r} : Retained(x)
    BY <2>1, <2>2 DEF BeginReplace
  <2> QED
    BY <2>3
<1>3. CASE ReplaceWaited
  BY <1>0, <1>3 DEF ReplaceWaited, PipeAt, PipeGoes, StorageTypeOK
<1>4. CASE CommitReplace
  BY <1>0, <1>4 DEF CommitReplace, PipeGoes, StorageTypeOK
<1>5. CASE ReadBack \/ PipelineFails
  <2>1. pipe'.pc \notin {"waiting", "replaced"} \/ pipe' = [pipe EXCEPT !.read = pipe.read + 1]
    BY <1>5, NoRunType DEF ReadBack, PipelineFails, PipeSteps
  <2>2. pipe' = [pipe EXCEPT !.read = pipe.read + 1]
    BY <2>1
  <2> QED
    BY <1>0, <2>2 DEF StorageTypeOK
<1> QED
  BY <1>1, <1>2, <1>3, <1>4, <1>5
  DEF StorageMoves, StorageNext, StorageFaults, PipelineStep, DeletionStep, storageVars,
      BeginDelete, DeleteRow, CommitDelete, Recount, Record, LogFails, DatabaseFails

(* So there is never more than one round. *)
LEMMA OneRoundStep ==
    StorageInv /\ OneRoundInv /\ (StorageMoves \/ UNCHANGED storageVars) => OneRoundInv'
<1> SUFFICES ASSUME StorageInv, OneRoundInv, StorageMoves \/ UNCHANGED storageVars
             PROVE  OneRoundInv'
  OBVIOUS
<1>1. \A r \in Rounds : stored[r] \in Contents \cup {Nothing} /\ pipe.round \in Rounds
      /\ stored \in [Rounds -> Contents \cup {Nothing}]
  BY DEF StorageInv, StorageTypeOK
<1>2. CASE \A r \in Rounds : stored'[r] \in {stored[r], Nothing}
  <2>1. \A r \in Rounds : Retained(r)' => Retained(r)
    BY <1>2 DEF Retained, Nothing
  <2> QED
    BY <2>1, ReplaceMoves DEF OneRoundInv
<1>3. CASE /\ pipe.pc = "replaced" /\ pipe'.pc = "committed"
           /\ stored' = [stored EXCEPT ![pipe.round] = pipe.content]
  <2>1. \A r \in Rounds \ {pipe.round} : ~Retained(r) /\ ~Retained(r)'
    BY <1>1, <1>3 DEF OneRoundInv, Retained, Nothing
  <2> QED
    BY <1>3, <2>1 DEF OneRoundInv
<1> QED
  BY <1>2, <1>3, StoredMoves

(* The earlier run left at most one. *)
LEMMA OneRoundStarts == StorageInit => OneRoundInv
<1> SUFFICES ASSUME StorageInit PROVE OneRoundInv
  OBVIOUS
<1>1. \A r \in Rounds : Retained(r) => r = CHOOSE kept \in Rounds : TRUE
  BY DEF StorageInit, Retained
<1>2. pipe.pc = "idle"
  BY NoRunType DEF StorageInit, PipeSteps
<1> QED
  BY <1>1, <1>2 DEF OneRoundInv
=============================================================================
