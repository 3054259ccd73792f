-------------------------- MODULE GpsCache_proofs ---------------------------
(***************************************************************************)
(* The safety properties of GpsCache for any number of sockets and any     *)
(* limits on the ages.                                                     *)
(***************************************************************************)
EXTENDS GpsCache, TLAPS

(* The reader's socket is the registered one from Register to ClearActive, *)
(* and it has none between two connections.                                *)
SocketInv ==
    /\ open \subseteq {mine}
    /\ reader \in {"off", "loop", "connect", "delay", "done"}
          => mine = NoTransport /\ active = NoTransport
    /\ reader \in {"register", "close"} => active = NoTransport
    /\ reader \in {"send", "poll", "recv", "handle", "clear"} => active = mine

(* Why stop releases the reader: the event is set before the transport is  *)
(* read, and the reader tests the event before it receives.                *)
StopInv ==
    /\ main \in {"stop_read", "stop_close", "stop_join"} => stop
    /\ main = "stop_close" /\ reader = "recv" => seen = mine
    /\ ReadReleased

Inv == SocketInv /\ StopInv /\ NoMissedFix /\ FixIsConsistent

-----------------------------------------------------------------------------
(* Every variable keeps its type.                                          *)
THEOREM TypeCorrect == Spec => []TypeOK
<1>1. Init => TypeOK
  <2>1. 0 \in 0..MaxLines /\ Never(MaxAccuracyAge) \in 0..Never(MaxAccuracyAge)
    BY AgesAssumption DEF Never
  <2>2. /\ Never(MaxAge) \in 0..Never(MaxAge)
        /\ Never(MaxAge + MaxAccuracyAge) \in 0..Never(MaxAge + MaxAccuracyAge)
    BY AgesAssumption DEF Never
  <2>3. 0 \in 0..2
    OBVIOUS
  <2> QED
    BY <2>1, <2>2, <2>3, Zenon DEF Init, TypeOK, Stopping
<1>2. TypeOK /\ [Next]_vars => TypeOK'
  <2> SUFFICES ASSUME TypeOK, [Next]_vars PROVE TypeOK'
    OBVIOUS
  <2> USE AgesAssumption DEF TypeOK
  <2>1. CASE ReaderStep
    <3>1. CASE Loop \/ Connect \/ Register \/ Send \/ Poll
      BY <3>1 DEF Loop, Connect, Register, Send, Poll, ReaderAt, ReaderGoes, mainVars, fixVars
    <3>2. CASE Receive \/ ReceiveTimesOut \/ ReceiveEnds \/ ChunkHandled
      BY <3>2 DEF Receive, ReceiveTimesOut, ReceiveEnds, ChunkHandled, ReaderAt, ReaderGoes, mainVars, fixVars
    <3>3. ASSUME NEW p \in BOOLEAN, NEW a \in BOOLEAN, HandleLine(p, a) PROVE TypeOK'
      <4>1. lines' \in 0..MaxLines
        BY <3>3 DEF HandleLine
      <4>2. accuracyAge' \in 0..Never(MaxAccuracyAge)
        BY <3>3 DEF HandleLine, Never
      <4>3. fixAge' \in 0..Never(MaxAge) /\ fixAccuracyAge' \in 0..Never(MaxAge + MaxAccuracyAge)
        BY <3>3 DEF HandleLine, fixVars, Never
      <4>4. notified' \in BOOLEAN
        BY <3>3, Zenon DEF HandleLine
      <4> QED
        BY <3>3, <4>1, <4>2, <4>3, <4>4, Zenon DEF HandleLine
    <3>4. CASE ClearActive \/ Close \/ Delay
      BY <3>4 DEF ClearActive, Close, Delay, ReaderAt, ReaderGoes, mainVars, fixVars
    <3> QED
      BY <2>1, <3>1, <3>2, <3>3, <3>4 DEF ReaderStep
  <2>2. CASE ReaderFails
    BY <2>2 DEF ReaderFails, mainVars, fixVars
  <2>3. CASE MainStep
    <3>1. CASE Start
      BY <3>1 DEF Start, MainAt, ReaderAt, fixVars, Stopping
    <3>2. CASE WaitForFix
      <4>1. /\ main' \in Stopping \cup {"start", "wait", "sleep", "capture", "ended"}
            /\ stopsLeft' \in 0..2 /\ (main' \in Stopping => stopsLeft' > 0)
        BY <3>2 DEF WaitForFix, Stopping
      <4>2. notified' \in BOOLEAN
        BY <3>2, Zenon DEF WaitForFix
      <4> QED
        BY <3>2, <4>1, <4>2, Zenon DEF WaitForFix, threadVars, fixVars
    <3>3. CASE Wake \/ EndCapture
      BY <3>3 DEF Wake, EndCapture, MainAt, threadVars, fixVars, Stopping
    <3>4. CASE StopSet \/ StopRead \/ StopClose
      BY <3>4 DEF StopSet, StopRead, StopClose, MainAt, threadVars, fixVars, Stopping
    <3>5. CASE StopJoin
      BY <3>5 DEF StopJoin, MainAt, threadVars, fixVars, Stopping
    <3> QED
      BY <2>3, <3>1, <3>2, <3>3, <3>4, <3>5 DEF MainStep
  <2>4. CASE Interrupt
    <3>1. /\ main' \in Stopping \cup {"start", "wait", "sleep", "capture", "ended"}
          /\ stopsLeft' \in 0..2 /\ (main' \in Stopping => stopsLeft' > 0)
      BY <2>4 DEF Interrupt, Stopping
    <3> QED
      BY <2>4, <3>1 DEF Interrupt, threadVars, fixVars
  <2>5. CASE Tick
    BY <2>5 DEF Tick, Older, Never, mainVars
  <2>6. CASE UNCHANGED vars
    BY <2>6 DEF vars, threadVars, mainVars, fixVars
  <2> QED
    BY <2>1, <2>2, <2>3, <2>4, <2>5, <2>6 DEF Next
<1> QED
  BY <1>1, <1>2, PTL DEF Spec

-----------------------------------------------------------------------------
(* The sockets: kept by the reader's steps, of which only five touch them, *)
(* and by StopClose, which only takes sockets out of open.                 *)
LEMMA SocketStep == TypeOK /\ SocketInv /\ [Next]_vars => SocketInv'
<1> SUFFICES ASSUME TypeOK, SocketInv, [Next]_vars PROVE SocketInv'
  OBVIOUS
<1> USE DEF SocketInv
<1>1. CASE ReaderStep
  <2>1. CASE Loop \/ Connect \/ Register
    BY <2>1, NoTransportAssumption DEF Loop, Connect, Register, ReaderAt, ReaderGoes, TypeOK
  <2>2. CASE Send \/ Poll \/ Receive \/ ReceiveTimesOut \/ ReceiveEnds \/ ChunkHandled
    BY <2>2 DEF Send, Poll, Receive, ReceiveTimesOut, ReceiveEnds, ChunkHandled, ReaderAt, ReaderGoes
  <2>3. ASSUME NEW p \in BOOLEAN, NEW a \in BOOLEAN, HandleLine(p, a) PROVE SocketInv'
    BY <2>3 DEF HandleLine
  <2>4. CASE ClearActive \/ Close \/ Delay
    BY <2>4 DEF ClearActive, Close, Delay, ReaderAt, ReaderGoes
  <2> QED
    BY <1>1, <2>1, <2>2, <2>3, <2>4 DEF ReaderStep
<1>2. CASE ReaderFails
  BY <1>2 DEF ReaderFails
<1>3. CASE MainStep
  BY <1>3 DEF MainStep, Start, WaitForFix, Wake, EndCapture, StopSet, StopRead, StopClose,
     StopJoin, MainAt, ReaderAt, threadVars
<1>4. CASE Interrupt \/ Tick \/ UNCHANGED vars
  BY <1>4 DEF Interrupt, Tick, vars, threadVars
<1> QED
  BY <1>1, <1>2, <1>3, <1>4 DEF Next

(* stop: the reader enters recv only while the event is not set, so that a *)
(* reader found in recv was there, with its registered socket, when stop   *)
(* read the active transport.                                              *)
LEMMA StopStep == TypeOK /\ SocketInv /\ StopInv /\ [Next]_vars => StopInv'
<1> SUFFICES ASSUME TypeOK, SocketInv, StopInv, [Next]_vars PROVE StopInv'
  OBVIOUS
<1> USE DEF StopInv, ReadReleased
<1>1. CASE ReaderStep
  <2>1. CASE Loop \/ Connect \/ Register \/ Send \/ Poll
    BY <2>1 DEF Loop, Connect, Register, Send, Poll, ReaderAt, ReaderGoes, mainVars
  <2>2. CASE Receive \/ ReceiveTimesOut \/ ReceiveEnds \/ ChunkHandled
    BY <2>2 DEF Receive, ReceiveTimesOut, ReceiveEnds, ChunkHandled, ReaderAt, ReaderGoes, mainVars
  <2>3. ASSUME NEW p \in BOOLEAN, NEW a \in BOOLEAN, HandleLine(p, a) PROVE StopInv'
    BY <2>3 DEF HandleLine
  <2>4. CASE ClearActive \/ Close \/ Delay
    BY <2>4 DEF ClearActive, Close, Delay, ReaderAt, ReaderGoes, mainVars
  <2> QED
    BY <1>1, <2>1, <2>2, <2>3, <2>4 DEF ReaderStep
<1>2. CASE ReaderFails
  BY <1>2 DEF ReaderFails, mainVars
<1>3. CASE MainStep
  <2>1. CASE Start \/ WaitForFix \/ Wake \/ EndCapture
    BY <2>1 DEF Start, WaitForFix, Wake, EndCapture, MainAt, threadVars
  <2>2. CASE StopSet \/ StopRead
    BY <2>2 DEF StopSet, StopRead, MainAt, threadVars, SocketInv
  <2>3. CASE StopClose
    BY <2>3 DEF StopClose, MainAt, threadVars
  <2>4. CASE StopJoin
    BY <2>4 DEF StopJoin, MainAt, threadVars
  <2> QED
    BY <1>3, <2>1, <2>2, <2>3, <2>4 DEF MainStep
<1>4. CASE Interrupt
  BY <1>4 DEF Interrupt, threadVars, Stopping
<1>5. CASE Tick \/ UNCHANGED vars
  BY <1>5 DEF Tick, vars, threadVars, mainVars
<1> QED
  BY <1>1, <1>2, <1>3, <1>4, <1>5 DEF Next

(* A fix is stored and announced in one step; only time makes it stale.    *)
LEMMA FixStep ==
    TypeOK /\ NoMissedFix /\ FixIsConsistent /\ [Next]_vars
        => NoMissedFix' /\ FixIsConsistent'
<1> SUFFICES ASSUME TypeOK, NoMissedFix, FixIsConsistent, [Next]_vars
             PROVE  NoMissedFix' /\ FixIsConsistent'
  OBVIOUS
<1> USE AgesAssumption DEF NoMissedFix, FixIsConsistent, FreshFix
<1>1. ASSUME NEW p \in BOOLEAN, NEW a \in BOOLEAN, HandleLine(p, a)
      PROVE NoMissedFix' /\ FixIsConsistent'
  BY <1>1 DEF HandleLine, TypeOK, fixVars
<1>2. CASE Tick
  <2>1. FixIsConsistent'
    BY <1>2 DEF Tick, Older, Never, TypeOK
  <2>2. NoMissedFix'
    BY <1>2 DEF Tick, Older, Never, TypeOK, mainVars
  <2> QED
    BY <2>1, <2>2
<1>3. CASE WaitForFix
  BY <1>3 DEF WaitForFix, fixVars
<1>4. CASE ReaderStep /\ UNCHANGED <<fixVars, mainVars>>
  BY <1>4 DEF fixVars, mainVars
<1>5. CASE MainStep /\ main' # "sleep" /\ UNCHANGED fixVars
  BY <1>5 DEF fixVars
<1>6. CASE ReaderFails \/ Interrupt \/ UNCHANGED vars
  BY <1>6 DEF ReaderFails, Interrupt, vars, fixVars, mainVars
<1>7. ReaderStep => (\E p, a \in BOOLEAN : HandleLine(p, a)) \/ UNCHANGED <<fixVars, mainVars>>
  BY DEF ReaderStep, Loop, Connect, Register, Send, Poll, Receive, ReceiveTimesOut,
     ReceiveEnds, ChunkHandled, ClearActive, Close, Delay, ReaderGoes
<1>8. MainStep => WaitForFix \/ (main' # "sleep" /\ UNCHANGED fixVars)
  BY DEF MainStep, Start, Wake, EndCapture, StopSet, StopRead, StopClose, StopJoin, MainAt
<1> QED
  BY <1>1, <1>2, <1>3, <1>4, <1>5, <1>6, <1>7, <1>8 DEF Next

-----------------------------------------------------------------------------
(* The invariants together, for every number of sockets and every limit.   *)
THEOREM Invariance == Spec => []Inv
<1>1. Init => Inv
  BY AgesAssumption DEF Init, Inv, SocketInv, StopInv, ReadReleased, NoMissedFix,
     FixIsConsistent, FreshFix, Never
<1>2. TypeOK /\ Inv /\ [Next]_vars => Inv'
  BY SocketStep, StopStep, FixStep DEF Inv
<1> QED
  BY <1>1, <1>2, TypeCorrect, PTL DEF Spec

(* After stop closed what it saw, the reader is not left in a receive on   *)
(* an open socket, whenever it connected.                                  *)
THEOREM StopReleases == Spec => []ReadReleased
<1>1. Inv => ReadReleased
  BY DEF Inv, StopInv
<1> QED
  BY <1>1, Invariance, PTL

(* The reader never holds two connections, and none once it has ended.     *)
THEOREM SingleConnection == Spec => []OneConnection
<1>1. Inv => OneConnection
  BY DEF Inv, SocketInv, OneConnection
<1> QED
  BY <1>1, Invariance, PTL

(* The main thread does not sleep through a fix it waits for.              *)
THEOREM FixesWake == Spec => []NoMissedFix
<1>1. Inv => NoMissedFix
  BY DEF Inv
<1> QED
  BY <1>1, Invariance, PTL

(* No observation gets a position with an accuracy that was too old for it.*)
THEOREM FixesConsistent == Spec => []FixIsConsistent
<1>1. Inv => FixIsConsistent
  BY DEF Inv
<1> QED
  BY <1>1, Invariance, PTL
=============================================================================
