------------------------------ MODULE GpsCache ------------------------------
(***************************************************************************)
(* The GPS side of Collection (collection/gpsd_client.py): a reader thread *)
(* that streams fixes from gpsd and reconnects (GpsdClient.stream_fixes),  *)
(* the cache it fills (CachedGpsFixProvider), and the main thread of       *)
(* collection/cli.py that starts it, waits for a first fix, reads the      *)
(* cache for every packet and stops the reader.                            *)
(*                                                                         *)
(* A critical section of a lock is one step.  Time goes in ticks; handling *)
(* one line of gpsd takes none.  An age stops counting one tick after its  *)
(* limit: the code does not tell an expired value from a missing one.      *)
(***************************************************************************)
EXTENDS Naturals, FiniteSets

CONSTANTS
    Transports,      \* sockets to gpsd; one may be used again once closed
    NoTransport,
    MaxAge,          \* how long a fix may be used
    MaxAccuracyAge,  \* how long an accuracy may complete later positions
    MaxLines         \* bound on the complete lines in one chunk

ASSUME NoTransportAssumption == NoTransport \notin Transports
ASSUME AgesAssumption == MaxAge \in Nat /\ MaxAccuracyAge \in Nat /\ MaxLines \in Nat

VARIABLES
    \* The reader thread.
    reader,       \* where it is
    mine,         \* its local variable transport
    lines,        \* lines of the last chunk it still has to handle
    failed,       \* is it unwinding an exception other than OSError?
    accuracyAge,  \* _TpvState: ticks since an accuracy came
    \* Shared.
    stop,         \* _stop_event
    active,       \* _active_transport, under _transport_lock
    open,         \* sockets that are neither shut down nor closed
    fixAge,       \* _latest_fix, under _condition: ticks since it came
    fixAccuracyAge, \* ticks since the accuracy in it came
    \* The main thread.
    main,         \* where it is
    seen,         \* close(): the transport it read
    stopsLeft,    \* calls of stop() to come: the finally clauses it is in
    notified      \* was the condition notified while it slept?

threadVars == <<reader, mine, lines, failed, accuracyAge>>
fixVars    == <<fixAge, fixAccuracyAge>>
mainVars   == <<main, seen, stopsLeft, notified>>
vars       == <<threadVars, stop, active, open, fixVars, mainVars>>

Never(limit) == limit + 1
Older(age, limit) == IF age > limit THEN age ELSE age + 1

(* _fresh_fix_locked *)
FreshFix == fixAge <= MaxAge

Stopping == {"stop_set", "stop_read", "stop_close", "stop_join"}

Init ==
    /\ reader = "off" /\ mine = NoTransport /\ lines = 0 /\ failed = FALSE
    /\ accuracyAge = Never(MaxAccuracyAge)
    /\ stop = FALSE /\ active = NoTransport /\ open = {}
    /\ fixAge = Never(MaxAge) /\ fixAccuracyAge = Never(MaxAge + MaxAccuracyAge)
    /\ main = "start" /\ seen = NoTransport /\ stopsLeft = 0 /\ notified = FALSE

-----------------------------------------------------------------------------
(* The reader: stream_fixes.                                               *)

ReaderAt(from, to) == reader = from /\ reader' = to

(* A step that changes nothing but where the reader is. *)
ReaderGoes(from, to) ==
    /\ ReaderAt(from, to)
    /\ UNCHANGED <<mine, lines, failed, accuracyAge, stop, active, open, fixVars, mainVars>>

(* The outer loop tests the stop event before it connects. *)
Loop == ReaderGoes("loop", IF stop THEN "done" ELSE "connect")

Connect ==
    /\ reader = "connect"
    /\ \/ \E t \in Transports \ (open \cup {seen}) :
             mine' = t /\ open' = open \cup {t} /\ reader' = "register"
       \/ reader' = "clear" /\ UNCHANGED <<mine, open>>
    /\ UNCHANGED <<lines, failed, accuracyAge, stop, active, fixVars, mainVars>>

(* _set_active_transport *)
Register ==
    /\ ReaderAt("register", "send")
    /\ active' = mine
    /\ UNCHANGED <<mine, lines, failed, accuracyAge, stop, open, fixVars, mainVars>>

(* settimeout and sendall; a socket that was closed gives an OSError.      *)
Send ==
    \/ mine \in open /\ ReaderGoes("send", "poll")
    \/ ReaderGoes("send", "clear")

(* Variant: the inner loop does not test the stop event. *)
PollAlways == ReaderGoes("poll", "recv")

(* The inner loop tests the stop event before it reads. *)
Poll == ReaderGoes("poll", IF stop THEN "clear" ELSE "recv")

Receive ==
    /\ ReaderAt("recv", "handle")
    /\ mine \in open
    /\ lines' \in 0..MaxLines
    /\ UNCHANGED <<mine, failed, accuracyAge, stop, active, open, fixVars, mainVars>>

ReceiveTimesOut == mine \in open /\ ReaderGoes("recv", "poll")

(* gpsd went away, or the main thread shut the socket down. *)
ReceiveEnds == ReaderGoes("recv", "clear")

(* Variant: an accuracy is used whatever its age. *)
HandleLineAnyAge(position, accuracy) ==
    /\ reader = "handle" /\ lines > 0 /\ lines' = lines - 1
    /\ LET age == IF accuracy THEN 0 ELSE accuracyAge
       IN  /\ accuracyAge' = age
           /\ IF position
                THEN fixAge' = 0 /\ fixAccuracyAge' = age /\ notified' = TRUE
                ELSE UNCHANGED <<fixVars, notified>>
    /\ UNCHANGED <<reader, mine, failed, stop, active, open, main, seen, stopsLeft>>

(* Variant: a stored fix wakes nobody. *)
HandleLineSilently(position, accuracy) ==
    /\ reader = "handle" /\ lines > 0 /\ lines' = lines - 1
    /\ LET age == IF accuracy THEN 0 ELSE accuracyAge
       IN  /\ accuracyAge' = age
           /\ IF position /\ age <= MaxAccuracyAge
                THEN fixAge' = 0 /\ fixAccuracyAge' = age
                ELSE UNCHANGED fixVars
    /\ UNCHANGED <<reader, mine, failed, stop, active, open, mainVars>>

(* _TpvState.update merges a TPV message, which may hold a position, an    *)
(* accuracy, both or neither; a complete fix goes to the cache by          *)
(* _store_fix, which notifies a waiting main thread.                       *)
HandleLine(position, accuracy) ==
    /\ reader = "handle" /\ lines > 0 /\ lines' = lines - 1
    /\ LET age == IF accuracy THEN 0 ELSE accuracyAge
       IN  /\ accuracyAge' = age
           /\ IF position /\ age <= MaxAccuracyAge
                THEN fixAge' = 0 /\ fixAccuracyAge' = age /\ notified' = TRUE
                ELSE UNCHANGED <<fixVars, notified>>
    /\ UNCHANGED <<reader, mine, failed, stop, active, open, main, seen, stopsLeft>>

ChunkHandled == lines = 0 /\ ReaderGoes("handle", "poll")

(* An exception that stream_fixes does not catch: _refresh logs it and the *)
(* thread ends, after the finally clause.                                  *)
ReaderFails ==
    /\ reader \in {"connect", "handle"} /\ reader' = "clear"
    /\ failed' = TRUE /\ lines' = 0
    /\ UNCHANGED <<mine, accuracyAge, stop, active, open, fixVars, mainVars>>

(* The finally clause: _clear_active_transport, then _close_transport.     *)
ClearActive ==
    /\ ReaderAt("clear", "close")
    /\ active' = IF active = mine THEN NoTransport ELSE active
    /\ UNCHANGED <<mine, lines, failed, accuracyAge, stop, open, fixVars, mainVars>>

(* Variant: a connection that gpsd ended is not closed. *)
CloseOnFailureOnly ==
    /\ ReaderAt("close", IF failed THEN "done" ELSE "delay")
    /\ open' = IF failed THEN open \ {mine} ELSE open
    /\ mine' = NoTransport
    /\ UNCHANGED <<lines, failed, accuracyAge, stop, active, fixVars, mainVars>>

Close ==
    /\ ReaderAt("close", IF failed THEN "done" ELSE "delay")
    /\ open' = open \ {mine} /\ mine' = NoTransport
    /\ UNCHANGED <<lines, failed, accuracyAge, stop, active, fixVars, mainVars>>

(* stop_event.wait(reconnect_delay_seconds) *)
Delay == ReaderGoes("delay", "loop")

-----------------------------------------------------------------------------
(* The main thread of Collection.                                          *)

MainAt(from, to) == main = from /\ main' = to

(* main waits for a first fix only when a fix is required. *)
Start ==
    /\ main = "start" /\ main' \in {"wait", "capture"}
    /\ ReaderAt("off", "loop")
    /\ stop' = FALSE
    /\ UNCHANGED <<mine, lines, failed, accuracyAge, active, open, fixVars,
                   seen, stopsLeft, notified>>

(* wait_for_fix holds the condition while it looks; without a fix it ends  *)
(* at its deadline, or sleeps.                                             *)
WaitForFix ==
    /\ main = "wait"
    /\ IF FreshFix
         THEN main' = "capture" /\ UNCHANGED <<stopsLeft, notified>>
         ELSE \/ main' = "stop_set" /\ stopsLeft' = 1 /\ UNCHANGED notified
              \/ main' = "sleep" /\ notified' = FALSE /\ UNCHANGED stopsLeft
    /\ UNCHANGED <<threadVars, stop, active, open, fixVars, seen>>

(* Notified, or the rest of the time is over. *)
Wake ==
    /\ MainAt("sleep", "wait")
    /\ UNCHANGED <<threadVars, stop, active, open, fixVars, seen, stopsLeft, notified>>

(* The end of _collect, for whatever reason; the finally clauses of        *)
(* _collect and of main both call stop, the first only once the interface  *)
(* was prepared.                                                           *)
EndCapture ==
    /\ MainAt("capture", "stop_set")
    /\ stopsLeft' \in {1, 2}
    /\ UNCHANGED <<threadVars, stop, active, open, fixVars, seen, notified>>

(* KeyboardInterrupt: the stop that was going on is given up, the one of   *)
(* the next finally clause follows.                                        *)
Interrupt ==
    /\ \/ main \in {"wait", "sleep"} /\ main' = "stop_set" /\ stopsLeft' = 1
       \/ /\ main \in Stopping
          /\ stopsLeft' = stopsLeft - 1
          /\ main' = IF stopsLeft = 1 THEN "ended" ELSE "stop_set"
    /\ seen' = NoTransport
    /\ UNCHANGED <<threadVars, stop, active, open, fixVars, notified>>

(* stop: set the event, read the active transport, close it, join.         *)
StopSet ==
    /\ MainAt("stop_set", "stop_read")
    /\ stop' = TRUE
    /\ UNCHANGED <<threadVars, active, open, fixVars, seen, stopsLeft, notified>>

StopRead ==
    /\ MainAt("stop_read", "stop_close")
    /\ seen' = active
    /\ UNCHANGED <<threadVars, stop, active, open, fixVars, stopsLeft, notified>>

StopClose ==
    /\ MainAt("stop_close", "stop_join")
    /\ open' = open \ {seen} /\ seen' = NoTransport
    /\ UNCHANGED <<threadVars, stop, active, fixVars, stopsLeft, notified>>

(* Variant: one finally clause too many. *)
StopJoinAgain ==
    /\ MainAt("stop_join", "stop_set")
    /\ stopsLeft' = stopsLeft - 1
    /\ UNCHANGED <<threadVars, stop, active, open, fixVars, seen, notified>>

(* The reader has ended, or the timeout of the join is over. *)
StopJoin ==
    /\ MainAt("stop_join", IF stopsLeft = 1 THEN "ended" ELSE "stop_set")
    /\ stopsLeft' = stopsLeft - 1
    /\ UNCHANGED <<threadVars, stop, active, open, fixVars, seen, notified>>

Tick ==
    /\ accuracyAge' = Older(accuracyAge, MaxAccuracyAge)
    /\ fixAge' = Older(fixAge, MaxAge)
    /\ fixAccuracyAge' = Older(fixAccuracyAge, MaxAge + MaxAccuracyAge)
    /\ UNCHANGED <<reader, mine, lines, failed, stop, active, open, mainVars>>

-----------------------------------------------------------------------------
ReaderStep ==
    \/ Loop \/ Connect \/ Register \/ Send \/ Poll
    \/ Receive \/ ReceiveTimesOut \/ ReceiveEnds
    \/ \E position, accuracy \in BOOLEAN : HandleLine(position, accuracy)
    \/ ChunkHandled \/ ClearActive \/ Close \/ Delay

MainStep ==
    \/ Start \/ WaitForFix \/ Wake \/ EndCapture
    \/ StopSet \/ StopRead \/ StopClose \/ StopJoin

Next == ReaderStep \/ ReaderFails \/ MainStep \/ Interrupt \/ Tick

Spec == Init /\ [][Next]_vars

(* Both threads are scheduled, and every blocking call has a timeout:      *)
(* connecting, receiving, the delay, the wait, the capture and the join.   *)
Fairness == WF_vars(ReaderStep) /\ WF_vars(MainStep)

FairSpec == Spec /\ Fairness

-----------------------------------------------------------------------------
(* Properties.                                                             *)

TypeOK ==
    /\ reader \in {"off", "loop", "connect", "register", "send", "poll", "recv",
                   "handle", "clear", "close", "delay", "done"}
    /\ mine \in Transports \cup {NoTransport}
    /\ lines \in 0..MaxLines /\ failed \in BOOLEAN
    /\ accuracyAge \in 0..Never(MaxAccuracyAge)
    /\ stop \in BOOLEAN
    /\ active \in Transports \cup {NoTransport}
    /\ open \subseteq Transports
    /\ fixAge \in 0..Never(MaxAge)
    /\ fixAccuracyAge \in 0..Never(MaxAge + MaxAccuracyAge)
    /\ main \in Stopping \cup {"start", "wait", "sleep", "capture", "ended"}
    /\ seen \in Transports \cup {NoTransport}
    /\ stopsLeft \in 0..2 /\ (main \in Stopping => stopsLeft > 0)
    /\ notified \in BOOLEAN

(* close "actively releases" a gpsd read: once stop has closed what it     *)
(* saw, the reader does not sit in recv on an open socket, although it may *)
(* have been connecting or reconnecting while stop looked.                 *)
ReadReleased == main = "stop_join" /\ reader = "recv" => mine \notin open

(* docs/phase-03-runtime-runbook.md: one gpsd connection is held open; a   *)
(* reconnect or a reader that ended leaves none behind.                    *)
OneConnection ==
    /\ open \subseteq {mine}
    /\ reader \in {"off", "loop", "connect", "delay", "done"} => active = NoTransport

(* The main thread does not sleep on a fresh fix: a fix stored while it    *)
(* was about to sleep, or asleep, has notified it.                         *)
NoMissedFix == main = "sleep" /\ ~notified => ~FreshFix

(* A fix that is handed out is made of a position and of an accuracy that  *)
(* was at most MaxAccuracyAge old when the position came, also when the    *)
(* two came in different messages or over different connections.           *)
FixIsConsistent == FreshFix => fixAccuracyAge <= fixAge + MaxAccuracyAge

(* Once it was told to stop the reader ends, whatever it was doing, also   *)
(* when stop itself was interrupted before it closed the socket.           *)
ReaderEnds == stop ~> reader = "done"
=============================================================================
