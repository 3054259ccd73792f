---------------------------- MODULE CaptureHost ----------------------------
(***************************************************************************)
(* The commands that change the capture card: Collection, which borrows it *)
(* (collection/cli.py, interface_manager.py, collector.py and the hopper   *)
(* thread of channel_hopper.py), and the persistent setup and teardown of  *)
(* monitor mode (monitor_setup.py).  One command runs at a time.  Any of   *)
(* its steps can fail, Ctrl-C can come before any step, and the host can   *)
(* lose power or the card be plugged in again at any time.                 *)
(***************************************************************************)
EXTENDS HostCommands

CONSTANTS
    MaxCommands,  \* bound on the commands started
    MaxFaults     \* bound on failures, interrupts, reboots and replugs

ASSUME BoundsAssumption == MaxCommands \in Nat /\ MaxFaults \in Nat

VARIABLES
    host,      \* the card and the system files
    command,   \* the command that runs, or "none"
    phase,     \* what it is doing
    left,      \* the steps left in this phase
    code,      \* the exit status it is heading for
    changed,   \* InterfaceManager._changed
    wasConnected, \* InterfaceManager._was_connected
    failed,    \* restore: did a step fail?
    \* The hopper thread.
    hopper, stop,
    \* History, for the properties.
    leftBy,    \* what left the hopper running: the join, or an interrupt before its stop
    excuses,   \* what went wrong where the command cannot help it
    last,      \* the command that ended last
    promise,   \* what the last successful setup or teardown left behind
    started, faults

commandVars == <<command, phase, left, code, changed, wasConnected, failed>>
hopperVars  == <<hopper, stop, leftBy>>
historyVars == <<excuses, last, promise>>
vars == <<host, commandVars, hopperVars, historyVars, started, faults>>

Prepare(connected) ==
    (IF connected THEN <<"disconnect">> ELSE <<>>)
    \o <<"unmanage", "down", "monitor", "up", "check_monitor">>

(* Variant: the card is not given back to NetworkManager. *)
RestoreUnmanaged == <<"down", "managed", "up", "check_managed">>

Restore  == <<"down", "managed", "up", "manage", "check_managed">>
Files    == <<"write_unit", "write_nm", "write_udev">>
Setup    == <<"unmanage", "reload_udev", "daemon_reload", "enable", "restart", "check_monitor">>

(* Variant: the files written before the failure stay. *)
RollbackKeepsFiles == <<"disable", "reload_udev", "daemon_reload", "down", "managed", "up", "manage">>

Rollback == <<"disable", "rm_nm", "rm_udev", "reload_udev", "daemon_reload",
              "down", "managed", "up", "manage">>

(* Variant: the service stays enabled. *)
TeardownKeepsService == Tail(Rollback) \o <<"check_managed">>

Teardown == <<"disable", "rm_nm", "rm_udev", "reload_udev", "daemon_reload",
              "down", "managed", "up", "manage", "check_managed">>

NoCommand ==
    [command |-> "none", exit |-> 0, touched |-> FALSE, excuses |-> {}, inTry |-> FALSE,
     hopperFailed |-> FALSE]

Init ==
    /\ host = FreshHost
    /\ command = "none" /\ phase = "idle" /\ left = <<>> /\ code = 0
    /\ changed = FALSE /\ wasConnected = FALSE /\ failed = FALSE
    /\ hopper = "off" /\ stop = FALSE /\ leftBy = "none"
    /\ excuses = {} /\ last = NoCommand /\ promise = "none" /\ started = 0 /\ faults = 0

-----------------------------------------------------------------------------
(* Helpers.                                                                *)

(* The command ends with this exit status; its threads die with it. *)
Exit(status, why) ==
    /\ command' = "none" /\ phase' = "idle" /\ left' = <<>> /\ code' = 0
    /\ changed' = FALSE /\ wasConnected' = FALSE /\ failed' = FALSE
    /\ hopper' = "off" /\ stop' = FALSE /\ leftBy' = "none" /\ excuses' = {}
    /\ last' = [command |-> command, exit |-> status, excuses |-> excuses \cup why,
                touched |-> changed \/ phase = "reconnect", inTry |-> phase # "files",
                hopperFailed |-> hopper = "failed" /\ leftBy = "none"]
    /\ promise' = CASE status = 0 /\ command = "setup"    -> "monitor"
                    [] status = 0 /\ command = "teardown" ->
                           IF "disable" \in excuses THEN "undisabled" ELSE "managed"
                    [] OTHER                              -> promise

Goto(p, steps) == phase' = p /\ left' = steps

Begin(c, p, steps) ==
    /\ command = "none" /\ started < MaxCommands
    /\ started' = started + 1
    /\ command' = c /\ Goto(p, steps) /\ code' = 0 /\ failed' = FALSE
    /\ last' = NoCommand /\ excuses' = {}
    /\ UNCHANGED <<host, faults>>

Fault == faults < MaxFaults /\ faults' = faults + 1

-----------------------------------------------------------------------------
(* Collection.                                                             *)

(* Variant: a card in monitor mode is taken over like any other. *)
BeginCollectAlways ==
    /\ changed' = TRUE /\ Begin("collect", "prepare", Prepare(host.connected))
    /\ wasConnected' = host.connected
    /\ UNCHANGED <<hopperVars, promise>>

(* InterfaceManager.prepare up to its first change.  A card that is the    *)
(* default route or carries the SSH session is refused, like one that is   *)
(* not in monitor mode without permission to change it; both leave the     *)
(* host alone, as does a GPS fix that does not come in time.               *)
BeginCollect ==
    /\ \/ host.type = "monitor" /\ changed' = FALSE /\ Begin("collect", "open", <<>>)
       \/ /\ host.type = "managed" /\ changed' = TRUE
          /\ Begin("collect", "prepare", Prepare(host.connected))
    /\ wasConnected' = host.connected
    /\ UNCHANGED <<hopperVars, promise>>

(* The buffer is opened, and the hopper thread is started if wanted; an    *)
(* error goes to the finally clause of _collect.                           *)
OpenCapture ==
    /\ phase = "open"
    /\ \/ Goto("hop", <<>>) /\ hopper' \in {"off", "test"} /\ UNCHANGED <<code, faults>>
       \/ Goto("gps", <<>>) /\ code' = 2 /\ Fault /\ UNCHANGED hopper
    /\ UNCHANGED <<host, command, changed, wasConnected, failed, stop, leftBy, historyVars, started>>

(* The try whose finally clause stops the hopper is entered only after the *)
(* thread was started; the sniffer starts.                                 *)
StartSniffer ==
    /\ phase = "hop" /\ Goto("capture", <<>>)
    /\ UNCHANGED <<host, command, code, changed, wasConnected, failed, hopperVars, historyVars,
                   started, faults>>

(* Variant: an error of the sniffer is not turned into a CollectionError,  *)
(* so that Python ends the command.                                        *)
EndCaptureUncaught ==
    /\ phase = "capture" /\ Goto("finally", <<>>)
    /\ \/ code' = 0 /\ UNCHANGED faults
       \/ code' = 1 /\ Fault
    /\ UNCHANGED <<host, command, changed, wasConnected, failed, hopperVars, historyVars, started>>

(* The sniffer's time is up, or an exception ends it: a packet that cannot *)
(* be parsed, written or given a fix, or an error of the sniffer.          *)
EndCapture ==
    /\ phase = "capture" /\ Goto("finally", <<>>)
    /\ \/ code' = 0 /\ UNCHANGED faults
       \/ code' = 2 /\ Fault
    /\ UNCHANGED <<host, command, changed, wasConnected, failed, hopperVars, historyVars, started>>

Hopping == hopper \in {"test", "tune", "wait"}

(* Variant: the stop event is not set. *)
StopHopperNot ==
    /\ phase = "finally" /\ Goto("join", <<>>)
    /\ UNCHANGED <<host, command, code, changed, wasConnected, failed, hopperVars, historyVars,
                   started, faults>>

(* The finally clause of run: stop_event.set(). *)
StopHopper ==
    /\ phase = "finally" /\ Goto("join", <<>>) /\ stop' = TRUE
    /\ UNCHANGED <<host, command, code, changed, wasConnected, failed, hopper, leftBy, historyVars,
                   started, faults>>

(* Variant: join() without a timeout. *)
JoinForever ==
    /\ phase = "join" /\ ~Hopping /\ Goto("gps", <<>>)
    /\ code' = IF code = 0 /\ hopper = "failed" THEN 2 ELSE code
    /\ UNCHANGED <<host, command, changed, wasConnected, failed, hopperVars, historyVars,
                   started, faults>>

(* Variant: the errors of the hopper are not looked at. *)
JoinOnly ==
    /\ phase = "join" /\ Goto("gps", <<>>)
    /\ leftBy' = IF Hopping THEN "join" ELSE leftBy
    /\ UNCHANGED <<host, command, code, changed, wasConnected, failed, hopper, stop, historyVars,
                   started, faults>>

(* hopper_thread.join(timeout=2.0), which returns whatever the hopper is   *)
(* doing; then the errors it has left by now are read, unless an exception *)
(* is on its way already.                                                  *)
Join ==
    /\ phase = "join" /\ Goto("gps", <<>>)
    /\ leftBy' = IF Hopping THEN "join" ELSE leftBy
    /\ code' = IF code = 0 /\ hopper = "failed" THEN 2 ELSE code
    /\ UNCHANGED <<host, command, changed, wasConnected, failed, hopper, stop, historyVars,
                   started, faults>>

(* The finally clause of _collect: the GPS provider stops (GpsCache), then *)
(* restore, which does nothing for a card that was not changed.            *)
StopGps ==
    /\ phase = "gps" /\ UNCHANGED <<host, started, faults>>
    /\ IF changed
         THEN /\ Goto("restore", Restore)
              /\ UNCHANGED <<command, code, changed, wasConnected, failed, hopperVars, historyVars>>
         ELSE Exit(code, {})

-----------------------------------------------------------------------------
(* The hopper: test the stop event, tune, wait on the stop event.          *)

HopperStep(from, to) ==
    /\ hopper = from /\ hopper' = to
    /\ UNCHANGED <<host, commandVars, leftBy, historyVars, started>>

HopperTests == HopperStep("test", IF stop THEN "done" ELSE "tune") /\ UNCHANGED <<stop, faults>>
HopperTunes == HopperStep("tune", "wait") /\ UNCHANGED <<stop, faults>>
HopperWaits == HopperStep("wait", IF stop THEN "done" ELSE "test") /\ UNCHANGED <<stop, faults>>
HopperFails == HopperStep("tune", "failed") /\ stop' = TRUE /\ Fault

Hop == HopperTests \/ HopperTunes \/ HopperWaits

-----------------------------------------------------------------------------
(* Setup and teardown, after their checks, which leave the host alone.     *)

BeginSetup ==
    /\ Begin("setup", "files", Files) /\ promise' = "none"
    /\ UNCHANGED <<changed, wasConnected, hopperVars>>

BeginTeardown ==
    /\ Begin("teardown", "teardown", Teardown) /\ promise' = "none"
    /\ UNCHANGED <<changed, wasConnected, hopperVars>>

-----------------------------------------------------------------------------
(* The steps of prepare, restore, setup, rollback and teardown.            *)

Stepping == {"prepare", "restore", "reconnect", "files", "setup", "rollback", "teardown"}

(* restore looks at the type only when all its commands succeeded. *)
SkipsCheck == phase = "restore" /\ failed /\ left = <<"check_managed">>

Succeed ==
    /\ phase \in Stepping /\ left # <<>> /\ ~SkipsCheck
    /\ CanSucceed(Head(left), host)
    /\ host' = Effect(Head(left), host)
    /\ left' = Tail(left)
    /\ UNCHANGED <<command, phase, code, changed, wasConnected, failed, hopperVars, historyVars,
                   started, faults>>

Continue(rest) ==
    /\ left' = rest
    /\ UNCHANGED <<command, phase, code, changed, wasConnected, failed, hopperVars, last, promise>>

(* What a failing step leads to. *)
OnFailure(step) ==
    CASE phase = "prepare" ->
            /\ Goto("restore", Restore) /\ code' = 2
            /\ UNCHANGED <<command, changed, wasConnected, failed, hopperVars, historyVars>>
      [] phase = "restore" ->
            /\ left' = Tail(left) /\ failed' = TRUE
            /\ excuses' = excuses \cup {"restore"}
            /\ UNCHANGED <<command, phase, code, changed, wasConnected, hopperVars, last, promise>>
      [] phase = "reconnect" -> Continue(<<>>) /\ UNCHANGED excuses
      [] phase = "files" -> Exit(2, {})
      [] phase = "setup" ->
            /\ Goto("rollback", Rollback)
            /\ UNCHANGED <<command, code, changed, wasConnected, failed, hopperVars, historyVars>>
      [] phase = "rollback" ->
            \/ /\ step \in {"disable", "reload_udev", "daemon_reload", "manage"}
               /\ Continue(Tail(left)) /\ excuses' = excuses \cup {"rollback"}
            \/ /\ step \in {"down", "managed", "up"}
               /\ Continue(<<"manage">>) /\ excuses' = excuses \cup {"rollback"}
            \/ step \in {"rm_nm", "rm_udev"} /\ Exit(2, {"rollback"})
      [] phase = "teardown" ->
            IF step = "disable"
              THEN Continue(Tail(left)) /\ excuses' = excuses \cup {"disable"}
              ELSE Exit(2, {})

(* A step fails without need, or because it cannot succeed. *)
Fail ==
    /\ phase \in Stepping /\ left # <<>> /\ ~SkipsCheck
    /\ \/ ~CanSucceed(Head(left), host) /\ UNCHANGED faults
       \/ CanSucceed(Head(left), host) /\ Fault
    /\ host' \in FailedEffects(Head(left), host)
    /\ OnFailure(Head(left))
    /\ UNCHANGED started

(* All steps of a phase are done. *)
Finish ==
    /\ phase \in Stepping
    /\ left = <<>> \/ SkipsCheck
    /\ CASE phase = "prepare" ->
              /\ Goto("open", <<>>)
              /\ UNCHANGED <<command, code, changed, wasConnected, failed, hopperVars, historyVars>>
         [] phase = "restore" /\ failed -> Exit(2, {})
         [] phase = "restore" /\ ~failed /\ wasConnected ->
              /\ Goto("reconnect", <<"connect">>) /\ changed' = FALSE
              /\ UNCHANGED <<command, code, wasConnected, failed, hopperVars, historyVars>>
         [] phase = "restore" /\ ~failed /\ ~wasConnected -> Exit(code, {})
         [] phase = "reconnect" -> Exit(code, {})
         [] phase = "files" ->
              /\ Goto("setup", Setup)
              /\ UNCHANGED <<command, code, changed, wasConnected, failed, hopperVars, historyVars>>
         [] phase \in {"setup", "teardown"} -> Exit(0, {})
         [] phase = "rollback" -> Exit(2, {})
    /\ UNCHANGED <<host, started, faults>>

-----------------------------------------------------------------------------
(* Ctrl-C, power loss, NetworkManager and the plug.                        *)

(* KeyboardInterrupt is not an Exception: only finally clauses see it.     *)
(* The sniffer may take it for the end of the capture.                     *)
Interrupt ==
    /\ command # "none" /\ Fault
    /\ CASE phase = "capture" ->
              /\ Goto("finally", <<>>) /\ code' \in {0, 130}
              /\ UNCHANGED <<command, changed, wasConnected, failed, hopperVars, historyVars>>
         [] phase \in {"open", "hop", "finally", "join"} ->
              /\ Goto("gps", <<>>) /\ code' = 130
              /\ leftBy' = CASE ~Hopping       -> leftBy
                             [] phase = "join" -> "join"
                             [] OTHER          -> "interrupt"
              /\ UNCHANGED <<command, changed, wasConnected, failed, hopper, stop, historyVars>>
         [] OTHER -> Exit(130, {"interrupt"})
    /\ UNCHANGED <<host, started>>

NetworkManagerConnects ==
    /\ host.nm /\ host.type = "managed" /\ host.up /\ ~host.connected
    /\ host' = [host EXCEPT !.connected = TRUE]
    /\ UNCHANGED <<commandVars, hopperVars, historyVars, started, faults>>

Reboot ==
    /\ Fault /\ UNCHANGED started
    /\ host' = Appeared(host, StartsAtBoot(host), ~host.nm_conf)
    /\ command' = "none" /\ phase' = "idle" /\ left' = <<>> /\ code' = 0
    /\ changed' = FALSE /\ wasConnected' = FALSE /\ failed' = FALSE
    /\ hopper' = "off" /\ stop' = FALSE /\ leftBy' = "none"
    /\ excuses' = {} /\ last' = NoCommand /\ UNCHANGED promise

(* NetworkManager has read its file only when it started after setup. *)
Replug ==
    /\ Fault
    /\ \E managed \in {TRUE, ~host.nm_conf} :
           host' = Appeared(host, host.unit /\ host.udev_rule, managed)
    /\ last' = NoCommand
    /\ excuses' = IF command = "none" THEN excuses ELSE excuses \cup {"replug"}
    /\ UNCHANGED <<commandVars, hopperVars, promise, started>>

-----------------------------------------------------------------------------
(* What the process does of itself. *)
Progress ==
    \/ OpenCapture \/ StartSniffer \/ EndCapture \/ StopHopper \/ Join \/ StopGps
    \/ Succeed \/ Fail \/ Finish

Next ==
    \/ BeginCollect \/ BeginSetup \/ BeginTeardown
    \/ Progress
    \/ Hop \/ HopperFails
    \/ Interrupt \/ NetworkManagerConnects \/ Reboot \/ Replug

(* The commands of the main thread return and the sniffer ends after its   *)
(* duration; nothing is asked of the hopper, whose iw may never return.    *)
Fairness == WF_vars(Progress)

Spec == Init /\ [][Next]_vars /\ Fairness

-----------------------------------------------------------------------------
Statuses == {0, 2, 130}
Excuses == {"restore", "rollback", "disable", "interrupt", "replug"}

(* Every variable has its type. *)
TypeOK ==
    /\ host \in Hosts
    /\ command \in {"none", "collect", "setup", "teardown"}
    /\ phase \in Stepping \cup {"idle", "open", "hop", "capture", "finally", "join", "gps"}
    /\ left \in Seq(Commands) /\ Len(left) <= Len(Teardown)
    /\ code \in Statuses
    /\ {changed, wasConnected, failed, stop} \subseteq BOOLEAN
    /\ hopper \in {"off", "test", "tune", "wait", "failed", "done"}
    /\ leftBy \in {"none", "interrupt", "join"}
    /\ excuses \subseteq Excuses
    /\ last \in [command: {"none", "collect", "setup", "teardown"}, exit: Statuses,
                 touched: BOOLEAN, excuses: SUBSET Excuses, inTry: BOOLEAN, hopperFailed: BOOLEAN]
    /\ promise \in {"none", "monitor", "managed", "undisabled"}
    /\ started \in 0..MaxCommands /\ faults \in 0..MaxFaults

HandedBack == host.type = "managed" /\ host.up /\ host.nm

(* A Collection that changed the card hands it back in managed mode, up    *)
(* and under NetworkManager: always when it reports success, and also when *)
(* it fails, unless a command of restore failed or Ctrl-C came outside the *)
(* capture (the finally clauses of _collect and prepare's own recovery).   *)
CardIsHandedBack ==
    last.command = "collect" /\ last.touched /\ (last.exit = 0 \/ last.excuses = {})
    /\ "replug" \notin last.excuses
        => HandedBack

(* After a successful setup the card is in monitor mode for good: after    *)
(* measurements, failing or interrupted ones too, reboots and replugs, up  *)
(* to the next setup or teardown.                                          *)
SetupHolds ==
    promise = "monitor" => host.type = "monitor" /\ host.up /\ StartsAtBoot(host)

(* A teardown that reports success has removed the NetworkManager and udev *)
(* files, and through measurements, failing or interrupted ones too,       *)
(* reboots and replugs they stay away.  The service may still start at     *)
(* boot, but only when the "systemctl disable" of that teardown failed,    *)
(* which it ignores.                                                       *)
TeardownHolds ==
    /\ promise \in {"managed", "undisabled"} => ~host.nm_conf /\ ~host.udev_rule
    /\ promise = "managed" => ~StartsAtBoot(host)

(* The roll-back, like teardown, leaves the unit: a template that starts   *)
(* nothing of itself.                                                      *)
RolledBack == ~StartsAtBoot(host) /\ ~host.nm_conf /\ HandedBack

(* A setup that fails after its files were written takes everything back,  *)
(* unless a command of the rollback fails too, whatever was set up before. *)
FailedSetupRolledBack ==
    last.command = "setup" /\ last.exit = 2 /\ last.excuses = {} /\ last.inTry => RolledBack

(* The runbook: a failing setup takes its partial configuration back. *)
PartialSetupIsUndone ==
    last.command = "setup" /\ last.exit = 2 /\ last.excuses = {} => RolledBack

(* From the end of the capture on the hopper starts no further command,    *)
(* however long its last one takes and whenever the join gives up, so that *)
(* none of them meets the commands that give the card back.  Only Ctrl-C   *)
(* before the stop event is set, between the start of the thread and the   *)
(* try or at the entry of its finally clause, leaves it hopping.           *)
HopperStopsTuning ==
    [][hopper # "tune" /\ hopper' = "tune" /\ phase \in {"join", "gps", "restore", "reconnect"}
           => leftBy = "interrupt"]_vars

(* A Collection whose hopper died, so that it listened on one channel from *)
(* then on, does not report success, unless the join gave the hopper up.   *)
HopperDeathIsReported == ~(last.command = "collect" /\ last.exit = 0 /\ last.hopperFailed)

(* Every command ends. *)
CommandEnds == command # "none" ~> command = "none"

=============================================================================
