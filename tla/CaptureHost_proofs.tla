------------------------- MODULE CaptureHost_proofs -------------------------
(***************************************************************************)
(* What the commands that change the capture card guarantee, for every     *)
(* number of commands, failures, interrupts, reboots and replugs.          *)
(***************************************************************************)
EXTENDS CaptureHost, TLAPS

(* l is what is left of the steps s. *)
IsRest(l, s) ==
    /\ l \in Seq(Commands) /\ Len(l) <= Len(s)
    /\ \A i \in 1..Len(l) : l[i] = s[Len(s) - Len(l) + i]

(* What the steps of a phase have done when n of them are left. *)
RestoreDone(n, h)  == (n <= 3 => h.type = "managed") /\ (n <= 2 => h.up) /\ (n <= 1 => h.nm)
FilesDone(n, h)    == (n <= 2 => h.unit) /\ (n = 0 => h.udev_rule)
SetupDone(n, h)    == h.unit /\ h.udev_rule /\ (n <= 1 => h.type = "monitor" /\ h.up)
RollbackDone(n, h) ==
    /\ n <= 8 => ~h.enabled
    /\ n <= 7 => ~h.nm_conf
    /\ n <= 6 => ~h.udev_rule
    /\ n <= 2 => h.type = "managed"
    /\ n <= 1 => h.up
    /\ n = 0 => h.nm
TeardownDone(n, h, ex) ==
    /\ n <= 9 => ~h.enabled \/ "disable" \in ex
    /\ n <= 8 => ~h.nm_conf
    /\ n <= 7 => ~h.udev_rule

(* The commands that Collection uses: they leave the system files alone. *)
CardCommands ==
    {"disconnect", "connect", "unmanage", "manage", "down", "up", "monitor", "managed",
     "check_monitor", "check_managed"}

(***************************************************************************)
(* The inductive invariant, in parts.                                      *)
(***************************************************************************)
CollectPhases ==
    {"prepare", "open", "hop", "capture", "finally", "join", "gps", "restore", "reconnect"}

(* Each command is in one of its phases, and has reported nothing yet. *)
ControlInv ==
    /\ command = "none" => phase = "idle"
    /\ command = "collect" => phase \in CollectPhases
    /\ command = "setup" => phase \in {"files", "setup", "rollback"}
    /\ command = "teardown" => phase = "teardown"
    /\ command # "none" => last = NoCommand
    /\ changed => command = "collect" /\ phase # "reconnect"
    /\ phase \in {"prepare", "restore"} => changed
    /\ failed => phase = "restore" /\ "restore" \in excuses

(* The hopper runs from its start to the exit.  From the join on it has    *)
(* the stop event, unless an interrupt left it before that was set; after  *)
(* the join it is done, or known to be left, or the error it left is in    *)
(* the exit status.                                                        *)
HopperInv ==
    /\ hopper # "off" =>
          phase \in {"hop", "capture", "finally", "join", "gps", "restore", "reconnect"}
    /\ leftBy # "none" => phase \in {"gps", "restore", "reconnect"}
    /\ phase \in {"join", "gps", "restore", "reconnect"} => ~Hopping \/ stop \/ leftBy = "interrupt"
    /\ phase \in {"gps", "restore", "reconnect"} =>
          /\ ~Hopping \/ leftBy # "none"
          /\ code = 0 /\ hopper = "failed" => leftBy # "none"

(* What is left of each phase, and what it has done. *)
StepsInv ==
    LET n == Len(left)
    IN  /\ phase \in {"prepare", "restore", "reconnect"} => left \in Seq(CardCommands)
        /\ phase = "restore" => IsRest(left, Restore)
        /\ phase = "restore" /\ ~failed /\ "replug" \notin excuses => RestoreDone(n, host)
        /\ phase = "reconnect" => left = <<>> \/ left = <<"connect">>
        /\ phase = "reconnect" /\ "replug" \notin excuses => HandedBack
        /\ phase = "files" => IsRest(left, Files) /\ FilesDone(n, host)
        /\ phase = "setup" => IsRest(left, Setup) /\ SetupDone(n, host)
        /\ phase = "rollback" /\ excuses = {} => IsRest(left, Rollback) /\ RollbackDone(n, host)
        /\ phase = "teardown" => IsRest(left, Teardown) /\ TeardownDone(n, host, excuses)

(* A Collection that runs under a promise of monitor mode has not changed  *)
(* the card; setup and teardown take the promise back while they run.      *)
PromiseInv ==
    /\ command \in {"setup", "teardown"} => promise = "none"
    /\ promise = "monitor" =>
          /\ host.type = "monitor" /\ host.up /\ host.unit /\ host.udev_rule
          /\ ~changed /\ phase # "reconnect"
    /\ promise \in {"managed", "undisabled"} => ~host.udev_rule /\ ~host.nm_conf
    /\ promise = "managed" => ~host.enabled

ReportsInv == CardIsHandedBack /\ FailedSetupRolledBack /\ HopperDeathIsReported

HostInv == TypeOK /\ ControlInv /\ HopperInv /\ StepsInv /\ PromiseInv /\ ReportsInv

-----------------------------------------------------------------------------
(* Sequences of steps.                                                     *)

(* Taking the next step off the rest of a phase leaves the rest, one       *)
(* shorter.                                                                *)
LEMMA RestGoesOn ==
    ASSUME NEW l, NEW s \in Seq(Commands), IsRest(l, s), l # <<>>
    PROVE  /\ IsRest(Tail(l), s)
           /\ Len(l) \in 1..Len(s) /\ Len(Tail(l)) = Len(l) - 1
           /\ Head(l) = s[Len(s) - Len(l) + 1] /\ Len(s) - Len(l) + 1 \in 1..Len(s)
BY DEF IsRest

(* A phase starts with all of its steps left. *)
LEMMA WholeIsRest == \A s \in Seq(Commands) : IsRest(s, s)
BY DEF IsRest

(* The lists of steps are lists of commands, of these lengths. *)
LEMMA StepLists ==
    /\ Restore \in Seq(CardCommands) /\ Restore \in Seq(Commands) /\ Len(Restore) = 5
    /\ Files \in Seq(Commands) /\ Len(Files) = 3
    /\ Setup \in Seq(Commands) /\ Len(Setup) = 6
    /\ Rollback \in Seq(Commands) /\ Len(Rollback) = 9
    /\ Teardown \in Seq(Commands) /\ Len(Teardown) = 10
    /\ <<>> \in Seq(Commands) /\ Len(<<>>) <= Len(Teardown)
<1>1. Restore \in Seq(CardCommands) /\ Restore \in Seq(Commands) /\ Len(Restore) = 5
  BY DEF Restore, CardCommands, Commands
<1>2. Files \in Seq(Commands) /\ Len(Files) = 3 /\ Setup \in Seq(Commands) /\ Len(Setup) = 6
  BY DEF Files, Setup, Commands
<1>3. Rollback \in Seq(Commands) /\ Len(Rollback) = 9
  BY DEF Rollback, Commands
<1>4. Teardown \in Seq(Commands) /\ Len(Teardown) = 10
  BY DEF Teardown, Commands
<1>5. <<>> \in Seq(Commands) /\ Len(<<>>) <= Len(Teardown)
  BY <1>4
<1> QED
  BY <1>1, <1>2, <1>3, <1>4, <1>5

(* prepare uses the commands of a Collection only. *)
LEMMA PrepareSteps ==
    ASSUME NEW connected
    PROVE  Prepare(connected) \in Seq(CardCommands) /\ Len(Prepare(connected)) <= 10
<1>1. /\ <<"disconnect">> \in Seq(CardCommands) /\ <<>> \in Seq(CardCommands)
      /\ <<"unmanage", "down", "monitor", "up", "check_monitor">> \in Seq(CardCommands)
  BY DEF CardCommands
<1>2. \A s, t \in Seq(CardCommands) : s \o t \in Seq(CardCommands) /\ Len(s \o t) = Len(s) + Len(t)
  OBVIOUS
<1> QED
  BY <1>1, <1>2 DEF Prepare

-----------------------------------------------------------------------------
(* The host.                                                               *)

(* Starting and stopping the service gives a host again. *)
LEMMA UnitTypes ==
    ASSUME NEW h \in Hosts
    PROVE  Started(h) \in Hosts /\ Stopped(h) \in Hosts
<1>1. Started(h) \in Hosts
  BY DEF Hosts, Started
<1>2. Stopped(h) \in Hosts
  BY DEF Hosts, Stopped
<1> QED
  BY <1>1, <1>2

(* Every command gives a host again. *)
LEMMA EffectType ==
    ASSUME NEW h \in Hosts, NEW c \in Commands
    PROVE  Effect(c, h) \in Hosts
<1>1. CASE c = "restart"
  BY <1>1, UnitTypes DEF Effect
<1>10. CASE c = "disable"
  <2>1. \A s \in Hosts : [s EXCEPT !.enabled = FALSE] \in Hosts
    BY DEF Hosts
  <2> QED
    BY <1>10, <2>1, UnitTypes DEF Effect
<1>2. CASE c \in {"disconnect", "connect"}
  BY <1>2 DEF Effect, Hosts
<1>3. CASE c \in {"unmanage", "manage"}
  BY <1>3 DEF Effect, Hosts
<1>4. CASE c \in {"down", "up"}
  BY <1>4 DEF Effect, Hosts
<1>5. CASE c \in {"monitor", "managed"}
  BY <1>5 DEF Effect, Hosts
<1>6. CASE c \in {"write_unit", "write_nm"}
  BY <1>6 DEF Effect, Hosts
<1>7. CASE c \in {"write_udev", "rm_nm"}
  BY <1>7 DEF Effect, Hosts
<1>8. CASE c \in {"rm_udev", "enable"}
  BY <1>8 DEF Effect, Hosts
<1>9. CASE c \in {"check_monitor", "check_managed", "reload_udev", "daemon_reload"}
  BY <1>9 DEF Effect
<1> QED
  BY <1>1, <1>2, <1>3, <1>4, <1>5, <1>6, <1>7, <1>8, <1>9, <1>10 DEF Commands

(* A command that fails gives a host again, the same one unless the        *)
(* command can do a part of its work.                                      *)
LEMMA FailedEffectKeeps ==
    ASSUME NEW h \in Hosts, NEW c \in Commands, NEW g \in FailedEffects(c, h)
    PROVE  /\ g \in Hosts
           /\ c \notin {"write_unit", "write_nm", "write_udev", "enable", "restart", "disable"} => g = h
<1>1. CASE c \in {"write_unit", "write_nm", "write_udev", "enable"}
  <2>1. g \in {h, Effect(c, h)}
    BY <1>1 DEF FailedEffects
  <2> QED
    BY <1>1, <2>1, EffectType
<1>2. CASE c = "restart"
  <2>1. \/ g = h \/ g = [h EXCEPT !.active = FALSE] \/ g = [Stopped(h) EXCEPT !.active = FALSE]
        \/ \E t \in {"managed", "monitor"} :
              g = [h EXCEPT !.type = t, !.up = FALSE, !.connected = FALSE, !.active = FALSE]
    BY <1>2 DEF FailedEffects
  <2>2. \A k \in Hosts : [k EXCEPT !.active = FALSE] \in Hosts
    BY DEF Hosts
  <2>3. \A t \in {"managed", "monitor"} :
           [h EXCEPT !.type = t, !.up = FALSE, !.connected = FALSE, !.active = FALSE] \in Hosts
    BY DEF Hosts
  <2>4. g \in Hosts
    BY <2>1, <2>2, <2>3, UnitTypes
  <2> QED
    BY <1>2, <2>4
<1>3. CASE c = "disable"
  <2>1. \/ g = h \/ g = [h EXCEPT !.enabled = FALSE]
        \/ \E t \in {h.type, "managed"} :
              g = [h EXCEPT !.enabled = FALSE, !.active = FALSE, !.type = t, !.up = FALSE,
                            !.connected = FALSE]
    BY <1>3 DEF FailedEffects
  <2>2. [h EXCEPT !.enabled = FALSE] \in Hosts
    BY DEF Hosts
  <2>3. \A t \in {h.type, "managed"} :
           [h EXCEPT !.enabled = FALSE, !.active = FALSE, !.type = t, !.up = FALSE,
                     !.connected = FALSE] \in Hosts
    BY DEF Hosts
  <2>4. g \in Hosts
    BY <2>1, <2>2, <2>3
  <2> QED
    BY <1>3, <2>4
<1>4. CASE c \notin {"write_unit", "write_nm", "write_udev", "enable", "restart", "disable"}
  <2>1. g = h
    BY <1>4 DEF FailedEffects
  <2> QED
    BY <2>1
<1> QED
  BY <1>1, <1>2, <1>3, <1>4

(* A card that appears finds the system files unchanged, and is in monitor *)
(* mode when the service starts for it.                                    *)
LEMMA AppearedKeeps ==
    ASSUME NEW h \in Hosts, NEW starts \in BOOLEAN, NEW managed \in BOOLEAN
    PROVE  LET g == Appeared(h, starts, managed)
           IN  /\ g \in Hosts
               /\ g.unit = h.unit /\ g.nm_conf = h.nm_conf /\ g.udev_rule = h.udev_rule
               /\ g.enabled = h.enabled
               /\ starts => g.type = "monitor" /\ g.up
BY DEF Appeared, Started, Hosts

(* Each command, by what it changes of the host. *)
LEMMA EffectOf ==
    ASSUME NEW h \in Hosts, NEW c \in Commands
    PROVE  LET g == Effect(c, h)
           IN  /\ c = "managed" => g.type = "managed"
               /\ c \notin {"monitor", "managed", "restart", "disable"} => g.type = h.type
               /\ c = "up" => g.up
               /\ c \notin {"down", "up", "restart", "disable"} => g.up = h.up
               /\ c = "restart" => g.type = "monitor" /\ g.up
               /\ c = "manage" => g.nm
               /\ c \notin {"manage", "unmanage"} => g.nm = h.nm
               /\ c = "write_unit" => g.unit
               /\ c # "write_unit" => g.unit = h.unit
               /\ c = "rm_nm" => ~g.nm_conf
               /\ c \notin {"rm_nm", "write_nm"} => g.nm_conf = h.nm_conf
               /\ c = "write_udev" => g.udev_rule
               /\ c = "rm_udev" => ~g.udev_rule
               /\ c \notin {"write_udev", "rm_udev"} => g.udev_rule = h.udev_rule
               /\ c = "disable" => ~g.enabled
               /\ c \notin {"enable", "disable"} => g.enabled = h.enabled
<1>1. CASE c \in {"disconnect", "connect", "unmanage", "manage"}
  BY <1>1 DEF Effect, Hosts
<1>2. CASE c \in {"down", "up"}
  BY <1>2 DEF Effect, Hosts
<1>3. CASE c \in {"monitor", "managed"}
  BY <1>3 DEF Effect, Hosts
<1>4. CASE c \in {"write_unit", "write_nm", "write_udev"}
  BY <1>4 DEF Effect, Hosts
<1>5. CASE c \in {"rm_nm", "rm_udev", "enable"}
  BY <1>5 DEF Effect, Hosts
<1>6. CASE c \in {"check_monitor", "check_managed", "reload_udev", "daemon_reload"}
  BY <1>6 DEF Effect
<1>7. CASE c \in {"restart"}
  BY <1>7 DEF Effect, Started, Hosts
<1>8. CASE c \in {"disable"}
  BY <1>8 DEF Effect, Stopped, Hosts
<1> QED
  BY <1>1, <1>2, <1>3, <1>4, <1>5, <1>6, <1>7, <1>8 DEF Commands

(* One step of each phase, with n steps left before it. *)
LEMMA RestoreProceeds ==
    ASSUME NEW h \in Hosts, NEW n \in 1..5, RestoreDone(n, h)
    PROVE  RestoreDone(n - 1, Effect(Restore[6 - n], h))
<1> DEFINE c == Restore[6 - n]
<1>1. /\ c \in Commands
      /\ n = 5 => c = "down"
      /\ n = 4 => c = "managed"
      /\ n = 3 => c = "up"
      /\ n = 2 => c = "manage"
      /\ n = 1 => c = "check_managed"
  BY DEF Restore, Commands
<1> HIDE DEF c
<1>2. RestoreDone(n - 1, Effect(c, h))
  BY <1>1, EffectOf DEF RestoreDone
<1> QED
  BY <1>2 DEF c

(* The next file that setup writes adds to what is done. *)
LEMMA FilesProceed ==
    ASSUME NEW h \in Hosts, NEW n \in 1..3, FilesDone(n, h)
    PROVE  FilesDone(n - 1, Effect(Files[4 - n], h))
<1> DEFINE c == Files[4 - n]
<1>1. /\ c \in Commands
      /\ n = 3 => c = "write_unit"
      /\ n = 2 => c = "write_nm"
      /\ n = 1 => c = "write_udev"
  BY DEF Files, Commands
<1> HIDE DEF c
<1>2. FilesDone(n - 1, Effect(c, h))
  BY <1>1, EffectOf DEF FilesDone
<1> QED
  BY <1>2 DEF c

(* The next command of setup keeps the files, and from the restart on the  *)
(* card is in monitor mode.                                                *)
LEMMA SetupProceeds ==
    ASSUME NEW h \in Hosts, NEW n \in 1..6, SetupDone(n, h)
    PROVE  SetupDone(n - 1, Effect(Setup[7 - n], h))
<1> DEFINE c == Setup[7 - n]
<1>1. /\ c \in Commands
      /\ n = 6 => c = "unmanage"
      /\ n = 5 => c = "reload_udev"
      /\ n = 4 => c = "daemon_reload"
      /\ n = 3 => c = "enable"
      /\ n = 2 => c = "restart"
      /\ n = 1 => c = "check_monitor"
  BY DEF Setup, Commands
<1> HIDE DEF c
<1>2. SetupDone(n - 1, Effect(c, h))
  BY <1>1, EffectOf DEF SetupDone
<1> QED
  BY <1>2 DEF c

(* The next step of the roll-back adds to what is taken back. *)
LEMMA RollbackProceeds ==
    ASSUME NEW h \in Hosts, NEW n \in 1..9, RollbackDone(n, h)
    PROVE  RollbackDone(n - 1, Effect(Rollback[10 - n], h))
<1> DEFINE c == Rollback[10 - n]
<1>1. /\ c \in Commands
      /\ n = 9 => c = "disable"
      /\ n = 8 => c = "rm_nm"
      /\ n = 7 => c = "rm_udev"
      /\ n = 6 => c = "reload_udev"
      /\ n = 5 => c = "daemon_reload"
      /\ n = 4 => c = "down"
      /\ n = 3 => c = "managed"
      /\ n = 2 => c = "up"
      /\ n = 1 => c = "manage"
  BY DEF Rollback, Commands
<1> HIDE DEF c
<1>2. RollbackDone(n - 1, Effect(c, h))
  BY <1>1, EffectOf DEF RollbackDone
<1> QED
  BY <1>2 DEF c

(* The next step of teardown adds to what is taken back. *)
LEMMA TeardownProceeds ==
    ASSUME NEW h \in Hosts, NEW n \in 1..10, NEW ex, TeardownDone(n, h, ex)
    PROVE  TeardownDone(n - 1, Effect(Teardown[11 - n], h), ex)
<1> DEFINE c == Teardown[11 - n]
<1>1. /\ c \in Commands
      /\ n = 10 => c = "disable"
      /\ n = 9 => c = "rm_nm"
      /\ n = 8 => c = "rm_udev"
      /\ n = 7 => c = "reload_udev"
      /\ n = 6 => c = "daemon_reload"
      /\ n = 5 => c = "down"
      /\ n = 4 => c = "managed"
      /\ n = 3 => c = "up"
      /\ n = 2 => c = "manage"
      /\ n = 1 => c = "check_managed"
  BY DEF Teardown, Commands
<1> HIDE DEF c
<1>2. TeardownDone(n - 1, Effect(c, h), ex)
  BY <1>1, EffectOf DEF TeardownDone
<1> QED
  BY <1>2 DEF c

-----------------------------------------------------------------------------
(* Parts of steps.                                                         *)

(* While a command runs nothing has been reported. *)
LEMMA NothingReported == last' = NoCommand => ReportsInv'
BY DEF NoCommand, ReportsInv, CardIsHandedBack, FailedSetupRolledBack, HopperDeathIsReported

(* The end of a command, with what it has to show for its exit status. *)
LEMMA ExitStep ==
    ASSUME HostInv, NEW status \in Statuses, NEW why \in SUBSET Excuses, Exit(status, why),
           host' \in Hosts, host' # host => phase = "files" /\ status = 2,
           started' = started, faults' \in 0..MaxFaults,
           command = "collect" /\ status = 0 =>
               code = 0 /\ phase \in {"gps", "restore", "reconnect"},
           command = "collect" /\ (changed \/ phase = "reconnect") /\ "replug" \notin excuses
               /\ (status = 0 \/ excuses \cup why = {}) => HandedBack,
           command = "setup" /\ status = 2 /\ excuses \cup why = {} /\ phase # "files" => RolledBack,
           command = "setup" /\ status = 0 => SetupDone(0, host),
           command = "teardown" /\ status = 0 => TeardownDone(0, host, excuses)
    PROVE  HostInv'
<1>0. TypeOK /\ ControlInv /\ HopperInv /\ PromiseInv
  BY DEF HostInv
<1>1. /\ command' = "none" /\ phase' = "idle" /\ left' = <<>> /\ code' = 0
      /\ changed' = FALSE /\ wasConnected' = FALSE /\ failed' = FALSE
      /\ hopper' = "off" /\ stop' = FALSE /\ leftBy' = "none" /\ excuses' = {}
  BY DEF Exit
<1>2. last' = [command |-> command, exit |-> status, excuses |-> excuses \cup why,
               touched |-> changed \/ phase = "reconnect", inTry |-> phase # "files",
               hopperFailed |-> hopper = "failed" /\ leftBy = "none"]
  BY DEF Exit
<1>3. /\ promise' \in {promise, "monitor", "managed", "undisabled"}
      /\ promise' = promise \/ command \in {"setup", "teardown"}
      /\ promise' = "monitor" /\ promise # "monitor" => command = "setup" /\ status = 0
      /\ promise' \in {"managed", "undisabled"} /\ promise' # promise =>
            command = "teardown" /\ status = 0 /\ (promise' = "managed" => "disable" \notin excuses)
  BY DEF Exit
<1>3a. host' = host \/ (command = "setup" /\ phase = "files" /\ status = 2)
  BY <1>0 DEF ControlInv, CollectPhases, TypeOK
<1>4. TypeOK'
  <2>1. last' \in [command: {"none", "collect", "setup", "teardown"}, exit: Statuses,
                   touched: BOOLEAN, excuses: SUBSET Excuses, inTry: BOOLEAN,
                   hopperFailed: BOOLEAN]
    BY <1>0, <1>2 DEF TypeOK
  <2>2. {changed, wasConnected, failed, stop}' \subseteq BOOLEAN
    BY <1>1
  <2> QED
    BY <1>0, <1>1, <1>3, <2>1, <2>2, StepLists DEF TypeOK, Statuses
<1>5. ControlInv' /\ HopperInv' /\ StepsInv'
  BY <1>1 DEF ControlInv, HopperInv, StepsInv
<1>6. PromiseInv'
  <2>1. CASE host' = host
    BY <1>0, <1>1, <1>3, <2>1 DEF PromiseInv, SetupDone, TeardownDone
  <2>2. CASE command = "setup" /\ status = 2
    <3>1. promise' = "none"
      BY <1>0, <2>2 DEF Exit, PromiseInv
    <3> QED
      BY <1>1, <3>1 DEF PromiseInv
  <2> QED
    BY <1>3a, <2>1, <2>2
<1>7. ReportsInv'
  <2>1. CardIsHandedBack'
    BY <1>2, <1>3a DEF CardIsHandedBack, HandedBack
  <2>2. FailedSetupRolledBack'
    BY <1>2, <1>3a DEF FailedSetupRolledBack, RolledBack, HandedBack
  <2>3. HopperDeathIsReported'
    BY <1>0, <1>2 DEF HopperDeathIsReported, HopperInv
  <2> QED
    BY <2>1, <2>2, <2>3 DEF ReportsInv
<1> QED
  BY <1>4, <1>5, <1>6, <1>7 DEF HostInv

(* Steps of the capture leave the host alone. *)
LEMMA CaptureMoves ==
    ASSUME HostInv, phase \in {"open", "hop", "capture", "finally", "join"},
           phase' \in {"hop", "capture", "finally", "join", "gps"},
           UNCHANGED <<host, command, changed, failed, last, promise, excuses>>,
           TypeOK', HopperInv'
    PROVE  HostInv'
<1>1. ControlInv'
  BY DEF HostInv, ControlInv, TypeOK, CollectPhases
<1>2. StepsInv' /\ PromiseInv'
  BY DEF HostInv, StepsInv, PromiseInv
<1>3. ReportsInv'
  BY DEF HostInv, ReportsInv, CardIsHandedBack, FailedSetupRolledBack, HopperDeathIsReported,
         RolledBack, HandedBack
<1> QED
  BY <1>1, <1>2, <1>3 DEF HostInv

(* Steps of the hopper thread leave everything else alone. *)
LEMMA HopperMoves ==
    ASSUME HostInv, UNCHANGED <<host, commandVars, leftBy, historyVars, started>>,
           hopper \in {"test", "tune", "wait"}, hopper' \in {"test", "tune", "wait", "done", "failed"},
           stop' \in BOOLEAN, stop => stop', faults' \in 0..MaxFaults
    PROVE  HostInv'
<1>1. TypeOK'
  BY DEF HostInv, TypeOK, commandVars, historyVars
<1>2. ControlInv' /\ StepsInv' /\ PromiseInv'
  BY DEF HostInv, ControlInv, StepsInv, PromiseInv, IsRest, RestoreDone, FilesDone, SetupDone,
         RollbackDone, TeardownDone, HandedBack, commandVars, historyVars
<1>3. HopperInv'
  BY DEF HostInv, HopperInv, Hopping, commandVars
<1>4. ReportsInv'
  BY DEF HostInv, ReportsInv, CardIsHandedBack, FailedSetupRolledBack, HopperDeathIsReported,
         RolledBack, HandedBack, historyVars
<1> QED
  BY <1>1, <1>2, <1>3, <1>4 DEF HostInv

-----------------------------------------------------------------------------
(* Commands begin.                                                         *)

(* Starting a command preserves the invariant. *)
LEMMA BeginStep ==
    ASSUME HostInv, BeginCollect \/ BeginSetup \/ BeginTeardown
    PROVE  HostInv'
<1>0. TypeOK /\ ControlInv /\ HopperInv /\ PromiseInv
  BY DEF HostInv
<1>1. PICK c, p, steps :
          /\ Begin(c, p, steps)
          /\ \/ c = "collect" /\ p = "open" /\ steps = <<>> /\ changed' = FALSE
                /\ wasConnected' = host.connected /\ promise' = promise
             \/ c = "collect" /\ p = "prepare" /\ steps = Prepare(host.connected) /\ changed' = TRUE
                /\ wasConnected' = host.connected /\ promise' = promise /\ host.type = "managed"
             \/ c = "setup" /\ p = "files" /\ steps = Files /\ promise' = "none"
                /\ UNCHANGED <<changed, wasConnected>>
             \/ c = "teardown" /\ p = "teardown" /\ steps = Teardown /\ promise' = "none"
                /\ UNCHANGED <<changed, wasConnected>>
          /\ UNCHANGED hopperVars
  BY DEF BeginCollect, BeginSetup, BeginTeardown
<1>2. /\ command = "none" /\ phase = "idle" /\ command' = c /\ phase' = p /\ left' = steps
      /\ code' = 0 /\ failed' = FALSE /\ last' = NoCommand /\ excuses' = {}
      /\ host' = host /\ faults' = faults /\ started' \in 0..MaxCommands
      /\ hopper = "off" /\ hopper' = "off" /\ ~changed
      /\ leftBy' = "none" /\ stop' = stop
  <2>1. command = "none" /\ phase = "idle" /\ hopper = "off" /\ leftBy = "none" /\ ~changed
    BY <1>0, <1>1 DEF Begin, ControlInv, HopperInv
  <2> QED
    BY <1>0, <1>1, <2>1, BoundsAssumption DEF Begin, Goto, TypeOK, hopperVars
<1>3. host.connected \in BOOLEAN
  BY <1>0 DEF TypeOK, Hosts
<1>4. Prepare(host.connected) \in Seq(Commands) /\ Len(Prepare(host.connected)) <= Len(Teardown)
  BY PrepareSteps, StepLists DEF CardCommands, Commands
<1>5. TypeOK'
  <2>1. left' \in Seq(Commands) /\ Len(left') <= Len(Teardown)
    <3>1. left' = <<>> \/ left' = Prepare(host.connected) \/ left' = Files \/ left' = Teardown
      BY <1>1, <1>2
    <3>2. Len(Files) <= Len(Teardown) /\ Len(Teardown) <= Len(Teardown)
      BY StepLists
    <3> QED
      BY <1>4, <3>1, <3>2, StepLists, Zenon
  <2>2. last' \in [command: {"none", "collect", "setup", "teardown"}, exit: Statuses,
                   touched: BOOLEAN, excuses: SUBSET Excuses, inTry: BOOLEAN,
                   hopperFailed: BOOLEAN]
    BY <1>2 DEF NoCommand, Statuses
  <2>3. {changed, wasConnected, failed, stop}' \subseteq BOOLEAN
    BY <1>0, <1>1, <1>2, <1>3 DEF TypeOK, hopperVars
  <2> QED
    BY <1>0, <1>1, <1>2, <2>1, <2>2, <2>3 DEF TypeOK, Statuses, Stepping
<1>6. ControlInv' /\ HopperInv'
  BY <1>1, <1>2 DEF ControlInv, HopperInv, CollectPhases
<1>7. StepsInv'
  <2>1. \/ phase' = "open"
        \/ phase' = "prepare" /\ left' = Prepare(host.connected)
        \/ phase' = "files" /\ left' = Files
        \/ phase' = "teardown" /\ left' = Teardown
    BY <1>1, <1>2
  <2>2. /\ IsRest(Files, Files) /\ FilesDone(Len(Files), host)'
        /\ IsRest(Teardown, Teardown) /\ TeardownDone(Len(Teardown), host, excuses)'
    BY StepLists, WholeIsRest DEF FilesDone, TeardownDone
  <2> QED
    BY <2>1, <2>2, PrepareSteps DEF StepsInv
<1>8. PromiseInv'
  BY <1>0, <1>1, <1>2 DEF PromiseInv
<1> QED
  BY <1>2, <1>5, <1>6, <1>7, <1>8, NothingReported DEF HostInv

-----------------------------------------------------------------------------
(* The capture.                                                            *)

(* Opening and ending the capture, the stop and the join preserve it. *)
LEMMA CaptureStep ==
    ASSUME HostInv, OpenCapture \/ StartSniffer \/ EndCapture \/ StopHopper \/ Join
    PROVE  HostInv'
<1>0. TypeOK /\ ControlInv /\ HopperInv
  BY DEF HostInv
<1>1. CASE OpenCapture
  <2>1. TypeOK'
    <3>1. {changed, wasConnected, failed, stop}' \subseteq BOOLEAN
      BY <1>0, <1>1 DEF OpenCapture, TypeOK
    <3>2. /\ phase' \in {"hop", "gps"} /\ left' = <<>> /\ code' \in Statuses
          /\ hopper' \in {"off", "test", "tune", "wait", "failed", "done"}
          /\ faults' \in 0..MaxFaults
      BY <1>0, <1>1, BoundsAssumption DEF OpenCapture, Goto, Fault, TypeOK, Statuses
    <3>3. UNCHANGED <<host, command, leftBy, historyVars, started>>
      BY <1>1 DEF OpenCapture
    <3> QED
      BY <1>0, <3>1, <3>2, <3>3, StepLists DEF TypeOK, historyVars
  <2>2. HopperInv'
    BY <1>0, <1>1 DEF OpenCapture, Goto, HopperInv, Hopping
  <2> QED
    BY <1>1, <2>1, <2>2, CaptureMoves DEF OpenCapture, Goto, historyVars
<1>2. CASE StartSniffer
  <2>1. TypeOK'
    BY <1>0, <1>2, StepLists DEF StartSniffer, Goto, TypeOK, hopperVars, historyVars
  <2>2. HopperInv'
    BY <1>0, <1>2 DEF StartSniffer, Goto, HopperInv, hopperVars
  <2> QED
    BY <1>2, <2>1, <2>2, CaptureMoves DEF StartSniffer, Goto, historyVars
<1>3. CASE EndCapture
  <2>1. TypeOK'
    BY <1>0, <1>3, StepLists, BoundsAssumption
       DEF EndCapture, Goto, Fault, TypeOK, Statuses, hopperVars, historyVars
  <2>2. HopperInv'
    BY <1>0, <1>3 DEF EndCapture, Goto, HopperInv, hopperVars
  <2> QED
    BY <1>3, <2>1, <2>2, CaptureMoves DEF EndCapture, Goto, historyVars
<1>4. CASE StopHopper
  <2>1. TypeOK'
    BY <1>0, <1>4, StepLists DEF StopHopper, Goto, TypeOK, historyVars
  <2>2. HopperInv'
    BY <1>0, <1>4 DEF StopHopper, Goto, HopperInv
  <2> QED
    BY <1>4, <2>1, <2>2, CaptureMoves DEF StopHopper, Goto, historyVars
<1>5. CASE Join
  <2>1. TypeOK'
    BY <1>0, <1>5, StepLists DEF Join, Goto, TypeOK, Statuses, historyVars
  <2>2. HopperInv'
    BY <1>0, <1>5 DEF Join, Goto, HopperInv, Hopping
  <2> QED
    BY <1>5, <2>1, <2>2, CaptureMoves DEF Join, Goto, historyVars
<1> QED
  BY <1>1, <1>2, <1>3, <1>4, <1>5

(* The finally clause of _collect preserves it, whether or not the card    *)
(* was changed.                                                            *)
LEMMA StopGpsStep == HostInv /\ StopGps => HostInv'
<1> SUFFICES ASSUME HostInv, StopGps PROVE HostInv'
  OBVIOUS
<1>0. TypeOK /\ ControlInv /\ HopperInv /\ PromiseInv
  BY DEF HostInv
<1>1. /\ phase = "gps" /\ command = "collect" /\ last = NoCommand /\ ~failed
      /\ UNCHANGED <<host, started, faults>> /\ host' \in Hosts
  BY <1>0 DEF StopGps, ControlInv, TypeOK
<1>2. CASE changed
  <2>1. /\ phase' = "restore" /\ left' = Restore
        /\ UNCHANGED <<command, code, changed, wasConnected, failed, hopperVars, historyVars>>
    BY <1>2 DEF StopGps, Goto
  <2>2. TypeOK'
    BY <1>0, <1>1, <2>1, StepLists DEF TypeOK, Stepping, hopperVars, historyVars
  <2>3. ControlInv' /\ HopperInv'
    BY <1>0, <1>1, <1>2, <2>1 DEF ControlInv, HopperInv, Hopping, CollectPhases, hopperVars, historyVars
  <2>4. StepsInv'
    BY <2>1, StepLists, WholeIsRest DEF StepsInv, RestoreDone
  <2>5. PromiseInv'
    BY <1>0, <1>1, <2>1 DEF PromiseInv, historyVars
  <2> QED
    BY <1>1, <2>1, <2>2, <2>3, <2>4, <2>5, NothingReported DEF HostInv, historyVars
<1>3. CASE ~changed
  <2>1. Exit(code, {})
    BY <1>3 DEF StopGps
  <2> QED
    BY <1>0, <1>1, <1>3, <2>1, ExitStep DEF TypeOK
<1> QED
  BY <1>2, <1>3

-----------------------------------------------------------------------------
(* The steps of prepare, restore, setup, rollback and teardown.            *)

(* Where a step can be, and what the invariant says of it there. *)
LEMMA SteppingFacts ==
    ASSUME HostInv, phase \in Stepping
    PROVE  /\ command # "none" /\ last = NoCommand
           /\ phase \in {"prepare", "restore", "reconnect"} => command = "collect" /\ promise # "monitor"
           /\ phase \in {"files", "setup", "rollback"} => command = "setup" /\ promise = "none"
           /\ phase = "teardown" => command = "teardown" /\ promise = "none"
<1>1. TypeOK /\ ControlInv /\ PromiseInv
  BY DEF HostInv
<1>2. command # "none" /\ last = NoCommand
  BY <1>1 DEF ControlInv, Stepping
<1>3. command \in {"collect", "setup", "teardown"}
  BY <1>1, <1>2 DEF TypeOK
<1>4. /\ phase \in {"prepare", "restore", "reconnect"} => command = "collect"
      /\ phase \in {"files", "setup", "rollback"} => command = "setup"
      /\ phase = "teardown" => command = "teardown"
  BY <1>1, <1>3 DEF ControlInv, CollectPhases
<1> QED
  BY <1>1, <1>2, <1>4 DEF ControlInv, PromiseInv

(* A step that succeeds brings its phase forward. *)
LEMMA SucceedStep == HostInv /\ Succeed => HostInv'
<1> SUFFICES ASSUME HostInv, Succeed PROVE HostInv'
  OBVIOUS
<1>0. TypeOK /\ ControlInv /\ HopperInv /\ StepsInv /\ PromiseInv
  BY DEF HostInv
<1> DEFINE c == Head(left)
<1>1. /\ phase \in Stepping /\ left # <<>> /\ host' = Effect(c, host) /\ left' = Tail(left)
      /\ UNCHANGED <<command, phase, code, changed, wasConnected, failed, hopperVars, historyVars,
                     started, faults>>
  BY DEF Succeed
<1>2. /\ host \in Hosts /\ c \in Commands /\ left \in Seq(Commands) /\ left' \in Seq(Commands)
      /\ Len(left') <= Len(Teardown)
  BY <1>0, <1>1, StepLists DEF TypeOK
<1>3. host' \in Hosts
  BY <1>1, <1>2, EffectType
<1>4. TypeOK'
  BY <1>0, <1>1, <1>2, <1>3 DEF TypeOK, hopperVars, historyVars
<1>5. ControlInv' /\ HopperInv'
  BY <1>0, <1>1 DEF ControlInv, HopperInv, Hopping, hopperVars, historyVars
<1>6. phase \in {"prepare", "restore", "reconnect"} => c \in CardCommands /\ left' \in Seq(CardCommands)
  BY <1>0, <1>1 DEF StepsInv
<1>7. StepsInv'
  <2>1. CASE phase = "prepare"
    BY <1>1, <1>6, <2>1 DEF StepsInv
  <2>2. CASE phase = "restore"
    <3>1. /\ IsRest(left', Restore) /\ Len(left) \in 1..5 /\ Len(left') = Len(left) - 1
          /\ c = Restore[6 - Len(left)]
      <4>1. IsRest(left, Restore) /\ Restore \in Seq(Commands) /\ Len(Restore) = 5
        BY <1>0, <2>2, StepLists DEF StepsInv
      <4>2. /\ IsRest(Tail(left), Restore) /\ Len(left) \in 1..Len(Restore) /\ Len(Tail(left)) = Len(left) - 1
            /\ c = Restore[Len(Restore) - Len(left) + 1]
        BY <1>1, <4>1, RestGoesOn
      <4>3. Len(left) \in 1..5 /\ 5 - Len(left) + 1 = 6 - Len(left)
        BY <4>1, <4>2
      <4> QED
        BY <1>1, <4>1, <4>2, <4>3
    <3>2. ~failed /\ "replug" \notin excuses => RestoreDone(Len(left'), host')
      BY <1>0, <1>1, <1>2, <2>2, <3>1, RestoreProceeds DEF StepsInv
    <3> QED
      BY <1>1, <1>6, <2>2, <3>1, <3>2 DEF StepsInv, historyVars
  <2>3. CASE phase = "reconnect"
    <3>1. c = "connect"
      BY <1>0, <1>1, <2>3 DEF StepsInv, HostInv
    <3> QED
      BY <1>0, <1>1, <1>2, <1>6, <2>3, <3>1, EffectOf DEF StepsInv, HandedBack, historyVars
  <2>4. CASE phase = "files"
    <3>1. /\ IsRest(left', Files) /\ Len(left) \in 1..3 /\ Len(left') = Len(left) - 1
          /\ c = Files[4 - Len(left)]
      <4>1. IsRest(left, Files) /\ Files \in Seq(Commands) /\ Len(Files) = 3
        BY <1>0, <2>4, StepLists DEF StepsInv
      <4>2. /\ IsRest(Tail(left), Files) /\ Len(left) \in 1..Len(Files) /\ Len(Tail(left)) = Len(left) - 1
            /\ c = Files[Len(Files) - Len(left) + 1]
        BY <1>1, <4>1, RestGoesOn
      <4>3. Len(left) \in 1..3 /\ 3 - Len(left) + 1 = 4 - Len(left)
        BY <4>1, <4>2
      <4> QED
        BY <1>1, <4>1, <4>2, <4>3
    <3>2. FilesDone(Len(left'), host')
      BY <1>0, <1>1, <1>2, <2>4, <3>1, FilesProceed DEF StepsInv
    <3> QED
      BY <1>1, <2>4, <3>1, <3>2 DEF StepsInv
  <2>5. CASE phase = "setup"
    <3>1. /\ IsRest(left', Setup) /\ Len(left) \in 1..6 /\ Len(left') = Len(left) - 1
          /\ c = Setup[7 - Len(left)]
      <4>1. IsRest(left, Setup) /\ Setup \in Seq(Commands) /\ Len(Setup) = 6
        BY <1>0, <2>5, StepLists DEF StepsInv
      <4>2. /\ IsRest(Tail(left), Setup) /\ Len(left) \in 1..Len(Setup) /\ Len(Tail(left)) = Len(left) - 1
            /\ c = Setup[Len(Setup) - Len(left) + 1]
        BY <1>1, <4>1, RestGoesOn
      <4>3. Len(left) \in 1..6 /\ 6 - Len(left) + 1 = 7 - Len(left)
        BY <4>1, <4>2
      <4> QED
        BY <1>1, <4>1, <4>2, <4>3
    <3>2. SetupDone(Len(left'), host')
      BY <1>0, <1>1, <1>2, <2>5, <3>1, SetupProceeds DEF StepsInv
    <3> QED
      BY <1>1, <2>5, <3>1, <3>2 DEF StepsInv
  <2>6. CASE phase = "rollback" /\ excuses = {}
    <3>1. /\ IsRest(left', Rollback) /\ Len(left) \in 1..9 /\ Len(left') = Len(left) - 1
          /\ c = Rollback[10 - Len(left)]
      <4>1. IsRest(left, Rollback) /\ Rollback \in Seq(Commands) /\ Len(Rollback) = 9
        BY <1>0, <2>6, StepLists DEF StepsInv
      <4>2. /\ IsRest(Tail(left), Rollback) /\ Len(left) \in 1..Len(Rollback) /\ Len(Tail(left)) = Len(left) - 1
            /\ c = Rollback[Len(Rollback) - Len(left) + 1]
        BY <1>1, <4>1, RestGoesOn
      <4>3. Len(left) \in 1..9 /\ 9 - Len(left) + 1 = 10 - Len(left)
        BY <4>1, <4>2
      <4> QED
        BY <1>1, <4>1, <4>2, <4>3
    <3>2. RollbackDone(Len(left'), host')
      BY <1>0, <1>1, <1>2, <2>6, <3>1, RollbackProceeds DEF StepsInv
    <3> QED
      BY <1>1, <2>6, <3>1, <3>2 DEF StepsInv
  <2>7. CASE phase = "rollback" /\ excuses # {}
    BY <1>1, <2>7 DEF StepsInv, historyVars
  <2>8. CASE phase = "teardown"
    <3>1. /\ IsRest(left', Teardown) /\ Len(left) \in 1..10 /\ Len(left') = Len(left) - 1
          /\ c = Teardown[11 - Len(left)]
      <4>1. IsRest(left, Teardown) /\ Teardown \in Seq(Commands) /\ Len(Teardown) = 10
        BY <1>0, <2>8, StepLists DEF StepsInv
      <4>2. /\ IsRest(Tail(left), Teardown) /\ Len(left) \in 1..Len(Teardown) /\ Len(Tail(left)) = Len(left) - 1
            /\ c = Teardown[Len(Teardown) - Len(left) + 1]
        BY <1>1, <4>1, RestGoesOn
      <4>3. Len(left) \in 1..10 /\ 10 - Len(left) + 1 = 11 - Len(left)
        BY <4>1, <4>2
      <4> QED
        BY <1>1, <4>1, <4>2, <4>3
    <3>2. TeardownDone(Len(left'), host', excuses')
      <4>1. TeardownDone(Len(left), host, excuses) /\ excuses' = excuses
        BY <1>0, <1>1, <2>8 DEF StepsInv, historyVars
      <4> QED
        BY <1>1, <1>2, <3>1, <4>1, TeardownProceeds
    <3> QED
      BY <1>1, <2>8, <3>1, <3>2 DEF StepsInv, TeardownDone, historyVars
  <2> QED
    BY <1>1, <2>1, <2>2, <2>3, <2>4, <2>5, <2>6, <2>7, <2>8 DEF Stepping
<1>8. PromiseInv'
  <2>1. CASE phase \in {"prepare", "restore", "reconnect"}
    <3>1. c \notin {"write_unit", "write_nm", "write_udev", "rm_nm", "rm_udev", "enable", "disable"}
      BY <1>6, <2>1 DEF CardCommands
    <3> QED
      BY <1>0, <1>1, <1>2, <2>1, <3>1, EffectOf, SteppingFacts DEF PromiseInv, historyVars
  <2>2. CASE phase \notin {"prepare", "restore", "reconnect"}
    BY <1>1, <2>2, SteppingFacts DEF PromiseInv, historyVars, Stepping
  <2> QED
    BY <2>1, <2>2
<1> QED
  BY <1>1, <1>4, <1>5, <1>7, <1>8, SteppingFacts, NothingReported DEF HostInv, historyVars

(* Collection uses no command that can do a part of its work. *)
LEMMA CardCommandsFailWhole ==
    ASSUME HostInv, phase \in {"prepare", "restore", "reconnect"}, left # <<>>,
           NEW g \in FailedEffects(Head(left), host)
    PROVE  g = host
<1>1. Head(left) \in CardCommands
  BY DEF HostInv, StepsInv
<1>2. host \in Hosts /\ Head(left) \in Commands
  BY <1>1 DEF HostInv, TypeOK, CardCommands, Commands
<1> QED
  BY <1>1, <1>2, FailedEffectKeeps DEF CardCommands

(* A step that fails goes on, turns back or ends the command, as its phase *)
(* says.                                                                   *)
LEMMA FailStep == HostInv /\ Fail => HostInv'
<1> SUFFICES ASSUME HostInv, Fail PROVE HostInv'
  OBVIOUS
<1> DEFINE c == Head(left)
<1>0. TypeOK /\ ControlInv /\ HopperInv /\ StepsInv /\ PromiseInv
  BY DEF HostInv
<1>1. /\ phase \in Stepping /\ left # <<>> /\ host' \in FailedEffects(c, host)
      /\ OnFailure(c) /\ started' = started /\ faults' \in 0..MaxFaults
  BY <1>0, BoundsAssumption DEF Fail, Fault, TypeOK
<1>2. /\ host' \in Hosts
      /\ c \notin {"write_unit", "write_nm", "write_udev", "enable", "restart", "disable"} => host' = host
  <2>1. host \in Hosts /\ c \in Commands
    BY <1>0, <1>1 DEF TypeOK
  <2> QED
    BY <1>1, <2>1, FailedEffectKeeps
<1>3. /\ Tail(left) \in Seq(Commands) /\ Len(Tail(left)) <= Len(Teardown)
      /\ <<"manage">> \in Seq(Commands) /\ Len(<<"manage">>) <= Len(Teardown)
      /\ <<>> \in Seq(Commands) /\ Len(<<>>) <= Len(Teardown)
  BY <1>0, <1>1, StepLists DEF TypeOK, Commands
<1>4. CASE phase = "prepare"
  <2>1. /\ phase' = "restore" /\ left' = Restore /\ code' = 2 /\ host' = host
        /\ UNCHANGED <<command, changed, wasConnected, failed, hopperVars, historyVars>>
    BY <1>1, <1>4, CardCommandsFailWhole DEF OnFailure, Goto
  <2>2. TypeOK'
    BY <1>0, <1>1, <2>1, StepLists DEF TypeOK, Stepping, Statuses, hopperVars, historyVars
  <2>3. ControlInv' /\ HopperInv'
    BY <1>0, <1>4, <2>1 DEF ControlInv, HopperInv, Hopping, CollectPhases, hopperVars, historyVars
  <2>4. StepsInv'
    BY <2>1, StepLists, WholeIsRest DEF StepsInv, RestoreDone
  <2>5. PromiseInv'
    BY <1>0, <2>1 DEF PromiseInv, historyVars
  <2> QED
    BY <1>1, <2>1, <2>2, <2>3, <2>4, <2>5, SteppingFacts, NothingReported DEF HostInv, historyVars
<1>5. CASE phase = "restore"
  <2>1. /\ left' = Tail(left) /\ failed' = TRUE /\ excuses' = excuses \cup {"restore"} /\ host' = host
        /\ UNCHANGED <<command, phase, code, changed, wasConnected, hopperVars, last, promise>>
    BY <1>1, <1>5, CardCommandsFailWhole DEF OnFailure
  <2>2. TypeOK'
    <3>1. {changed, wasConnected, failed, stop}' \subseteq BOOLEAN
      BY <1>0, <2>1 DEF TypeOK, hopperVars
    <3> QED
      BY <1>0, <1>1, <1>3, <2>1, <3>1 DEF TypeOK, Excuses, hopperVars
  <2>3. ControlInv' /\ HopperInv'
    BY <1>0, <1>5, <2>1 DEF ControlInv, HopperInv, Hopping, hopperVars
  <2>4. IsRest(left', Restore) /\ left' \in Seq(CardCommands)
    BY <1>0, <1>1, <1>5, <2>1, StepLists, RestGoesOn DEF StepsInv
  <2>5. StepsInv' /\ PromiseInv'
    BY <1>0, <1>5, <2>1, <2>4 DEF StepsInv, PromiseInv
  <2> QED
    BY <1>1, <2>1, <2>2, <2>3, <2>5, SteppingFacts, NothingReported DEF HostInv
<1>6. CASE phase = "reconnect"
  <2>1. /\ left' = <<>> /\ host' = host
        /\ UNCHANGED <<command, phase, code, changed, wasConnected, failed, hopperVars, historyVars>>
    BY <1>1, <1>6, CardCommandsFailWhole DEF OnFailure, Continue, historyVars
  <2>2. TypeOK'
    BY <1>0, <1>1, <1>3, <2>1 DEF TypeOK, hopperVars, historyVars
  <2>3. ControlInv' /\ HopperInv' /\ PromiseInv'
    BY <1>0, <2>1 DEF ControlInv, HopperInv, Hopping, PromiseInv, hopperVars, historyVars
  <2>4. StepsInv'
    BY <1>0, <1>6, <2>1 DEF StepsInv, HandedBack, historyVars
  <2> QED
    BY <1>1, <2>1, <2>2, <2>3, <2>4, SteppingFacts, NothingReported DEF HostInv, historyVars
<1>7. CASE phase = "files"
  <2>1. Exit(2, {}) /\ command = "setup"
    BY <1>1, <1>7, SteppingFacts DEF OnFailure
  <2> QED
    BY <1>1, <1>2, <1>7, <2>1, ExitStep DEF Statuses
<1>8. CASE phase = "setup"
  <2>1. /\ phase' = "rollback" /\ left' = Rollback
        /\ UNCHANGED <<command, code, changed, wasConnected, failed, hopperVars, historyVars>>
    BY <1>1, <1>8 DEF OnFailure, Goto
  <2>2. TypeOK'
    BY <1>0, <1>1, <1>2, <2>1, StepLists DEF TypeOK, Stepping, hopperVars, historyVars
  <2>3. command = "setup" /\ promise = "none" /\ last = NoCommand
    BY <1>1, <1>8, SteppingFacts
  <2>4. ControlInv' /\ HopperInv' /\ PromiseInv'
    BY <1>0, <1>8, <2>1, <2>3 DEF ControlInv, HopperInv, Hopping, PromiseInv, hopperVars, historyVars
  <2>5. StepsInv'
    BY <2>1, StepLists, WholeIsRest DEF StepsInv, RollbackDone
  <2> QED
    BY <2>1, <2>2, <2>3, <2>4, <2>5, NothingReported DEF HostInv, historyVars
<1>9. CASE phase = "rollback"
  <2>1. command = "setup" /\ promise = "none" /\ last = NoCommand
    BY <1>1, <1>9, SteppingFacts
  <2>2. ASSUME NEW rest, rest = Tail(left) \/ rest = <<"manage">>,
               Continue(rest), excuses' = excuses \cup {"rollback"}
        PROVE  HostInv'
    <3>1. /\ left' = rest /\ phase' = "rollback" /\ excuses' # {}
          /\ UNCHANGED <<command, code, changed, wasConnected, failed, hopperVars, last, promise>>
      BY <1>9, <2>2 DEF Continue
    <3>2. TypeOK'
      <4>1. left' \in Seq(Commands) /\ Len(left') <= Len(Teardown)
        BY <1>3, <2>2, <3>1
      <4> QED
        BY <1>0, <1>1, <1>2, <2>2, <3>1, <4>1 DEF TypeOK, Stepping, Excuses, hopperVars
    <3>3. ControlInv' /\ HopperInv' /\ PromiseInv'
      BY <1>0, <1>9, <2>1, <3>1 DEF ControlInv, HopperInv, Hopping, PromiseInv, hopperVars
    <3>4. StepsInv'
      BY <3>1 DEF StepsInv
    <3> QED
      BY <2>1, <3>1, <3>2, <3>3, <3>4, NothingReported DEF HostInv
  <2>3. CASE c \in {"rm_nm", "rm_udev"} /\ Exit(2, {"rollback"})
    BY <1>1, <1>2, <2>1, <2>3, ExitStep DEF Statuses, Excuses
  <2> QED
    BY <1>1, <1>9, <2>2, <2>3 DEF OnFailure
<1>10. CASE phase = "teardown"
  <2>1. command = "teardown" /\ promise = "none" /\ last = NoCommand
    BY <1>1, <1>10, SteppingFacts
  <2>2. CASE c = "disable"
    <3>1. /\ left' = Tail(left) /\ phase' = "teardown" /\ excuses' = excuses \cup {"disable"}
          /\ UNCHANGED <<command, code, changed, wasConnected, failed, hopperVars, last, promise>>
      BY <1>1, <1>10, <2>2 DEF OnFailure, Continue
    <3>2. TypeOK'
      BY <1>0, <1>1, <1>2, <1>3, <3>1 DEF TypeOK, Stepping, Excuses, hopperVars
    <3>3. ControlInv' /\ HopperInv' /\ PromiseInv'
      BY <1>0, <1>10, <2>1, <3>1 DEF ControlInv, HopperInv, Hopping, PromiseInv, hopperVars
    <3>4. /\ IsRest(left, Teardown) /\ TeardownDone(Len(left), host, excuses)
          /\ Teardown \in Seq(Commands) /\ Len(Teardown) = 10
      BY <1>0, <1>10, StepLists DEF StepsInv
    <3>5. /\ IsRest(Tail(left), Teardown) /\ Len(left) \in 1..Len(Teardown)
          /\ Len(Tail(left)) = Len(left) - 1
          /\ c = Teardown[Len(Teardown) - Len(left) + 1]
      BY <1>1, <3>4, RestGoesOn
    <3>6. Len(left) \in 1..10 /\ c = Teardown[11 - Len(left)]
      <4>1. 10 - Len(left) + 1 = 11 - Len(left)
        BY <3>4, <3>5
      <4> QED
        BY <3>4, <3>5, <4>1
    <3>7. Len(left') = 9
      <4>1. PICK n \in 1..10 : n = Len(left)
        BY <3>6
      <4>2. n = 10
        <5>1. Teardown[11 - n] = "disable"
          BY <2>2, <3>6, <4>1
        <5>2. \A i \in 1..9 : Teardown[11 - i] # "disable"
          BY DEF Teardown
        <5> QED
          BY <5>1, <5>2
      <4> QED
        BY <3>1, <3>5, <4>1, <4>2
    <3>8. IsRest(left', Teardown)
      BY <3>1, <3>5, Zenon
    <3>9. TeardownDone(Len(left'), host', excuses')
      <4>1. "disable" \in excuses'
        BY <3>1
      <4> QED
        BY <3>7, <4>1 DEF TeardownDone
    <3>10. StepsInv'
      BY <3>1, <3>8, <3>9 DEF StepsInv
    <3> QED
      BY <2>1, <3>1, <3>2, <3>3, <3>10, NothingReported DEF HostInv
  <2>3. CASE c # "disable" /\ Exit(2, {})
    <3>1. /\ IsRest(left, Teardown) /\ Teardown \in Seq(Commands)
      BY <1>0, <1>10, StepLists DEF StepsInv
    <3>2. /\ c = Teardown[Len(Teardown) - Len(left) + 1]
          /\ Len(Teardown) - Len(left) + 1 \in 1..Len(Teardown)
      BY <1>1, <3>1, RestGoesOn
    <3>3. \A i \in 1..Len(Teardown) :
             Teardown[i] \notin {"write_unit", "write_nm", "write_udev", "enable", "restart"}
      BY DEF Teardown
    <3>4. host' = host
      BY <1>2, <2>3, <3>2, <3>3
    <3> QED
      BY <1>1, <1>2, <2>1, <2>3, <3>4, ExitStep DEF Statuses
  <2> QED
    BY <1>1, <1>10, <2>2, <2>3 DEF OnFailure
<1> QED
  BY <1>1, <1>4, <1>5, <1>6, <1>7, <1>8, <1>9, <1>10 DEF Stepping

(* A phase whose steps are all done has reached what it is for. *)
LEMMA FinishStep == HostInv /\ Finish => HostInv'
<1> SUFFICES ASSUME HostInv, Finish PROVE HostInv'
  OBVIOUS
<1>0. TypeOK /\ ControlInv /\ HopperInv /\ StepsInv /\ PromiseInv
  BY DEF HostInv
<1>1. /\ phase \in Stepping /\ UNCHANGED <<host, started, faults>>
      /\ phase # "restore" \/ ~failed => left = <<>>
      /\ {} \in SUBSET Excuses /\ code \in Statuses /\ faults' \in 0..MaxFaults
      /\ host' \in Hosts
  BY <1>0 DEF Finish, SkipsCheck, TypeOK
<1>2. left = <<>> => Len(left) = 0
  OBVIOUS
<1>3. CASE phase = "prepare"
  <2>1. /\ phase' = "open" /\ left' = <<>>
        /\ UNCHANGED <<command, code, changed, wasConnected, failed, hopperVars, historyVars>>
    BY <1>3 DEF Finish, Goto
  <2>2. TypeOK'
    BY <1>0, <1>1, <2>1, StepLists DEF TypeOK, hopperVars, historyVars
  <2>3. ControlInv' /\ HopperInv' /\ PromiseInv'
    BY <1>0, <1>3, <2>1, <1>1 DEF ControlInv, HopperInv, Hopping, PromiseInv, CollectPhases, hopperVars,
       historyVars
  <2>4. StepsInv'
    BY <2>1 DEF StepsInv
  <2> QED
    BY <1>1, <2>1, <2>2, <2>3, <2>4, SteppingFacts, NothingReported DEF HostInv, historyVars
<1>4. CASE phase = "restore"
  <2>1. command = "collect" /\ promise # "monitor" /\ last = NoCommand
    BY <1>1, <1>4, SteppingFacts
  <2>2. CASE failed
    <3>1. Exit(2, {}) /\ "restore" \in excuses
      BY <1>0, <1>4, <2>2 DEF Finish, ControlInv
    <3> QED
      BY <1>1, <2>1, <3>1, ExitStep DEF Statuses
  <2>3. ~failed /\ "replug" \notin excuses => HandedBack
    BY <1>0, <1>1, <1>2, <1>4 DEF StepsInv, RestoreDone, HandedBack
  <2>4. CASE ~failed /\ wasConnected
    <3>1. /\ phase' = "reconnect" /\ left' = <<"connect">> /\ changed' = FALSE
          /\ UNCHANGED <<command, code, wasConnected, failed, hopperVars, historyVars>>
      BY <1>4, <2>4 DEF Finish, Goto
    <3>2. /\ <<"connect">> \in Seq(CardCommands) /\ <<"connect">> \in Seq(Commands)
          /\ Len(<<"connect">>) <= Len(Teardown)
      BY StepLists DEF CardCommands, Commands
    <3>3. TypeOK'
      <4>1. {changed, wasConnected, failed, stop}' \subseteq BOOLEAN
        BY <1>0, <3>1 DEF TypeOK, hopperVars
      <4> QED
        BY <1>0, <1>1, <3>1, <3>2, <4>1 DEF TypeOK, Stepping, hopperVars, historyVars
    <3>4. ControlInv' /\ HopperInv'
      BY <1>0, <1>4, <2>1, <2>4, <3>1 DEF ControlInv, HopperInv, Hopping, CollectPhases, hopperVars,
         historyVars
    <3>5. StepsInv'
      BY <1>1, <2>3, <2>4, <3>1, <3>2 DEF StepsInv, HandedBack, historyVars
    <3>6. PromiseInv'
      BY <1>0, <1>1, <2>1, <3>1 DEF PromiseInv, historyVars
    <3> QED
      BY <2>1, <3>1, <3>3, <3>4, <3>5, <3>6, NothingReported DEF HostInv, historyVars
  <2>5. CASE ~failed /\ ~wasConnected
    <3>1. Exit(code, {})
      BY <1>4, <2>5 DEF Finish
    <3> QED
      BY <1>1, <1>4, <2>1, <2>3, <2>5, <3>1, ExitStep
  <2> QED
    BY <2>2, <2>4, <2>5
<1>5. CASE phase = "reconnect"
  <2>1. command = "collect" /\ Exit(code, {})
    BY <1>1, <1>5, SteppingFacts DEF Finish
  <2>2. "replug" \notin excuses => HandedBack
    BY <1>0, <1>5 DEF StepsInv
  <2> QED
    BY <1>1, <1>5, <2>1, <2>2, ExitStep
<1>6. CASE phase = "files"
  <2>1. /\ phase' = "setup" /\ left' = Setup
        /\ UNCHANGED <<command, code, changed, wasConnected, failed, hopperVars, historyVars>>
    BY <1>6 DEF Finish, Goto
  <2>2. command = "setup" /\ promise = "none" /\ last = NoCommand
    BY <1>1, <1>6, SteppingFacts
  <2>3. TypeOK'
    BY <1>0, <1>1, <2>1, StepLists DEF TypeOK, Stepping, hopperVars, historyVars
  <2>4. ControlInv' /\ HopperInv' /\ PromiseInv'
    BY <1>0, <1>6, <2>1, <2>2 DEF ControlInv, HopperInv, Hopping, PromiseInv, hopperVars, historyVars
  <2>5. StepsInv'
    <3>1. SetupDone(6, host)
      BY <1>0, <1>1, <1>2, <1>6 DEF StepsInv, FilesDone, SetupDone
    <3>2. SetupDone(Len(Setup), host)'
      BY <1>1, <3>1, StepLists DEF SetupDone
    <3> QED
      BY <2>1, <3>2, StepLists, WholeIsRest DEF StepsInv
  <2> QED
    BY <2>1, <2>2, <2>3, <2>4, <2>5, NothingReported DEF HostInv, historyVars
<1>7. CASE phase = "setup"
  <2>1. command = "setup" /\ Exit(0, {})
    BY <1>1, <1>7, SteppingFacts DEF Finish
  <2>2. SetupDone(0, host)
    BY <1>0, <1>1, <1>2, <1>7 DEF StepsInv
  <2> QED
    BY <1>1, <2>1, <2>2, ExitStep DEF Statuses
<1>8. CASE phase = "rollback"
  <2>1. command = "setup" /\ Exit(2, {})
    BY <1>1, <1>8, SteppingFacts DEF Finish
  <2>2. excuses = {} => RolledBack
    BY <1>0, <1>1, <1>2, <1>8 DEF StepsInv, RollbackDone, RolledBack, HandedBack, StartsAtBoot
  <2> QED
    BY <1>1, <2>1, <2>2, ExitStep DEF Statuses
<1>9. CASE phase = "teardown"
  <2>1. command = "teardown" /\ Exit(0, {})
    BY <1>1, <1>9, SteppingFacts DEF Finish
  <2>2. TeardownDone(0, host, excuses)
    BY <1>0, <1>1, <1>2, <1>9 DEF StepsInv
  <2> QED
    BY <1>1, <2>1, <2>2, ExitStep DEF Statuses
<1> QED
  BY <1>1, <1>3, <1>4, <1>5, <1>6, <1>7, <1>8, <1>9 DEF Stepping

-----------------------------------------------------------------------------
(* Ctrl-C, power loss, NetworkManager and the plug.                        *)

(* Ctrl-C preserves the invariant in every phase. *)
LEMMA InterruptStep == HostInv /\ Interrupt => HostInv'
<1> SUFFICES ASSUME HostInv, Interrupt PROVE HostInv'
  OBVIOUS
<1>0. TypeOK /\ ControlInv /\ HopperInv
  BY DEF HostInv
<1>1. /\ command # "none" /\ UNCHANGED <<host, started>> /\ faults' \in 0..MaxFaults
      /\ host' \in Hosts
  BY <1>0, BoundsAssumption DEF Interrupt, Fault, TypeOK
<1>2. CASE phase = "capture"
  <2>1. /\ phase' = "finally" /\ left' = <<>> /\ code' \in Statuses
        /\ UNCHANGED <<command, changed, wasConnected, failed, hopperVars, historyVars>>
    BY <1>2 DEF Interrupt, Goto, Statuses
  <2>2. TypeOK'
    BY <1>0, <1>1, <2>1, StepLists DEF TypeOK, hopperVars, historyVars
  <2>3. HopperInv'
    BY <1>0, <1>2, <2>1 DEF HopperInv, hopperVars
  <2> QED
    BY <1>1, <1>2, <2>1, <2>2, <2>3, CaptureMoves DEF historyVars
<1>3. CASE phase \in {"open", "hop", "finally", "join"}
  <2>1. /\ phase' = "gps" /\ left' = <<>> /\ code' = 130
        /\ leftBy' = CASE ~Hopping       -> leftBy
                       [] phase = "join" -> "join"
                       [] OTHER          -> "interrupt"
        /\ UNCHANGED <<command, changed, wasConnected, failed, hopper, stop, historyVars>>
    BY <1>3 DEF Interrupt, Goto
  <2>2. /\ leftBy' \in {"none", "interrupt", "join"}
        /\ Hopping => leftBy' # "none"
        /\ Hopping => leftBy' = "interrupt" \/ phase = "join"
    BY <1>0, <2>1 DEF TypeOK
  <2>3. TypeOK'
    BY <1>0, <1>1, <2>1, <2>2, StepLists DEF TypeOK, Statuses, historyVars
  <2>4. HopperInv'
    <3>1. Hopping' = Hopping
      BY <2>1 DEF Hopping
    <3>2. Hopping /\ phase = "join" => stop'
      BY <1>0, <2>1 DEF HopperInv
    <3> QED
      BY <2>1, <2>2, <3>1, <3>2 DEF HopperInv
  <2> QED
    BY <1>1, <1>3, <2>1, <2>3, <2>4, CaptureMoves DEF historyVars
<1>4. CASE phase \notin {"open", "hop", "capture", "finally", "join"}
  <2>1. Exit(130, {"interrupt"})
    BY <1>4 DEF Interrupt
  <2> QED
    BY <1>1, <2>1, ExitStep DEF Statuses, Excuses
<1> QED
  BY <1>2, <1>3, <1>4

(* A connection by NetworkManager changes nothing the invariant speaks of. *)
LEMMA ConnectStep == HostInv /\ NetworkManagerConnects => HostInv'
<1> SUFFICES ASSUME HostInv, NetworkManagerConnects PROVE HostInv'
  OBVIOUS
<1>1. /\ host \in Hosts /\ host' = [host EXCEPT !.connected = TRUE]
      /\ UNCHANGED <<commandVars, hopperVars, historyVars, started, faults>>
  BY DEF HostInv, TypeOK, NetworkManagerConnects
<1>2. /\ host' \in Hosts
      /\ host'.type = host.type /\ host'.up = host.up /\ host'.nm = host.nm /\ host'.unit = host.unit
      /\ host'.nm_conf = host.nm_conf /\ host'.udev_rule = host.udev_rule
      /\ host'.enabled = host.enabled
  BY <1>1 DEF Hosts
<1>3. TypeOK' /\ ControlInv' /\ HopperInv'
  BY <1>1, <1>2 DEF HostInv, TypeOK, ControlInv, HopperInv, Hopping, commandVars, hopperVars, historyVars
<1>4. StepsInv'
  BY <1>1, <1>2 DEF HostInv, StepsInv, IsRest, RestoreDone, FilesDone, SetupDone, RollbackDone,
     TeardownDone, HandedBack, commandVars, historyVars
<1>5. PromiseInv'
  BY <1>1, <1>2 DEF HostInv, PromiseInv, commandVars, historyVars
<1>6. ReportsInv'
  BY <1>1, <1>2 DEF HostInv, ReportsInv, CardIsHandedBack, FailedSetupRolledBack,
     HopperDeathIsReported, RolledBack, HandedBack, StartsAtBoot, historyVars
<1> QED
  BY <1>3, <1>4, <1>5, <1>6 DEF HostInv

(* A reboot keeps the system files, and with them the promise. *)
LEMMA RebootStep == HostInv /\ Reboot => HostInv'
<1> SUFFICES ASSUME HostInv, Reboot PROVE HostInv'
  OBVIOUS
<1>0. TypeOK /\ PromiseInv
  BY DEF HostInv
<1>1. /\ host' = Appeared(host, StartsAtBoot(host), ~host.nm_conf)
      /\ command' = "none" /\ phase' = "idle" /\ left' = <<>> /\ code' = 0
      /\ changed' = FALSE /\ wasConnected' = FALSE /\ failed' = FALSE
      /\ hopper' = "off" /\ stop' = FALSE /\ leftBy' = "none"
      /\ excuses' = {} /\ last' = NoCommand /\ promise' = promise /\ started' = started
      /\ faults' \in 0..MaxFaults
  BY <1>0, BoundsAssumption DEF Reboot, Fault, TypeOK
<1>2. /\ host' \in Hosts /\ host'.unit = host.unit /\ host'.nm_conf = host.nm_conf
      /\ host'.udev_rule = host.udev_rule /\ host'.enabled = host.enabled
      /\ StartsAtBoot(host) => host'.type = "monitor" /\ host'.up
  <2> DEFINE starts == StartsAtBoot(host)
             managed == ~host.nm_conf
  <2>1. host \in Hosts /\ starts \in BOOLEAN /\ managed \in BOOLEAN
    BY <1>0 DEF TypeOK, StartsAtBoot, Hosts
  <2>2. host' = Appeared(host, starts, managed)
    BY <1>1
  <2> HIDE DEF starts, managed
  <2>3. /\ host' \in Hosts /\ host'.unit = host.unit /\ host'.nm_conf = host.nm_conf
        /\ host'.udev_rule = host.udev_rule /\ host'.enabled = host.enabled
        /\ starts => host'.type = "monitor" /\ host'.up
    BY <2>1, <2>2, AppearedKeeps
  <2> QED
    BY <2>3 DEF starts
<1>3. TypeOK'
  <2>1. last' \in [command: {"none", "collect", "setup", "teardown"}, exit: Statuses,
                   touched: BOOLEAN, excuses: SUBSET Excuses, inTry: BOOLEAN,
                   hopperFailed: BOOLEAN]
    BY <1>1 DEF NoCommand, Statuses
  <2>2. {changed, wasConnected, failed, stop}' \subseteq BOOLEAN
    BY <1>1
  <2> QED
    BY <1>0, <1>1, <1>2, <2>1, <2>2, StepLists DEF TypeOK, Statuses
<1>4. ControlInv' /\ HopperInv' /\ StepsInv'
  BY <1>1 DEF ControlInv, HopperInv, StepsInv
<1>5. PromiseInv'
  BY <1>0, <1>1, <1>2 DEF PromiseInv, StartsAtBoot
<1> QED
  BY <1>1, <1>3, <1>4, <1>5, NothingReported DEF HostInv

(* Plugging the card in again is an excuse for the command that runs; the  *)
(* promise holds without one.                                              *)
LEMMA ReplugStep == HostInv /\ Replug => HostInv'
<1> SUFFICES ASSUME HostInv, Replug PROVE HostInv'
  OBVIOUS
<1>0. TypeOK /\ ControlInv /\ HopperInv /\ StepsInv /\ PromiseInv
  BY DEF HostInv
<1>1. PICK managed \in {TRUE, ~host.nm_conf} :
          host' = Appeared(host, host.unit /\ host.udev_rule, managed)
  BY DEF Replug
<1>2. /\ last' = NoCommand /\ faults' \in 0..MaxFaults
      /\ excuses' = IF command = "none" THEN excuses ELSE excuses \cup {"replug"}
      /\ UNCHANGED <<commandVars, hopperVars, promise, started>>
  BY <1>0, BoundsAssumption DEF Replug, Fault, TypeOK
<1>3. /\ host' \in Hosts /\ host'.unit = host.unit /\ host'.nm_conf = host.nm_conf
      /\ host'.udev_rule = host.udev_rule /\ host'.enabled = host.enabled
      /\ host.unit /\ host.udev_rule => host'.type = "monitor" /\ host'.up
  <2> DEFINE starts == host.unit /\ host.udev_rule
  <2>1. host \in Hosts /\ starts \in BOOLEAN /\ managed \in BOOLEAN
    BY <1>0 DEF TypeOK, Hosts
  <2>2. host' = Appeared(host, starts, managed)
    BY <1>1
  <2> HIDE DEF starts
  <2>3. /\ host' \in Hosts /\ host'.unit = host.unit /\ host'.nm_conf = host.nm_conf
        /\ host'.udev_rule = host.udev_rule /\ host'.enabled = host.enabled
        /\ starts => host'.type = "monitor" /\ host'.up
    BY <2>1, <2>2, AppearedKeeps
  <2> QED
    BY <2>3 DEF starts
<1>4. TypeOK'
  <2>1. last' \in [command: {"none", "collect", "setup", "teardown"}, exit: Statuses,
                   touched: BOOLEAN, excuses: SUBSET Excuses, inTry: BOOLEAN,
                   hopperFailed: BOOLEAN]
    BY <1>2 DEF NoCommand, Statuses
  <2>2. excuses' \subseteq Excuses
    BY <1>0, <1>2 DEF TypeOK, Excuses
  <2> QED
    BY <1>0, <1>2, <1>3, <2>1, <2>2 DEF TypeOK, commandVars, hopperVars
<1>5. ControlInv' /\ HopperInv' /\ PromiseInv'
  BY <1>0, <1>2, <1>3 DEF ControlInv, HopperInv, Hopping, PromiseInv, commandVars, hopperVars
<1>6. StepsInv'
  <2>1. phase # "idle" /\ phase \in Stepping => "replug" \in excuses'
    BY <1>0, <1>2 DEF ControlInv, Stepping
  <2>2. phase' = phase /\ left' = left /\ failed' = failed /\ excuses \subseteq excuses'
    BY <1>2 DEF commandVars
  <2>3. CASE phase \in {"prepare", "restore", "reconnect"}
    BY <1>0, <2>1, <2>2, <2>3 DEF StepsInv, Stepping
  <2>4. CASE phase = "files"
    BY <1>0, <1>3, <2>2, <2>4 DEF StepsInv, FilesDone
  <2>5. CASE phase = "setup"
    BY <1>0, <1>3, <2>2, <2>5 DEF StepsInv, SetupDone
  <2>6. CASE phase = "rollback"
    BY <2>1, <2>2, <2>6 DEF StepsInv, Stepping
  <2>7. CASE phase = "teardown"
    BY <1>0, <1>3, <2>2, <2>7 DEF StepsInv, TeardownDone
  <2>8. CASE phase \notin Stepping
    BY <2>2, <2>8 DEF StepsInv, Stepping
  <2> QED
    BY <2>3, <2>4, <2>5, <2>6, <2>7, <2>8 DEF Stepping
<1> QED
  BY <1>2, <1>4, <1>5, <1>6, NothingReported DEF HostInv

(* Every step of the hopper preserves the invariant. *)
LEMMA HopStep == HostInv /\ (Hop \/ HopperFails) => HostInv'
<1> SUFFICES ASSUME HostInv, Hop \/ HopperFails PROVE HostInv'
  OBVIOUS
<1>1. /\ UNCHANGED <<host, commandVars, leftBy, historyVars, started>>
      /\ hopper \in {"test", "tune", "wait"}
      /\ hopper' \in {"test", "tune", "wait", "done", "failed"}
  BY DEF Hop, HopperFails, HopperTests, HopperTunes, HopperWaits, HopperStep
<1>2. (stop' = TRUE /\ Fault) \/ UNCHANGED <<stop, faults>>
  BY DEF Hop, HopperFails, HopperTests, HopperTunes, HopperWaits
<1>3. stop \in BOOLEAN /\ faults \in 0..MaxFaults
  BY DEF HostInv, TypeOK
<1>4. stop' \in BOOLEAN /\ (stop => stop')
  BY <1>2, <1>3, Zenon
<1>5. faults' \in 0..MaxFaults
  BY <1>2, <1>3, BoundsAssumption DEF Fault
<1> QED
  BY <1>1, <1>4, <1>5, HopperMoves

-----------------------------------------------------------------------------
(* The theorems.                                                           *)

(* The invariant holds on a fresh host. *)
LEMMA HostStarts == Init => HostInv
<1> SUFFICES ASSUME Init PROVE HostInv
  OBVIOUS
<1>1. TypeOK
  <2>1. host \in Hosts
    BY DEF Init, FreshHost, Hosts
  <2>2. last \in [command: {"none", "collect", "setup", "teardown"}, exit: Statuses,
                  touched: BOOLEAN, excuses: SUBSET Excuses, inTry: BOOLEAN, hopperFailed: BOOLEAN]
    BY DEF Init, NoCommand, Statuses
  <2>3. {changed, wasConnected, failed, stop} \subseteq BOOLEAN
    BY DEF Init
  <2> QED
    BY <2>1, <2>2, <2>3, StepLists, BoundsAssumption DEF Init, TypeOK, Statuses
<1>2. ControlInv /\ HopperInv /\ StepsInv /\ PromiseInv
  BY DEF Init, ControlInv, HopperInv, StepsInv, PromiseInv
<1>3. ReportsInv
  BY DEF Init, NoCommand, ReportsInv, CardIsHandedBack, FailedSetupRolledBack, HopperDeathIsReported
<1> QED
  BY <1>1, <1>2, <1>3 DEF HostInv

(* Steps that change nothing preserve the invariant. *)
LEMMA HostStutters == HostInv /\ UNCHANGED vars => HostInv'
<1> SUFFICES ASSUME HostInv, UNCHANGED vars PROVE HostInv'
  OBVIOUS
<1>1. TypeOK' /\ ControlInv' /\ HopperInv' /\ PromiseInv'
  BY DEF HostInv, TypeOK, ControlInv, HopperInv, Hopping, PromiseInv, vars, commandVars, hopperVars,
     historyVars
<1>2. StepsInv'
  BY DEF HostInv, StepsInv, IsRest, RestoreDone, FilesDone, SetupDone, RollbackDone, TeardownDone,
     HandedBack, vars, commandVars, historyVars
<1>3. ReportsInv'
  BY DEF HostInv, ReportsInv, CardIsHandedBack, FailedSetupRolledBack, HopperDeathIsReported,
     RolledBack, HandedBack, vars, historyVars
<1> QED
  BY <1>1, <1>2, <1>3 DEF HostInv

(* The inductive invariant holds in every reachable state. *)
THEOREM Invariance == Spec => []HostInv
<1>1. HostInv /\ [Next]_vars => HostInv'
  <2> SUFFICES ASSUME HostInv, [Next]_vars PROVE HostInv'
    OBVIOUS
  <2>1. CASE BeginCollect \/ BeginSetup \/ BeginTeardown
    BY <2>1, BeginStep
  <2>2. CASE OpenCapture \/ StartSniffer \/ EndCapture \/ StopHopper \/ Join
    BY <2>2, CaptureStep
  <2>3. CASE StopGps
    BY <2>3, StopGpsStep
  <2>4. CASE Succeed
    BY <2>4, SucceedStep
  <2>5. CASE Fail
    BY <2>5, FailStep
  <2>6. CASE Finish
    BY <2>6, FinishStep
  <2>7. CASE Hop \/ HopperFails
    BY <2>7, HopStep
  <2>8. CASE Interrupt
    BY <2>8, InterruptStep
  <2>9. CASE NetworkManagerConnects
    BY <2>9, ConnectStep
  <2>10. CASE Reboot
    BY <2>10, RebootStep
  <2>11. CASE Replug
    BY <2>11, ReplugStep
  <2>12. CASE UNCHANGED vars
    BY <2>12, HostStutters
  <2> QED
    BY <2>1, <2>2, <2>3, <2>4, <2>5, <2>6, <2>7, <2>8, <2>9, <2>10, <2>11, <2>12 DEF Next, Progress
<1> QED
  BY <1>1, HostStarts, PTL DEF Spec

(* Every variable keeps its type. *)
THEOREM TypeCorrect == Spec => []TypeOK
<1>1. HostInv => TypeOK
  BY DEF HostInv
<1> QED
  BY <1>1, Invariance, PTL

(* A Collection that changed the card hands it back when it reports        *)
(* success, and when it fails with nothing going wrong in the restore.     *)
THEOREM CardHandedBack == Spec => []CardIsHandedBack
<1>1. HostInv => CardIsHandedBack
  BY DEF HostInv, ReportsInv
<1> QED
  BY <1>1, Invariance, PTL

(* What a successful setup left behind survives measurements, interrupts,  *)
(* reboots and replugs.                                                    *)
THEOREM SetupIsKept == Spec => []SetupHolds
<1>1. HostInv => SetupHolds
  BY DEF HostInv, PromiseInv, SetupHolds, StartsAtBoot
<1> QED
  BY <1>1, Invariance, PTL

(* The files that a successful teardown removed stay away, and nothing     *)
(* brings monitor mode back at boot unless its disable had failed.         *)
THEOREM TeardownIsKept == Spec => []TeardownHolds
<1>1. HostInv => TeardownHolds
  BY DEF HostInv, PromiseInv, TeardownHolds, StartsAtBoot
<1> QED
  BY <1>1, Invariance, PTL

(* A setup that fails after its files were written takes everything back,  *)
(* unless a command of the rollback fails too.                             *)
THEOREM FailedSetupUndone == Spec => []FailedSetupRolledBack
<1>1. HostInv => FailedSetupRolledBack
  BY DEF HostInv, ReportsInv
<1> QED
  BY <1>1, Invariance, PTL

(* From the end of the capture on the hopper starts no further command,    *)
(* unless an interrupt came before its stop event was set.                 *)
THEOREM HopperStops == Spec => HopperStopsTuning
<1> DEFINE Quiet ==
      hopper # "tune" /\ hopper' = "tune" /\ phase \in {"join", "gps", "restore", "reconnect"}
          => leftBy = "interrupt"
<1>1. HostInv /\ [Next]_vars => [Quiet]_vars
  <2> SUFFICES ASSUME HostInv, Next, hopper # "tune", hopper' = "tune",
                      phase \in {"join", "gps", "restore", "reconnect"}
               PROVE  leftBy = "interrupt"
    OBVIOUS
  <2>1. HopperInv
    BY DEF HostInv
  <2>2. CASE Hop \/ HopperFails
    <3>1. hopper = "test" /\ ~stop
      BY <2>2 DEF Hop, HopperFails, HopperTests, HopperTunes, HopperWaits, HopperStep
    <3> QED
      BY <2>1, <3>1 DEF HopperInv, Hopping
  <2>3. CASE BeginCollect \/ BeginSetup \/ BeginTeardown
    BY <2>3 DEF BeginCollect, BeginSetup, BeginTeardown, hopperVars
  <2>4. CASE OpenCapture \/ StartSniffer \/ EndCapture \/ StopHopper \/ Join
    BY <2>4 DEF OpenCapture, StartSniffer, EndCapture, StopHopper, Join, hopperVars
  <2>5. CASE StopGps
    BY <2>5 DEF StopGps, Exit, hopperVars
  <2>6. CASE Succeed
    BY <2>6 DEF Succeed, hopperVars
  <2>7. CASE Fail
    BY <2>7 DEF Fail, OnFailure, Stepping, Exit, Continue, hopperVars
  <2>8. CASE Finish
    BY <2>8 DEF Finish, Stepping, Exit, hopperVars
  <2>9. CASE Interrupt
    BY <2>9 DEF Interrupt, Exit, hopperVars
  <2>10. CASE NetworkManagerConnects \/ Reboot \/ Replug
    BY <2>10 DEF NetworkManagerConnects, Reboot, Replug, hopperVars
  <2> QED
    BY <2>2, <2>3, <2>4, <2>5, <2>6, <2>7, <2>8, <2>9, <2>10 DEF Next, Progress
<1>2. HopperStopsTuning <=> [][Quiet]_vars
  BY PTL DEF HopperStopsTuning, Quiet
<1> HIDE DEF Quiet
<1> QED
  BY <1>1, <1>2, Invariance, PTL DEF Spec

(* A Collection whose hopper died does not report success. *)
THEOREM HopperReported == Spec => []HopperDeathIsReported
<1>1. HostInv => HopperDeathIsReported
  BY DEF HostInv, ReportsInv
<1> QED
  BY <1>1, Invariance, PTL

=============================================================================
