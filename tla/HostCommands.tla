---------------------------- MODULE HostCommands ----------------------------
(***************************************************************************)
(* The capture card and the system files of the host, and what the system  *)
(* commands and file operations do to them that interface_manager.py and   *)
(* monitor_setup.py run: nmcli, ip, iw, udevadm, systemctl, write, unlink. *)
(* A host is a record; a command has its effect or fails, and one that     *)
(* fails may have done a part of its work.                                 *)
(***************************************************************************)
EXTENDS Naturals, Sequences

Hosts ==
    [type: {"managed", "monitor"}, \* iw dev ... info
     up: BOOLEAN,                  \* ip link
     nm: BOOLEAN,                  \* does NetworkManager manage the card?
     connected: BOOLEAN,
     unit: BOOLEAN,                \* /etc/systemd/system/cyberbrein-monitor@.service
     nm_conf: BOOLEAN,             \* NetworkManager's file with the unmanaged device
     udev_rule: BOOLEAN,           \* starts the service when the card appears
     enabled: BOOLEAN,             \* the service starts at boot
     active: BOOLEAN]              \* the service was started and not stopped

FreshHost ==
    [type |-> "managed", up |-> TRUE, nm |-> TRUE, connected |-> FALSE, unit |-> FALSE,
     nm_conf |-> FALSE, udev_rule |-> FALSE, enabled |-> FALSE, active |-> FALSE]

Commands ==
    {"disconnect", "connect", "unmanage", "manage", "down", "up", "monitor", "managed",
     "check_monitor", "check_managed", "write_unit", "write_nm", "write_udev", "rm_nm", "rm_udev",
     "reload_udev", "daemon_reload", "enable", "restart", "disable"}

(* The type of a card can only be changed while it is down; systemctl      *)
(* needs the unit; a check succeeds on the right type.                     *)
CanSucceed(command, h) ==
    CASE command \in {"monitor", "managed"} -> ~h.up \/ h.type = command
      [] command = "check_monitor"          -> h.type = "monitor"
      [] command = "check_managed"          -> h.type = "managed"
      [] command \in {"enable", "restart"}  -> h.unit
      [] command = "connect"                -> h.nm /\ h.up /\ h.type = "managed"
      [] OTHER                              -> TRUE

(* ExecStart and ExecStop of the unit: down, set the type, up. *)
Started(h) == [h EXCEPT !.type = "monitor", !.up = TRUE, !.connected = FALSE, !.active = TRUE]
Stopped(h) ==
    IF h.active THEN [h EXCEPT !.type = "managed", !.up = TRUE, !.connected = FALSE, !.active = FALSE]
                ELSE h

Effect(command, h) ==
    CASE command = "disconnect" -> [h EXCEPT !.connected = FALSE]
      [] command = "connect"    -> [h EXCEPT !.connected = TRUE]
      [] command = "unmanage"   -> [h EXCEPT !.nm = FALSE, !.connected = FALSE]
      [] command = "manage"     -> [h EXCEPT !.nm = TRUE]
      [] command = "down"       -> [h EXCEPT !.up = FALSE, !.connected = FALSE]
      [] command = "up"         -> [h EXCEPT !.up = TRUE]
      [] command \in {"monitor", "managed"} -> [h EXCEPT !.type = command]
      [] command = "write_unit" -> [h EXCEPT !.unit = TRUE]
      [] command = "write_nm"   -> [h EXCEPT !.nm_conf = TRUE]
      [] command = "write_udev" -> [h EXCEPT !.udev_rule = TRUE]
      [] command = "rm_nm"      -> [h EXCEPT !.nm_conf = FALSE]
      [] command = "rm_udev"    -> [h EXCEPT !.udev_rule = FALSE]
      [] command = "enable"     -> [h EXCEPT !.enabled = TRUE]
      [] command = "restart"    -> Started(h)
      [] command = "disable"    -> [Stopped(h) EXCEPT !.enabled = FALSE]
      [] OTHER                  -> h

(* A file can fail its mode check after it was put in place, enable after  *)
(* its link was made; a restart can fail at each command of ExecStop and   *)
(* ExecStart; disable --now can fail before or in ExecStop.                *)
FailedEffects(command, h) ==
    {h} \cup
    CASE command \in {"write_unit", "write_nm", "write_udev", "enable"} -> {Effect(command, h)}
      [] command = "restart" ->
            {[h EXCEPT !.active = FALSE], [Stopped(h) EXCEPT !.active = FALSE]} \cup
            {[h EXCEPT !.type = t, !.up = FALSE, !.connected = FALSE, !.active = FALSE] :
                t \in {"managed", "monitor"}}
      [] command = "disable" ->
            {[h EXCEPT !.enabled = FALSE]} \cup
            {[h EXCEPT !.enabled = FALSE, !.active = FALSE, !.type = t, !.up = FALSE,
                       !.connected = FALSE] : t \in IF h.active THEN {h.type, "managed"} ELSE {}}
      [] OTHER -> {}

(* Does the service start when the host boots or the card appears? *)
StartsAtBoot(h) == h.unit /\ (h.enabled \/ h.udev_rule)

Appeared(h, starts, managed) ==
    LET off == [h EXCEPT !.type = "managed", !.up = TRUE, !.connected = FALSE, !.active = FALSE,
                         !.nm = managed]
    IN  IF starts THEN Started(off) ELSE off

=============================================================================
