--------------------------- MODULE Commissioning ---------------------------
(***************************************************************************)
(* The owner-gated commissioning of t300_mainline/commissioning.py, the    *)
(* systemd units its markers gate (mainline/systemd), and the configuration*)
(* transaction of ConfigDeploy that replaces the markers with the tree.    *)
(*                                                                         *)
(* One owner works at the local console: one command runs at a time, and   *)
(* between commands the owner may start and stop units by hand or edit the *)
(* configuration.  systemd works on its own: boot jobs, automatic restarts *)
(* and gate checks interleave with every step of a command.                *)
(*                                                                         *)
(* Evidence files state what the owner observed; whether they are true is  *)
(* outside the program, which configuration they name is not.              *)
(***************************************************************************)
EXTENDS ConfigDeploy

CONSTANTS
    MaxMishaps,     \* bound: reboots, kills, unit failures and hand edits
    MaxDeploys,     \* bound: configuration transactions
    MaxArms,        \* bound: maintenance authorizations
    HandStarts, HandStops \* sets of units the owner starts and stops by hand

Production == {"klipper", "moonraker", "admission"}     \* PRODUCTION_UNITS
Printer == Production \cup {"maintenance"}              \* NORMAL_PRINTER_UNITS
Units == Printer \cup {"ssh", "host", "storage"}        \* HOST_UNITS, STORAGE_UNITS
ASSUME CommissioningAssumption ==
    /\ MaxMishaps \in Nat
    /\ MaxDeploys \in Nat
    /\ MaxArms \in Nat
    /\ HandStarts \subseteq SUBSET Units
    /\ HandStops \subseteq SUBSET Units

(* systemd refuses a transaction that starts units in conflict.            *)
ASSUME NoConflictingStart ==
    \A U \in HandStarts : "maintenance" \in U => U \cap {"klipper", "moonraker"} = {}

Jobs == {"inactive", "queued", "admitted", "active"}
Pending == {"queued", "admitted"}

Commands == {"host_test_start", "host_test_accept", "host_test_abort",
             "storage_enable", "production_arm", "release_arm",
             "production_start", "release_accept", "maintenance_arm",
             "maintenance_start", "transport_enable", "transport_disable"}
Steps == {"none", "write", "start", "verify", "refresh", "undo", "revoke"}

VARIABLES
    unit,           \* job state of every unit; is-active holds for "active" only
    enabled,        \* groups enabled for the next boot
    cmd, step,      \* the running command and its next step
    held,           \* the marker it is about to write
    arms, sessions, \* history: maintenance authorizations and starts
    mishaps, deploys

command == <<cmd, step, held>>
systemd == <<unit, enabled>>
history == <<arms, sessions>>
budgets == <<mishaps, deploys>>
vars == <<deploy_vars, command, systemd, history, budgets>>

TypeOK ==
    /\ DeployTypeOK
    /\ unit \in [Units -> Jobs]
    /\ enabled \subseteq {"host", "storage", "production"}
    /\ cmd \in Commands \cup {"none"}
    /\ step \in Steps
    /\ cmd = "none" <=> step = "none"
    /\ held \in Marker
    /\ arms \in 0..MaxArms
    /\ sessions \in Nat
    /\ mishaps \in 0..MaxMishaps
    /\ deploys \in 0..MaxDeploys

Init ==
    /\ DeployInit
    /\ unit = [u \in Units |-> "inactive"]
    /\ enabled = {}
    /\ cmd = "none" /\ step = "none" /\ held = Absent
    /\ arms = 0 /\ sessions = 0
    /\ mishaps = 0 /\ deploys = 0

-----------------------------------------------------------------------------
(* Helpers of the controller.                                              *)

units_inactive(U) == \A u \in U : unit[u] # "active"

exists(g) == tree.mark[g].state # "absent"

(* _read_marker: a marker of another configuration does not count.         *)
read_marker(g, state) == tree.mark[g].state = state /\ tree.mark[g].cfg = tree.cfg

transport_closed == units_inactive({"ssh"}) /\ ~exists("transport")

(* The mounts are active only while the exact data USB is connected.       *)
storage_ready == read_marker("storage", "enabled") /\ unit["storage"] = "active"

new_marker(state, evidence) == [state |-> state, cfg |-> NoConfig, evidence |-> evidence]

(* _evidence: whatever evidence files there are, the one that is accepted  *)
(* names the configuration installed now.                                  *)
accepted_evidence == tree.cfg

Idle == cmd = "none" /\ dpc = "idle"

(* The checks and the typed confirmation passed.                           *)
Begin(c, first, marker) ==
    /\ Idle
    /\ cmd' = c /\ step' = first /\ held' = marker
    /\ UNCHANGED <<deploy_vars, systemd, history, budgets>>

EndCommand == cmd' = "none" /\ step' = "none" /\ held' = Absent

-----------------------------------------------------------------------------
(* The checks of each command.                                             *)

host_test_start ==
    /\ units_inactive(Printer)
    /\ ~exists("host") /\ ~exists("production") /\ ~exists("maintenance")
    /\ Begin("host_test_start", "write", new_marker("testing", NoConfig))

host_test_accept ==
    /\ read_marker("host", "testing")
    /\ units_inactive(Printer)
    /\ unit["host"] = "active"
    /\ Begin("host_test_accept", "write",
             [tree.mark["host"] EXCEPT !.state = "validated", !.evidence = accepted_evidence])

host_test_abort ==
    /\ read_marker("host", "testing")
    /\ Begin("host_test_abort", "undo", Absent)

storage_enable ==
    /\ units_inactive(Printer)
    /\ transport_closed
    /\ ~exists("storage")
    /\ unit["storage"] # "active"
    /\ Begin("storage_enable", "write", new_marker("enabled", NoConfig))

(* Mutant: a pending or stale production marker is overwritten.            *)
CanArmAgain ==
    /\ read_marker("host", "validated")
    /\ storage_ready
    /\ units_inactive(Printer)
    /\ transport_closed
    /\ ~exists("maintenance")

CanArm ==
    /\ read_marker("host", "validated")
    /\ storage_ready
    /\ units_inactive(Printer)
    /\ transport_closed
    /\ ~exists("maintenance")
    /\ ~exists("production")

production_arm ==
    /\ CanArm
    /\ tree.cfg \notin Unlocked
    /\ Begin("production_arm", "write", new_marker("armed", NoConfig))

(* prepare_bundle lets calibration_ready and the lock differ never, so the *)
(* journal of an unlocked configuration is one of a calibrated one.        *)
release_deployment == journal.status = "complete" /\ journal.new = tree.cfg

release_arm ==
    /\ CanArm
    /\ tree.cfg \in Unlocked
    /\ release_deployment
    /\ Begin("release_arm", "write", new_marker("armed", accepted_evidence))

production_start ==
    /\ read_marker("production", "armed")
    /\ unit["maintenance"] # "active"
    /\ storage_ready
    /\ Begin("production_start", "write",
             [tree.mark["production"] EXCEPT !.state = "started"])

release_accept ==
    /\ read_marker("host", "validated")
    /\ storage_ready
    /\ transport_closed
    /\ read_marker("production", "started")
    /\ tree.mark["production"].evidence # NoConfig
    /\ ~exists("maintenance") /\ ~exists("release")
    /\ \A u \in Production \cup {"host"} : unit[u] = "active"
    /\ Begin("release_accept", "write", new_marker("validated", accepted_evidence))

maintenance_arm ==
    /\ arms < MaxArms
    /\ units_inactive(Printer)
    /\ transport_closed
    /\ Begin("maintenance_arm", "write", new_marker("armed-once", accepted_evidence))

maintenance_start ==
    /\ units_inactive(Printer)
    /\ transport_closed
    /\ read_marker("maintenance", "armed-once")
    /\ Begin("maintenance_start", "start", Absent)

transport_enable ==
    /\ units_inactive(Printer \cup {"ssh"})
    /\ ~exists("transport")
    /\ Begin("transport_enable", "write", new_marker("enabled", NoConfig))

transport_disable ==
    /\ read_marker("transport", "enabled")
    /\ Begin("transport_disable", "undo", Absent)

Check ==
    \/ host_test_start \/ host_test_accept \/ host_test_abort \/ storage_enable
    \/ production_arm \/ release_arm \/ production_start \/ release_accept
    \/ maintenance_arm \/ maintenance_start \/ transport_enable \/ transport_disable

-----------------------------------------------------------------------------
(* systemctl.                                                              *)

(* Conflicts= of klipper-maintenance.service works both ways.              *)
Conflicts(U) ==
    (IF U \cap {"klipper", "moonraker"} # {} THEN {"maintenance"} ELSE {})
        \cup (IF "maintenance" \in U THEN {"klipper", "moonraker"} ELSE {})

(* Requires= of the G-code bind mount.                                     *)
Requires(U) == IF U \cap {"moonraker", "admission"} # {} THEN U \cup {"storage"} ELSE U
RequiredBy(U) == IF "storage" \in U THEN U \cup {"moonraker", "admission"} ELSE U

Start(U) ==
    unit' = [u \in Units |->
                IF u \in Requires(U) /\ unit[u] = "inactive" THEN "queued"
                ELSE IF u \in Conflicts(U) THEN "inactive" ELSE unit[u]]

Stop(U) == unit' = [u \in Units |-> IF u \in RequiredBy(U) THEN "inactive" ELSE unit[u]]

-----------------------------------------------------------------------------
(* The steps after the checks.                                             *)

GateOf(c) ==
    CASE c \in {"host_test_start", "host_test_accept", "host_test_abort"} -> "host"
      [] c = "storage_enable" -> "storage"
      [] c \in {"production_arm", "release_arm", "production_start"} -> "production"
      [] c = "release_accept" -> "release"
      [] c \in {"maintenance_arm", "maintenance_start"} -> "maintenance"
      [] OTHER -> "transport"

(* What the command enables for the next boot, and what it starts.         *)
Enables(c) ==
    CASE c = "host_test_accept" -> {"host"}
      [] c = "storage_enable" -> {"storage"}
      [] c \in {"production_arm", "release_arm"} -> {"production"}
      [] OTHER -> {}

Starts(c) ==
    CASE c = "host_test_start" -> {"host"}
      [] c = "storage_enable" -> {"storage"}
      [] c = "production_start" -> Production
      [] c = "maintenance_start" -> {"maintenance"}
      [] c = "transport_enable" -> {"ssh"}
      [] OTHER -> {}

(* What its exception handler stops.                                       *)
UndoStops(c) ==
    CASE c = "host_test_start" -> Printer \cup {"host"}
      [] c \in {"host_test_accept", "host_test_abort"} -> {"host"}
      [] c = "storage_enable" -> {"storage"}
      [] c \in {"production_arm", "release_arm", "production_start"} -> Production
      [] c = "maintenance_start" -> {"maintenance"}
      [] OTHER -> {"ssh"}

UndoDisables(c) == IF c = "host_test_abort" THEN {"host"} ELSE Enables(c)

(* Mutant: the marker directory is written anew.                           *)
SetOnlyMarker(g, m) ==
    /\ tree' = [tree EXCEPT !.mark = [h \in Gates |-> IF h = g THEN m ELSE Absent]]
    /\ UNCHANGED <<sibling, previous, stale, journal, dpc, locals, notes, replaced>>

SetMarker(g, m) ==
    /\ tree' = [tree EXCEPT !.mark[g] = m]
    /\ UNCHANGED <<sibling, previous, stale, journal, dpc, locals, notes, replaced>>

(* Accepting and starting update the marker that was read; every other     *)
(* command binds a new one to the configuration installed now.             *)
Bound(m) ==
    IF cmd \in {"host_test_accept", "production_start"} THEN m ELSE [m EXCEPT !.cfg = tree.cfg]

CommandWrites ==
    /\ step = "write"
    /\ SetMarker(GateOf(cmd), Bound(held))
    /\ \/ /\ cmd \in {"release_accept", "maintenance_arm"}
          /\ EndCommand
       \/ /\ cmd \notin {"release_accept", "maintenance_arm"}
          /\ step' = "start"
          /\ UNCHANGED <<cmd, held>>
    /\ arms' = IF cmd = "maintenance_arm" THEN arms + 1 ELSE arms
    /\ UNCHANGED <<systemd, sessions, budgets>>

CommandStarts ==
    /\ step = "start"
    /\ enabled' = enabled \cup Enables(cmd)
    /\ Start(Starts(cmd))
    /\ step' = "verify"
    /\ UNCHANGED <<deploy_vars, cmd, held, history, budgets>>

(* systemctl start has returned and the units are what they should be.     *)
Confirmed ==
    /\ \A u \in Starts(cmd) : unit[u] = "active"
    /\ cmd = "host_test_start" => units_inactive(Printer)
    /\ cmd = "maintenance_start" => ~exists("maintenance")

(* storage_enable restarts the touchscreen bridge, which stands here for   *)
(* the host units, so that it sees the new mounts.                         *)
BridgeSeesMounts == cmd = "storage_enable" => unit["host"] # "active"

CommandRefreshes ==
    /\ step = "verify"
    /\ Confirmed
    /\ ~BridgeSeesMounts
    /\ unit' = [unit EXCEPT !["host"] = "queued"]
    /\ step' = "refresh"
    /\ UNCHANGED <<deploy_vars, cmd, held, enabled, history, budgets>>

CommandSucceeds ==
    /\ \/ step = "verify" /\ Confirmed /\ BridgeSeesMounts
       \/ step = "refresh" /\ unit["host"] = "active"
    /\ EndCommand
    /\ UNCHANGED <<deploy_vars, systemd, history, budgets>>

(* A unit that is not active, a systemctl that fails or exceeds its 90 s,  *)
(* or an interrupt.                                                        *)
CommandFails ==
    /\ step \in {"start", "verify", "refresh"}
    /\ step' = "undo"
    /\ UNCHANGED <<deploy_vars, cmd, held, systemd, history, budgets>>

CommandUndoes ==
    /\ step = "undo"
    /\ Stop(UndoStops(cmd))
    /\ enabled' = enabled \ UndoDisables(cmd)
    /\ \/ cmd = "maintenance_start" /\ EndCommand
       \/ cmd # "maintenance_start" /\ step' = "revoke" /\ UNCHANGED <<cmd, held>>
    /\ UNCHANGED <<deploy_vars, history, budgets>>

(* production_start goes back to the armed marker, or to none when that    *)
(* cannot be written.                                                      *)
CommandRevokes ==
    /\ step = "revoke"
    /\ \/ SetMarker(GateOf(cmd), Absent)
       \/ /\ cmd = "production_start"
          /\ SetMarker("production", [held EXCEPT !.state = "armed"])
    /\ EndCommand
    /\ UNCHANGED <<systemd, history, budgets>>

CommandStep ==
    \/ CommandWrites \/ CommandStarts \/ CommandRefreshes \/ CommandSucceeds
    \/ CommandFails \/ CommandUndoes \/ CommandRevokes

-----------------------------------------------------------------------------
(* systemd: the jobs of the units.                                         *)

(* After= and Before=: a job waits for the jobs of the earlier units.  The *)
(* host group stands for four files of which crowsnest.service waits for   *)
(* none of these units, the maintenance unit for its process on the host;  *)
(* UnitJobs has every file on its own.                                     *)
Earlier(u) ==
    CASE u = "admission" -> {"storage"}
      [] u = "klipper" -> {"storage", "admission", "maintenance"}
      [] u = "moonraker" -> {"storage", "admission", "klipper", "maintenance"}
      [] OTHER -> {}

(* ExecCondition of the unit.                                              *)
check_service_gate(u) ==
    CASE u \in Production ->
            /\ transport_closed
            /\ read_marker("production", "started")
            /\ read_marker("host", "validated")
            /\ storage_ready
      [] u = "ssh" -> units_inactive(Printer) /\ read_marker("transport", "enabled")
      [] OTHER ->
            \/ read_marker("host", "validated")
            \/ read_marker("host", "testing") /\ units_inactive(Printer)

SetUnit(u, j) == unit' = [unit EXCEPT ![u] = j]

RunGate(u) ==
    /\ u \in Production \cup {"ssh", "host"}
    /\ unit[u] = "queued"
    /\ \A e \in Earlier(u) : unit[e] \notin Pending
    /\ SetUnit(u, IF check_service_gate(u) THEN "admitted" ELSE "inactive")
    /\ UNCHANGED <<deploy_vars, command, enabled, history, budgets>>

(* Mutant: the authorization stays for the next start.                     *)
leave_maintenance_marker == SetMarker("maintenance", tree.mark["maintenance"])

unlink_maintenance_marker == SetMarker("maintenance", Absent)

(* ExecStartPre of klipper-maintenance.service, which is not reached when  *)
(* the host MCU service it is bound to does not come up.                   *)
consume_maintenance_marker ==
    /\ unit["maintenance"] = "queued"
    /\ \/ /\ units_inactive(Production)
          /\ read_marker("maintenance", "armed-once")
          /\ unlink_maintenance_marker
          /\ SetUnit("maintenance", "admitted")
          /\ sessions' = sessions + 1
       \/ /\ SetUnit("maintenance", "inactive")
          /\ UNCHANGED <<deploy_vars, sessions>>
    /\ UNCHANGED <<command, enabled, arms, budgets>>

(* The mounts: ConditionPathExists, then the device itself.                *)
Mount ==
    /\ unit["storage"] = "queued"
    /\ \/ exists("storage") /\ SetUnit("storage", "active")
       \/ SetUnit("storage", "inactive")
    /\ UNCHANGED <<deploy_vars, command, enabled, history, budgets>>

(* ExecStart.                                                              *)
Exec(u) ==
    /\ unit[u] = "admitted"
    /\ SetUnit(u, "active")
    /\ UNCHANGED <<deploy_vars, command, enabled, history, budgets>>

Job(u) ==
    \/ RunGate(u) \/ Exec(u)
    \/ u = "maintenance" /\ consume_maintenance_marker
    \/ u = "storage" /\ Mount

-----------------------------------------------------------------------------
(* The owner between commands, and what goes wrong.                        *)

OwnerStarts(U) ==
    /\ Idle
    /\ Start(U)
    /\ UNCHANGED <<deploy_vars, command, enabled, history, budgets>>

OwnerStops(U) ==
    /\ Idle
    /\ Stop(U)
    /\ UNCHANGED <<deploy_vars, command, enabled, history, budgets>>

Mishap == mishaps < MaxMishaps /\ mishaps' = mishaps + 1 /\ UNCHANGED deploys

OwnerEdits(c) ==
    /\ cmd = "none"
    /\ Mishap
    /\ HandEdit(c)
    /\ UNCHANGED <<command, systemd, history>>

(* Restart=on-failure queues the unit again; Klipper, maintenance and the  *)
(* mounts stay down.                                                       *)
UnitFails(u) ==
    /\ unit[u] = "active"
    /\ Mishap
    /\ \/ u \in {"moonraker", "admission", "ssh", "host"}
          /\ SetUnit(u, "queued")
       \/ u \in {"klipper", "maintenance", "storage"} /\ Stop({u})
    /\ UNCHANGED <<deploy_vars, command, enabled, history>>

(* SIGKILL, or a systemctl that exceeds its 90 s in the exception handler: *)
(* nothing more is undone.                                                 *)
CommandKilled ==
    /\ cmd # "none"
    /\ Mishap
    /\ EndCommand
    /\ UNCHANGED <<deploy_vars, systemd, history>>

DeployKilled ==
    /\ dpc # "idle"
    /\ Mishap
    /\ DeployDies
    /\ UNCHANGED <<command, systemd, history>>

(* Power loss: the enabled units are queued at boot.                       *)
BootUnits ==
    (enabled \cap {"host", "storage"}) \cup (IF "production" \in enabled THEN Production ELSE {})

Reboot ==
    /\ Mishap
    /\ unit' = [u \in Units |-> IF u \in Requires(BootUnits) THEN "queued" ELSE "inactive"]
    /\ EndCommand
    /\ \/ dpc # "idle" /\ DeployDies
       \/ dpc = "idle" /\ UNCHANGED deploy_vars
    /\ UNCHANGED <<enabled, history>>

(* apply_bundle, after its own check of the units.                         *)
DeployApply(c) ==
    /\ cmd = "none"
    /\ deploys < MaxDeploys
    /\ deploys' = deploys + 1
    /\ units_inactive(Printer \cup {"host", "ssh"})
    /\ Apply(c)
    /\ UNCHANGED <<command, systemd, history, mishaps>>

Deploy ==
    /\ DeployStep
    /\ UNCHANGED <<command, systemd, history, budgets>>

Owner ==
    \/ \E U \in HandStarts : OwnerStarts(U)
    \/ \E U \in HandStops : OwnerStops(U)
    \/ \E c \in Configs : OwnerEdits(c) \/ DeployApply(c)

Disturbance ==
    \/ \E u \in Units : UnitFails(u)
    \/ CommandKilled \/ DeployKilled \/ Reboot

Next ==
    \/ Check \/ CommandStep \/ Deploy \/ Owner \/ Disturbance
    \/ \E u \in Units : Job(u)

Spec == Init /\ [][Next]_vars

(* Bound of a run: a maintenance authorization and a deployment happen in  *)
(* different behaviours, and maintenance is not asked for before there was *)
(* an authorization.                                                       *)
ArmOrDeploy ==
    /\ arms = 0 \/ deploys = 0
    /\ arms = 0 => unit["maintenance"] = "inactive"

-----------------------------------------------------------------------------
(* Properties.                                                             *)

(* "unlock only through owner evidence tied to that configuration hash":   *)
(* whatever is deployed, rolled back, edited, killed or restarted, a       *)
(* production marker that counts for an unlocked configuration records     *)
(* evidence for that very configuration.                                   *)
UnlockedNeedsEvidence ==
    exists("production") /\ tree.mark["production"].cfg = tree.cfg /\ tree.cfg \in Unlocked
        => tree.mark["production"].evidence = tree.cfg

(* A final release that counts rests on a started, evidence-backed release *)
(* candidate and a validated host of the same configuration.               *)
ReleaseIsEarned ==
    read_marker("release", "validated") =>
        /\ read_marker("production", "started")
        /\ tree.mark["production"].evidence = tree.cfg
        /\ read_marker("host", "validated")

(* Maintenance is a one-time exception: every start of it uses up one      *)
(* authorization of its own, also across kills and reboots, and "Normal    *)
(* Klipper and Moonraker must be stopped first": they never run beside it. *)
MaintenanceOneUse ==
    /\ sessions + (IF exists("maintenance") THEN 1 ELSE 0) <= arms
    /\ unit["maintenance"] \in {"admitted", "active"} =>
          units_inactive({"klipper", "moonraker"})
=============================================================================
