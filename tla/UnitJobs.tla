------------------------------ MODULE UnitJobs ------------------------------
(***************************************************************************)
(* The start and stop jobs of systemd over every unit file of              *)
(* mainline/systemd and the mount of the data USB.                         *)
(*                                                                         *)
(* Which unit waits for which, which starts or stops another and which two *)
(* exclude each other is spread over eleven files.  Here each file is a    *)
(* record of its own, and systemd's rules turn them into transactions of   *)
(* jobs that interleave with failures, restarts and further requests.      *)
(* Whether a condition, a gate or a start succeeds is left open: the gates *)
(* are those of Commissioning.  ssh.service has no ordering of its own;    *)
(* of the targets only local-fs.target lies between two of these units.    *)
(***************************************************************************)
EXTENDS Integers

CONSTANTS
    Boots,          \* sets of units enabled at boot
    StartRequests, StopRequests, \* sets of units systemctl is asked for
    MaxRequests,    \* bound: systemctl calls
    MaxMishaps      \* bound: failed starts and services that end

Units == {"crowsnest", "mainsail", "gateway", "bridge", "host_mcu", "maintenance",
          "klipper", "moonraker", "admission", "gcodes", "data", "local_fs"}

ASSUME UnitJobsAssumption ==
    /\ MaxRequests \in Nat /\ MaxMishaps \in Nat
    /\ Boots \cup StartRequests \cup StopRequests \subseteq SUBSET Units

VARIABLES
    state,      \* state of every unit; "restarting" is the pause of RestartSec=
    job,        \* the job queued for it
    requests, mishaps

vars == <<state, job, requests, mishaps>>

TypeOK ==
    /\ state \in [Units -> {"inactive", "starting", "active", "restarting"}]
    /\ job \in [Units -> {"none", "start", "stop"}]
    /\ requests \in 0..MaxRequests /\ mishaps \in 0..MaxMishaps

-----------------------------------------------------------------------------
(* The unit files.                                                         *)

Plain == [after |-> {}, before |-> {}, requires |-> {}, binds |-> {}, wants |-> {},
          conflicts |-> {}, partOf |-> {}, restarts |-> FALSE]

crowsnest_service == [Plain EXCEPT !.restarts = TRUE]
mainsail_service ==
    [Plain EXCEPT !.after = {"moonraker", "crowsnest"}, !.wants = {"crowsnest"},
                  !.restarts = TRUE]
t300_touchscreen_gateway_service == [Plain EXCEPT !.after = {"moonraker"}, !.restarts = TRUE]
t300_touchscreen_bridge_service ==
    [Plain EXCEPT !.after = {"gateway"}, !.wants = {"gateway"}, !.restarts = TRUE]

(* Mutant: the process waits for the service that waits for it.            *)
host_mcu_after_maintenance ==
    [Plain EXCEPT !.after = {"maintenance"}, !.partOf = {"maintenance"}, !.restarts = TRUE]

t300_host_mcu_service ==
    [Plain EXCEPT !.before = {"maintenance"}, !.partOf = {"maintenance"}, !.restarts = TRUE]

(* Mutant: Conflicts= without an order.                                    *)
maintenance_unordered ==
    [Plain EXCEPT !.conflicts = {"klipper", "moonraker"},
                  !.binds = {"host_mcu"}, !.after = {"host_mcu"}]

klipper_maintenance_service ==
    [Plain EXCEPT !.conflicts = {"klipper", "moonraker"}, !.before = {"klipper", "moonraker"},
                  !.binds = {"host_mcu"}, !.after = {"host_mcu"}]
klipper_service == [Plain EXCEPT !.conflicts = {"maintenance"}, !.after = {"gcodes"}]
moonraker_service ==
    [Plain EXCEPT !.requires = {"gcodes"}, !.after = {"klipper", "gcodes"}, !.restarts = TRUE]

t300_admission_service ==
    [Plain EXCEPT !.requires = {"gcodes"}, !.after = {"gcodes"},
                  !.before = {"klipper", "moonraker"}, !.restarts = TRUE]
gcodes_mount ==
    [Plain EXCEPT !.requires = {"data"}, !.after = {"data"},
                  !.before = {"admission", "klipper", "moonraker"}]

data_mount == [Plain EXCEPT !.before = {"moonraker"}]

(* Implicit: mounts come before this target, services after it.            *)
local_fs_target ==
    [Plain EXCEPT !.after = {"data", "gcodes"},
                  !.before = Units \ {"data", "gcodes", "local_fs"}]

File == [u \in Units |->
    CASE u = "crowsnest" -> crowsnest_service
      [] u = "mainsail" -> mainsail_service
      [] u = "gateway" -> t300_touchscreen_gateway_service
      [] u = "bridge" -> t300_touchscreen_bridge_service
      [] u = "host_mcu" -> t300_host_mcu_service
      [] u = "maintenance" -> klipper_maintenance_service
      [] u = "klipper" -> klipper_service
      [] u = "moonraker" -> moonraker_service
      [] u = "admission" -> t300_admission_service
      [] u = "gcodes" -> gcodes_mount
      [] u = "data" -> data_mount
      [] u = "local_fs" -> local_fs_target]

-----------------------------------------------------------------------------
(* What systemd makes of them.                                             *)

(* The units that are reached from each unit.                              *)
Closure(Step) ==
    LET reach[S \in SUBSET Units] ==
            LET T == S \cup UNION {Step[u] : u \in S}
            IN IF T = S THEN S ELSE reach[T]
    IN [u \in Units |-> reach[{u}]]

(* After= and Before=.                                                     *)
Earlier == [u \in Units |-> File[u].after \cup {v \in Units : u \in File[v].before}]
Later == [u \in Units |-> {v \in Units : u \in Earlier[v]}]

(* A start pulls in Requires=, BindsTo= and Wants=; a stop takes along what *)
(* requires the unit, is bound to it or part of it.                        *)
PullsIn == Closure([u \in Units |-> File[u].requires \cup File[u].binds \cup File[u].wants])
TakesAlong ==
    Closure([u \in Units |->
                {v \in Units : u \in File[v].requires \cup File[v].binds \cup File[v].partOf}])
BoundTo == [u \in Units |-> {v \in Units : u \in File[v].binds}]

Started(U) == UNION {PullsIn[u] : u \in U}
Stopped(U) == UNION {TakesAlong[u] : u \in U}

(* Conflicts= works both ways.                                             *)
Excludes ==
    [u \in Units |-> {v \in Units : v \in File[u].conflicts \/ u \in File[v].conflicts}]

(* A unit that is down or waits for its restart needs no stop job.         *)
Down == {"inactive", "restarting"}
Up == {"starting", "active"}

StopAll(T) ==
    /\ state' = [u \in Units |-> IF u \in T /\ state[u] \in Down THEN "inactive" ELSE state[u]]
    /\ job' = [u \in Units |->
                  IF u \in T THEN IF state[u] \in Up THEN "stop" ELSE "none" ELSE job[u]]

(* One transaction, refused when it would start and stop the same unit.  A *)
(* later job replaces the one that is queued.                              *)
StartAll(U) ==
    LET S == Started(U)
        T == Stopped(UNION {Excludes[u] : u \in S})
    IN /\ S \cap T = {}
       /\ state' = [u \in Units |->
              IF u \in S \cup T /\ state[u] \in Down THEN "inactive" ELSE state[u]]
       /\ job' = [u \in Units |->
              CASE u \in S -> IF state[u] = "active" THEN "none" ELSE "start"
                [] u \in T -> IF state[u] \in Up THEN "stop" ELSE "none"
                [] OTHER -> job[u]]

-----------------------------------------------------------------------------
(* The jobs.  A start waits for every job of the earlier units and for the *)
(* stops of the later ones, a stop for the stops of the later units.       *)

MayStart(u) ==
    /\ job[u] = "start" /\ state[u] = "inactive"
    /\ \A v \in Earlier[u] : job[v] = "none"
    /\ \A v \in Later[u] : job[v] # "stop"

Begin(u) ==
    /\ MayStart(u)
    /\ \A v \in File[u].binds : state[v] = "active"
    /\ state' = [state EXCEPT ![u] = "starting"]
    /\ UNCHANGED <<job, requests, mishaps>>

(* A condition or the gate is not met, or a unit it is bound to is not up. *)
Skip(u) ==
    /\ u # "local_fs" /\ MayStart(u)
    /\ job' = [job EXCEPT ![u] = "none"]
    /\ UNCHANGED <<state, requests, mishaps>>

Succeed(u) ==
    /\ state[u] = "starting" /\ job[u] # "stop"
    /\ state' = [state EXCEPT ![u] = "active"]
    /\ job' = [job EXCEPT ![u] = "none"]
    /\ UNCHANGED <<requests, mishaps>>

Finish(u) ==
    /\ job[u] = "stop"
    /\ \A v \in Later[u] : job[v] # "stop"
    /\ state' = [state EXCEPT ![u] = "inactive"]
    /\ job' = [job EXCEPT ![u] = "none"]
    /\ UNCHANGED <<requests, mishaps>>

(* RestartSec= is over.                                                    *)
Restart(u) ==
    /\ state[u] = "restarting"
    /\ StartAll({u})
    /\ UNCHANGED <<requests, mishaps>>

MayFail(v) == job[v] = "start" /\ state[v] = "inactive"
AfterFailure(u) == IF File[u].restarts THEN "restarting" ELSE "inactive"

(* ExecStartPre fails or the start exceeds its timeout: the starts that    *)
(* require the unit fail with it.                                          *)
Fail(u) ==
    /\ u # "local_fs" /\ state[u] = "starting" /\ job[u] # "stop"
    /\ mishaps < MaxMishaps /\ mishaps' = mishaps + 1
    /\ state' = [state EXCEPT ![u] = AfterFailure(u)]
    /\ job' = [v \in Units |->
          IF v = u \/ (MayFail(v) /\ u \in File[v].requires \cup File[v].binds)
          THEN "none" ELSE job[v]]
    /\ UNCHANGED requests

(* A service dies or the stick is pulled out: what is bound to it stops,   *)
(* for a mount what requires it as well.                                   *)
Exit(u) ==
    /\ u # "local_fs" /\ state[u] = "active" /\ job[u] = "none"
    /\ mishaps < MaxMishaps /\ mishaps' = mishaps + 1
    /\ LET T == IF u \in {"data", "gcodes"} THEN Stopped({u})
                ELSE Stopped(BoundTo[u]) \ {u}
       IN /\ job' = [v \in Units |-> IF v \in T \ {u} THEN IF state[v] \in Up THEN "stop" ELSE "none"
                                     ELSE job[v]]
          /\ state' = [v \in Units |-> IF v = u THEN AfterFailure(u)
                                       ELSE IF v \in T /\ state[v] \in Down THEN "inactive"
                                       ELSE state[v]]
    /\ UNCHANGED requests

Systemctl ==
    /\ requests < MaxRequests /\ requests' = requests + 1
    /\ \/ \E U \in StartRequests : StartAll(U)
       \/ \E U \in StopRequests : StopAll(Stopped(U))
    /\ UNCHANGED mishaps

Init ==
    /\ state = [u \in Units |-> "inactive"]
    /\ \E U \in Boots :
          job = [u \in Units |-> IF u \in Started(U \cup {"local_fs"}) THEN "start" ELSE "none"]
    /\ requests = 0 /\ mishaps = 0

Runs(u) == Begin(u) \/ Skip(u) \/ Succeed(u) \/ Finish(u) \/ Restart(u)

Next ==
    \/ \E u \in Units : Runs(u) \/ Fail(u) \/ Exit(u)
    \/ Systemctl

(* systemd works off its queue; a start ends by TimeoutStartSec=, a stop by *)
(* TimeoutStopSec=.                                                        *)
Spec == Init /\ [][Next]_vars /\ WF_vars(\E u \in Units : Runs(u))

Settled == \A u \in Units : job[u] = "none"

-----------------------------------------------------------------------------
(* No two drivers of one printer: Klipper and Moonraker never run beside   *)
(* the maintenance service, whichever of them is asked for while the other *)
(* still stops (klipper-maintenance.service:3).                            *)
OneDriver ==
    state["maintenance"] \in Up => state["klipper"] \in Down /\ state["moonraker"] \in Down

(* After=, Before=, Requires=, BindsTo= and Conflicts= of the files let    *)
(* every job end: no circle of jobs waits for itself, at boot, after a     *)
(* request or after a failure.                                             *)
JobsSettle == []<>Settled
=============================================================================
