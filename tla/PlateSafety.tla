---------------------------- MODULE PlateSafety ----------------------------
(***************************************************************************)
(* The build-plate guard of mainline/klippy/extras/t300_safety.py together *)
(* with the lifecycle macros (mainline/config/production/lifecycle.cfg)    *)
(* that run through it and the upstream Klipper objects it calls           *)
(* (virtual_sdcard, pause_resume, the hotend heater), which are modelled   *)
(* from the way the guard and the macros use them.                         *)
(*                                                                         *)
(* Klipper runs every script under one G-code mutex.  Here pc = "idle"     *)
(* means the mutex is free: an operator command or the next virtual-SD     *)
(* line may be dispatched.  Any other pc is the next command of a macro    *)
(* that holds the mutex; only a shutdown and the temperature may move      *)
(* between its commands.                                                   *)
(***************************************************************************)
EXTENDS Integers, FiniteSets

CONSTANTS
    MaxLoads,       \* bound: open ApprovedGCodeFile objects per Klipper process
    MaxSequence,    \* bound: _plate_state_sequence per Klipper process
    MaxLines,       \* bound: body lines of an admitted file
    MaxLiveZ        \* policy max_live_z_adjust_total, in adjustment steps

ASSUME BoundsAssumption ==
    /\ MaxLoads \in Nat \ {0}
    /\ MaxSequence \in Nat
    /\ MaxLines \in Nat
    /\ MaxLiveZ \in Nat

None == 0           \* current_file / _print_home_file is None
Files == 1..MaxLoads

(* The commands of the macros, one program point per command whose effect  *)
(* some property can see.                                                  *)
StartPrintPoints == {"sp_pa", "sp_lane", "sp_reserve", "sp_heat", "sp_home",
                     "sp_mesh", "sp_nozzle", "sp_wait", "sp_purge"}
ReservedPoints == StartPrintPoints \ {"sp_pa", "sp_lane", "sp_reserve"}
EndPrintPoints == {"ep_dirty", "ep_retract", "ep_off", "ep_pa", "ep_z"}
CancelPoints == {"cp_guard", "cp_mark", "cp_retract", "cp_pa", "cp_z", "cp_base"}
Points == {"idle"} \cup StartPrintPoints \cup EndPrintPoints \cup CancelPoints

VARIABLES
    commissioning_lock,  \* read from the configuration when Klipper starts
    plate_ready,         \* _plate_ready
    sequence,            \* _plate_state_sequence
    print_home_file,     \* _print_home_file: the file object G28 will accept
    klippy,              \* "ready" or "shutdown"
    pc, cmd_from_sd,     \* who holds the G-code mutex, and at which command
    current_file,        \* virtual_sd.current_file: the number of the open object
    loads,               \* objects opened so far (identity generator)
    part, lines,         \* how far the worker has read in the admitted file
    active,              \* virtual_sd.is_active(): its work timer is registered
    is_paused, sd_paused,\* the two flags of pause_resume
    target, hot,         \* hotend target, and temperature >= min_extrude_temp
    advance,             \* file that set nonzero pressure advance, or None
    z_offset, homed,     \* live Z offset; all axes homed
    soiled               \* history: filament was moved since the last human check

plate == <<plate_ready, sequence>>
mutex == <<pc, cmd_from_sd>>
sdcard == <<current_file, loads, part, lines, active>>
pauses == <<is_paused, sd_paused>>
heater == <<target, hot>>
tuning == <<advance, z_offset>>
vars == <<commissioning_lock, plate, print_home_file, klippy, mutex, sdcard,
          pauses, heater, tuning, homed, soiled>>

FlagTypes ==
    /\ commissioning_lock \in BOOLEAN
    /\ plate_ready \in BOOLEAN
    /\ cmd_from_sd \in BOOLEAN
    /\ active \in BOOLEAN
    /\ is_paused \in BOOLEAN
    /\ sd_paused \in BOOLEAN
    /\ hot \in BOOLEAN
    /\ homed \in BOOLEAN
    /\ soiled \in BOOLEAN

DataTypes ==
    /\ sequence \in 0..MaxSequence
    /\ print_home_file \in Files \cup {None}
    /\ klippy \in {"ready", "shutdown"}
    /\ pc \in Points
    /\ current_file \in Files \cup {None}
    /\ loads \in Files \cup {0}
    /\ part \in {"preamble", "body", "ended"}
    /\ lines \in 0..MaxLines
    /\ target \in {"zero", "low", "high"}
    /\ advance \in Files \cup {None}
    /\ z_offset \in -MaxLiveZ..MaxLiveZ

TypeOK == FlagTypes /\ DataTypes

Init ==
    /\ commissioning_lock \in BOOLEAN
    /\ plate_ready = FALSE
    /\ sequence = 0
    /\ print_home_file = None
    /\ klippy = "ready"
    /\ pc = "idle"
    /\ cmd_from_sd = FALSE
    /\ current_file = None
    /\ loads = 0
    /\ part = "preamble"
    /\ lines = 0
    /\ active = FALSE
    /\ is_paused = FALSE
    /\ sd_paused = FALSE
    /\ target = "zero"
    /\ hot \in BOOLEAN
    /\ advance = None
    /\ z_offset = 0
    /\ homed = FALSE
    /\ soiled = TRUE

-----------------------------------------------------------------------------
(* Helpers of the guard.                                                   *)

has_loaded_print == current_file # None

(* Readiness is lost; the sequence moves only when it really changes.      *)
mark_build_plate_dirty ==
    /\ plate_ready' = FALSE
    /\ sequence' = IF plate_ready THEN sequence + 1 ELSE sequence

mark_if(condition) ==
    IF condition THEN mark_build_plate_dirty ELSE UNCHANGED plate

(* Mutant: the reservation is left standing.                               *)
KeepReservation == UNCHANGED print_home_file

clear_print_home_reservation == print_home_file' = None

(* gcode:command_error: a failure while a print is loaded costs the check. *)
handle_command_error ==
    /\ mark_if(has_loaded_print)
    /\ clear_print_home_reservation

(* Mutant: on_error_gcode answers the operator's errors too.               *)
UnwindAlways(sd) ==
    /\ pc' = "cp_guard"
    /\ cmd_from_sd' = sd
    /\ UNCHANGED <<commissioning_lock, klippy, sdcard, pauses, heater, tuning,
                   homed, soiled>>

(* Every enclosing script is aborted.  The virtual-SD worker answers an    *)
(* error of its own line by running on_error_gcode (CANCEL_PRINT) while    *)
(* that line still counts as its own.                                      *)
Unwind(sd) ==
    /\ pc' = IF sd THEN "cp_guard" ELSE "idle"
    /\ cmd_from_sd' = sd
    /\ UNCHANGED <<commissioning_lock, klippy, sdcard, pauses, heater, tuning,
                   homed, soiled>>

CommandError(sd) == handle_command_error /\ Unwind(sd)

(* A handler that had already marked the plate dirty when it failed.       *)
DirtyError(sd) ==
    mark_build_plate_dirty /\ clear_print_home_reservation /\ Unwind(sd)

(* The mutex is free, and the command comes from the operator or is the    *)
(* next body line of the admitted file the worker is running.              *)
Dispatch(sd) ==
    /\ pc = "idle"
    /\ sd => active /\ part = "body" /\ lines > 0

(* The command completed: the mutex is free again, the line is consumed.   *)
Completed(sd) ==
    /\ lines' = IF sd THEN lines - 1 ELSE lines
    /\ UNCHANGED <<commissioning_lock, klippy, mutex, current_file, loads, part>>

-----------------------------------------------------------------------------
(* Commands of the operator, and the ones an admitted file may contain.    *)

(* Any command _forbid or _lock_command replaced, or a ceiling refused.    *)
ForbiddenCommand == pc = "idle" /\ CommandError(FALSE)

(* Mutant: a paused print is overlooked.                                   *)
CanConfirmCold == ~commissioning_lock /\ ~hot /\ target = "zero"

CanConfirm ==
    /\ ~commissioning_lock
    /\ ~has_loaded_print
    /\ ~hot
    /\ target = "zero"

cmd_T_CONFIRM_STEEL_SHEET ==
    /\ pc = "idle"
    /\ \/ /\ ~CanConfirm
          /\ CommandError(FALSE)
       \/ /\ CanConfirm
          /\ sequence + 2 <= MaxSequence
          /\ clear_print_home_reservation
          /\ plate_ready' = TRUE
          /\ sequence' = IF plate_ready THEN sequence ELSE sequence + 1
          /\ soiled' = FALSE
          /\ UNCHANGED <<commissioning_lock, klippy, mutex, sdcard, pauses,
                         heater, tuning, homed>>

cmd_T_MARK_BUILD_PLATE_DIRTY ==
    /\ pc = "idle"
    /\ mark_build_plate_dirty
    /\ UNCHANGED <<commissioning_lock, print_home_file, klippy, mutex, sdcard,
                   pauses, heater, tuning, homed, soiled>>

(* G28 typed by the operator; axes is the parameter form.                  *)
(* Mutant: only a full home asks for the check.                            *)
CanHomeUnchecked(axes) ==
    ~commissioning_lock /\ ~has_loaded_print /\ (axes = "all" => plate_ready)

CanHomeIdle(axes) ==
    /\ ~commissioning_lock
    /\ ~has_loaded_print
    /\ axes \in {"all", "z"} => plate_ready

IdleHomes(axes) ==
    /\ pc = "idle"
    /\ CanHomeIdle(axes)
    /\ homed' \in IF axes = "all" THEN {TRUE} ELSE {homed, TRUE}
    /\ UNCHANGED <<commissioning_lock, plate, print_home_file, klippy, mutex,
                   sdcard, pauses, heater, tuning, soiled>>

(* Refused, failed (which costs the check), or done.                       *)
cmd_G28(axes) ==
    \/ pc = "idle" /\ ~CanHomeIdle(axes) /\ CommandError(FALSE)
    \/ pc = "idle" /\ CanHomeIdle(axes) /\ DirtyError(FALSE)
    \/ IdleHomes(axes)

(* Mutant: only a loaded print is held back by the lock.                   *)
LockRefusesPrint == commissioning_lock /\ has_loaded_print

(* _lock_command replaced G0..G3, M104, M109, M140, M190 and the mesh.     *)
LockRefuses == commissioning_lock

(* G0..G3 with an E word.  Upstream refuses to move filament when cold.    *)
cmd_G1(sd) ==
    /\ Dispatch(sd)
    /\ \/ LockRefuses /\ CommandError(sd)
       \/ ~LockRefuses /\ ~hot /\ DirtyError(sd)
       \/ /\ ~LockRefuses /\ hot
          /\ mark_build_plate_dirty
          /\ soiled' = TRUE
          /\ Completed(sd)
          /\ UNCHANGED <<print_home_file, active, pauses, heater, tuning, homed>>

(* Mutant: heating an idle printer is not a filament action.               *)
MarkLoadedTarget(t) == mark_if(t = "high" /\ has_loaded_print)

(* A target at or above min_extrude_temp_floor is "high".                  *)
mark_if_hotend_target(t) == mark_if(t = "high")

(* M104 and M109.                                                          *)
cmd_M104(sd, t) ==
    /\ Dispatch(sd)
    /\ \/ LockRefuses /\ CommandError(sd)
       \/ /\ ~LockRefuses
          /\ mark_if_hotend_target(t)
          /\ target' = t
          /\ Completed(sd)
          /\ UNCHANGED <<print_home_file, active, pauses, hot, tuning, homed, soiled>>

cmd_SET_HEATER_TEMPERATURE(t) ==
    /\ pc = "idle"
    /\ \/ commissioning_lock /\ t # "zero" /\ CommandError(FALSE)
       \/ /\ ~(commissioning_lock /\ t # "zero")
          /\ mark_if(t = "high")
          /\ target' = t
          /\ Completed(FALSE)
          /\ UNCHANGED <<print_home_file, active, pauses, hot, tuning, homed, soiled>>

(* M18 and M84.                                                            *)
disable_motors ==
    /\ pc = "idle"
    /\ \/ has_loaded_print /\ CommandError(FALSE)
       \/ /\ ~has_loaded_print
          /\ mark_build_plate_dirty
          /\ clear_print_home_reservation
          /\ homed' = FALSE
          /\ UNCHANGED <<commissioning_lock, klippy, mutex, sdcard, pauses,
                         heater, tuning, soiled>>

(* LINE_PURGE outside START_PRINT.                                         *)
cmd_LINE_PURGE ==
    /\ pc = "idle"
    /\ \/ ~(hot /\ homed /\ ~commissioning_lock) /\ DirtyError(FALSE)
       \/ /\ hot /\ homed /\ ~commissioning_lock
          /\ mark_build_plate_dirty
          /\ soiled' = TRUE
          /\ UNCHANGED <<commissioning_lock, print_home_file, klippy, mutex,
                         sdcard, pauses, heater, tuning, homed>>

(* LOAD_FILAMENT, UNLOAD_FILAMENT and T_SCREEN_FILAMENT, with the guards   *)
(* of each; G1 itself is refused under the commissioning lock.             *)
FilamentGuard(macro) ==
    IF macro = "T_SCREEN_FILAMENT"
      THEN ~commissioning_lock /\ (has_loaded_print => is_paused) /\ hot
      ELSE is_paused /\ hot

FilamentMotion(macro) ==
    /\ pc = "idle"
    /\ \/ ~FilamentGuard(macro) /\ CommandError(FALSE)
       \/ FilamentGuard(macro) /\ commissioning_lock /\ DirtyError(FALSE)
       \/ /\ FilamentGuard(macro) /\ ~commissioning_lock
          /\ mark_build_plate_dirty
          /\ soiled' = TRUE
          /\ UNCHANGED <<commissioning_lock, print_home_file, klippy, mutex,
                         sdcard, pauses, heater, tuning, homed>>

cmd_SET_PRESSURE_ADVANCE(sd, nonzero) ==
    LET allowed == has_loaded_print /\ (nonzero => active)
    IN  /\ Dispatch(sd)
        /\ \/ ~allowed /\ CommandError(sd)
           \/ /\ allowed
              /\ advance' = IF nonzero THEN current_file ELSE None
              /\ Completed(sd)
              /\ UNCHANGED <<plate, print_home_file, active, pauses, heater,
                             z_offset, homed, soiled>>

(* The total of the live adjustments is bounded, not the single step.      *)
LiveZInRange(step) == z_offset + step \in -MaxLiveZ..MaxLiveZ

(* SET_GCODE_OFFSET Z_ADJUST by the operator (step = -1 or 1), or the      *)
(* reset to zero (step = 0; with MOVE=1 it needs homed axes).              *)
cmd_SET_GCODE_OFFSET(step, move) ==
    LET allowed == IF step = 0 THEN move => homed
                   ELSE /\ has_loaded_print /\ active
                        /\ move /\ homed
                        /\ LiveZInRange(step)
    IN  /\ pc = "idle"
        /\ \/ ~allowed /\ CommandError(FALSE)
           \/ /\ allowed
              /\ z_offset' = IF step = 0 THEN 0 ELSE z_offset + step
              /\ Completed(FALSE)
              /\ UNCHANGED <<plate, print_home_file, active, pauses, heater,
                             advance, homed, soiled>>

(* SDCARD_PRINT_FILE: reset the old file, load the approved snapshot,      *)
(* start the worker.  approved = FALSE: _load_approved_file refused, after *)
(* the old file was already closed.                                        *)
cmd_SDCARD_PRINT_FILE(approved) ==
    LET allowed == ~commissioning_lock /\ plate_ready /\ ~active
    IN  /\ pc = "idle"
        /\ \/ ~allowed /\ CommandError(FALSE)
           \/ /\ allowed
              /\ clear_print_home_reservation
              /\ IF approved
                   THEN /\ loads < MaxLoads
                        /\ loads' = loads + 1
                        /\ current_file' = loads + 1
                        /\ lines' \in 0..MaxLines
                        /\ active' = TRUE
                   ELSE /\ current_file' = None
                        /\ UNCHANGED <<loads, lines, active>>
              /\ part' = "preamble"
              /\ UNCHANGED <<commissioning_lock, plate, klippy, mutex, pauses,
                             heater, tuning, homed, soiled>>

-----------------------------------------------------------------------------
(* pause_resume and the Mainsail client macros around it.                  *)

(* PAUSE: the worker stops after its line; the client macro retracts when  *)
(* the hotend is hot, which is a G1 with an E word.                        *)
PauseEffect ==
    LET retract == hot /\ ~commissioning_lock
    IN  /\ is_paused' = TRUE
        /\ sd_paused' = IF is_paused THEN sd_paused ELSE active
        /\ active' = (active /\ is_paused)
        /\ soiled' = (soiled \/ retract)
        /\ UNCHANGED <<print_home_file, heater, tuning, homed>>

PAUSE(sd) ==
    /\ Dispatch(sd)
    /\ PauseEffect
    /\ mark_if(hot /\ ~commissioning_lock)
    /\ Completed(sd)

(* M600 marks the plate dirty and pauses unless pause_resume says it is    *)
(* paused already.                                                         *)
M600(sd) ==
    /\ Dispatch(sd)
    /\ mark_build_plate_dirty
    /\ IF is_paused
         THEN UNCHANGED <<print_home_file, active, pauses, heater, tuning, homed, soiled>>
         ELSE PauseEffect
    /\ Completed(sd)

(* The runout switch opens while the worker is printing.                   *)
T_FILAMENT_RUNOUT ==
    /\ pc = "idle" /\ active
    /\ IF is_paused
         THEN UNCHANGED <<plate, print_home_file, active, pauses, heater, tuning, homed, soiled>>
         ELSE PauseEffect /\ mark_if(hot /\ ~commissioning_lock)
    /\ Completed(FALSE)

(* RESUME after a pause; with reheat the client macro restores the hotend  *)
(* target that the idle timeout took away (M109), and it undoes its        *)
(* retraction when hot.  The worker refuses to be started twice, and stops *)
(* at once when it finds no file.                                          *)
Unretracts(reheat) ==
    /\ target' = IF reheat THEN "high" ELSE target
    /\ soiled' = (soiled \/ hot \/ reheat)
    /\ Completed(FALSE)
    /\ UNCHANGED <<hot, tuning, homed>>

ResumeBusy(reheat) ==
    /\ sd_paused /\ active
    /\ mark_build_plate_dirty
    /\ clear_print_home_reservation
    /\ Unretracts(reheat)
    /\ UNCHANGED <<active, pauses>>

ResumeWorker(reheat) ==
    /\ ~(sd_paused /\ active)
    /\ mark_if(hot \/ reheat)
    /\ is_paused' = FALSE
    /\ active' = (active \/ (sd_paused /\ has_loaded_print))
    /\ sd_paused' = FALSE
    /\ Unretracts(reheat)
    /\ UNCHANGED print_home_file

RESUME(reheat) ==
    LET locked == commissioning_lock /\ (hot \/ reheat)
    IN  /\ pc = "idle" /\ is_paused
        /\ \/ locked /\ CommandError(FALSE)
           \/ ~locked /\ (ResumeBusy(reheat) \/ ResumeWorker(reheat))

CLEAR_PAUSE ==
    /\ pc = "idle"
    /\ is_paused' = FALSE
    /\ UNCHANGED <<commissioning_lock, plate, print_home_file, klippy, mutex,
                   sdcard, sd_paused, heater, tuning, homed, soiled>>

-----------------------------------------------------------------------------
(* START_PRINT.  The macro is rendered when it is dispatched, so its       *)
(* plate_ready test is made before the first of its commands runs.         *)

(* A step of a macro that only moves on to the next command.               *)
Advance(from, to) == pc = from /\ pc' = to /\ UNCHANGED cmd_from_sd

MacroFails(from) == pc = from /\ CommandError(cmd_from_sd)

START_PRINT(sd) ==
    /\ pc = "idle"
    /\ sd => active /\ part = "preamble"
    /\ \/ CommandError(sd)              \* a temperature or object test, or:
       \/ /\ plate_ready
          /\ pc' = "sp_pa"
          /\ cmd_from_sd' = sd
          /\ UNCHANGED <<commissioning_lock, plate, print_home_file, klippy,
                         sdcard, pauses, heater, tuning, homed, soiled>>

(* Mutant: the macro no longer resets pressure advance.                    *)
KeepAdvance == UNCHANGED advance

(* SET_PRESSURE_ADVANCE ADVANCE=0 of the macros.                           *)
ResetAdvance == advance' = None

(* It is refused when no print is loaded.                                  *)
StartPressureAdvance ==
    \/ ~has_loaded_print /\ MacroFails("sp_pa")
    \/ /\ has_loaded_print
       /\ Advance("sp_pa", "sp_lane")
       /\ ResetAdvance
       /\ UNCHANGED <<commissioning_lock, plate, print_home_file, klippy, sdcard,
                      pauses, heater, z_offset, homed, soiled>>

(* _T_VALIDATE_PURGE_LANE refuses a layout that leaves no purge lane.      *)
StartPurgeLane ==
    \/ MacroFails("sp_lane")
    \/ /\ Advance("sp_lane", "sp_reserve")
       /\ UNCHANGED <<commissioning_lock, plate, print_home_file, klippy, sdcard,
                      pauses, heater, tuning, homed, soiled>>

CanReserve ==
    /\ ~commissioning_lock
    /\ has_loaded_print /\ active /\ cmd_from_sd
    /\ plate_ready

ConsumeReadiness == plate_ready' = FALSE /\ sequence' = sequence + 1

(* Readiness is traded for a reservation bound to the open file object.    *)
cmd_T_RESERVE_PRINT_HOME ==
    \/ ~CanReserve /\ MacroFails("sp_reserve")
    \/ /\ CanReserve
       /\ Advance("sp_reserve", "sp_heat")
       /\ ConsumeReadiness
       /\ print_home_file' = current_file
       /\ UNCHANGED <<commissioning_lock, klippy, sdcard, pauses, heater,
                      tuning, homed, soiled>>

(* M140, M104 S150 (at the floor, hence "high") and M190.                  *)
StartHeat ==
    /\ Advance("sp_heat", "sp_home")
    /\ mark_build_plate_dirty
    /\ target' = "high"
    /\ UNCHANGED <<commissioning_lock, print_home_file, klippy, sdcard, pauses,
                   hot, tuning, homed, soiled>>

(* G28 while a print is loaded: the reservation is consumed in any case.   *)
ValidPrintHome ==
    /\ ~commissioning_lock
    /\ has_loaded_print /\ current_file = print_home_file
    /\ active /\ cmd_from_sd

PrintHomes ==
    /\ ValidPrintHome
    /\ Advance("sp_home", "sp_mesh")
    /\ clear_print_home_reservation
    /\ homed' = TRUE
    /\ UNCHANGED <<commissioning_lock, plate, klippy, sdcard, pauses, heater,
                   tuning, soiled>>

StartHome == PrintHomes \/ MacroFails("sp_home")

(* BED_MESH_CLEAR, BED_MESH_CALIBRATE, SMART_PARK: the probe may fail.     *)
StartMesh ==
    \/ MacroFails("sp_mesh")
    \/ /\ Advance("sp_mesh", "sp_nozzle")
       /\ UNCHANGED <<commissioning_lock, plate, print_home_file, klippy, sdcard,
                      pauses, heater, tuning, homed, soiled>>

(* M109 sets the printing temperature, then waits for it.                  *)
StartNozzle ==
    /\ Advance("sp_nozzle", "sp_wait")
    /\ mark_build_plate_dirty
    /\ target' = "high"
    /\ UNCHANGED <<commissioning_lock, print_home_file, klippy, sdcard, pauses,
                   hot, tuning, homed, soiled>>

StartWait ==
    /\ hot
    /\ Advance("sp_wait", "sp_purge")
    /\ UNCHANGED <<commissioning_lock, plate, print_home_file, klippy, sdcard,
                   pauses, heater, tuning, homed, soiled>>

(* LINE_PURGE, the last command; a move of the purge may be refused.       *)
StartPurge ==
    /\ pc = "sp_purge"
    /\ mark_build_plate_dirty
    /\ soiled' = TRUE
    /\ \/ /\ pc' = "idle" /\ cmd_from_sd' = FALSE
          /\ part' = IF cmd_from_sd THEN "body" ELSE part
          /\ UNCHANGED print_home_file
       \/ /\ clear_print_home_reservation
          /\ pc' = (IF cmd_from_sd THEN "cp_guard" ELSE "idle")
          /\ UNCHANGED <<cmd_from_sd, part>>
    /\ UNCHANGED <<commissioning_lock, klippy, current_file, loads, lines, active,
                   pauses, heater, tuning, homed>>

StartPrintStep ==
    \/ StartPressureAdvance \/ StartPurgeLane \/ cmd_T_RESERVE_PRINT_HOME
    \/ StartHeat \/ StartHome \/ StartMesh \/ StartNozzle
    \/ StartWait \/ StartPurge

-----------------------------------------------------------------------------
(* END_PRINT and CANCEL_PRINT.                                             *)

(* END_PRINT is the last active line of an admitted file; an operator may  *)
(* also type it.                                                           *)
END_PRINT(sd) ==
    /\ pc = "idle"
    /\ sd => active /\ part = "body" /\ lines = 0
    /\ pc' = "ep_dirty" /\ cmd_from_sd' = sd
    /\ UNCHANGED <<commissioning_lock, plate, print_home_file, klippy, sdcard,
                   pauses, heater, tuning, homed, soiled>>

(* The hidden CANCEL_PRINT wrapper is reached at cp_guard.                 *)
CANCEL_PRINT(sd) ==
    /\ Dispatch(sd)
    /\ pc' = "cp_guard" /\ cmd_from_sd' = sd
    /\ UNCHANGED <<commissioning_lock, plate, print_home_file, klippy, sdcard,
                   pauses, heater, tuning, homed, soiled>>

(* T_MARK_BUILD_PLATE_DIRTY inside a cleanup macro.                        *)
CleanupDirty ==
    /\ Advance("ep_dirty", "ep_retract") \/ Advance("cp_mark", "cp_retract")
    /\ mark_build_plate_dirty
    /\ UNCHANGED <<commissioning_lock, print_home_file, klippy, sdcard, pauses,
                   heater, tuning, homed, soiled>>

(* _T_RETRACT_IF_HOT: a G1 with an E word, only when extrusion is safe.    *)
CleanupRetract ==
    LET fails == hot /\ commissioning_lock
        next == IF pc = "ep_retract" THEN "ep_off" ELSE "cp_pa"
    IN  /\ pc \in {"ep_retract", "cp_retract"}
        /\ \/ fails /\ MacroFails(pc)
           \/ /\ ~fails
              /\ Advance(pc, next)
              /\ mark_if(hot)
              /\ soiled' = (soiled \/ hot)
              /\ UNCHANGED <<commissioning_lock, print_home_file, klippy, sdcard,
                             pauses, heater, tuning, homed>>

(* TURN_OFF_HEATERS of END_PRINT.                                          *)
EndHeatersOff ==
    /\ Advance("ep_off", "ep_pa")
    /\ target' = "zero"
    /\ UNCHANGED <<commissioning_lock, plate, print_home_file, klippy, sdcard,
                   pauses, hot, tuning, homed, soiled>>

(* SET_PRESSURE_ADVANCE ADVANCE=0, refused when no print is loaded.        *)
CleanupPressureAdvance ==
    LET next == IF pc = "ep_pa" THEN "ep_z" ELSE "cp_z"
    IN  /\ pc \in {"ep_pa", "cp_pa"}
        /\ \/ ~has_loaded_print /\ MacroFails(pc)
           \/ /\ has_loaded_print
              /\ Advance(pc, next)
              /\ ResetAdvance
              /\ UNCHANGED <<commissioning_lock, plate, print_home_file, klippy,
                             sdcard, pauses, heater, z_offset, homed, soiled>>

(* SET_GCODE_OFFSET Z=0, then parking and BED_MESH_CLEAR.                  *)
EndOffset ==
    /\ pc = "ep_z"
    /\ z_offset' = 0
    /\ pc' = "idle" /\ cmd_from_sd' = FALSE
    /\ part' = IF cmd_from_sd THEN "ended" ELSE part
    /\ UNCHANGED <<commissioning_lock, plate, print_home_file, klippy,
                   current_file, loads, lines, active, pauses, heater, advance,
                   homed, soiled>>

CancelOffset ==
    /\ Advance("cp_z", "cp_base")
    /\ z_offset' = 0
    /\ UNCHANGED <<commissioning_lock, plate, print_home_file, klippy, sdcard,
                   pauses, heater, advance, homed, soiled>>

(* cmd_CANCEL_PRINT marks, clears and enters the client macro, whose first *)
(* effect is TURN_OFF_HEATERS.                                             *)
cmd_CANCEL_PRINT ==
    /\ Advance("cp_guard", "cp_mark")
    /\ mark_build_plate_dirty
    /\ clear_print_home_reservation
    /\ target' = "zero"
    /\ UNCHANGED <<commissioning_lock, klippy, sdcard, pauses, hot, tuning,
                   homed, soiled>>

(* CANCEL_PRINT_BASE: upstream closes the file only when its worker is     *)
(* active or pause_resume holds it paused.                                 *)
CancelBase ==
    /\ pc = "cp_base" /\ pc' = "idle" /\ cmd_from_sd' = FALSE
    /\ current_file' = IF active \/ sd_paused THEN None ELSE current_file
    /\ active' = FALSE
    /\ is_paused' = FALSE
    /\ UNCHANGED <<commissioning_lock, plate, print_home_file, klippy, loads,
                   part, lines, sd_paused, heater, tuning, homed, soiled>>

CleanupStep ==
    \/ CleanupDirty \/ CleanupRetract \/ EndHeatersOff \/ CleanupPressureAdvance
    \/ EndOffset \/ CancelOffset \/ cmd_CANCEL_PRINT \/ CancelBase

-----------------------------------------------------------------------------
(* The virtual-SD worker, the hotend, and the Klipper process.             *)

(* Mutant: the worker closes the file and keeps its timer.                 *)
EndOfFileKeepsTimer ==
    /\ pc = "idle" /\ active /\ part = "ended"
    /\ current_file' = None
    /\ UNCHANGED <<commissioning_lock, plate, print_home_file, klippy, mutex,
                   loads, part, lines, active, pauses, heater, tuning, homed, soiled>>

(* End of file: the object is dropped without a reset event.               *)
SdEndOfFile ==
    /\ pc = "idle" /\ active /\ part = "ended"
    /\ current_file' = None
    /\ active' = FALSE
    /\ UNCHANGED <<commissioning_lock, plate, print_home_file, klippy, mutex,
                   loads, part, lines, pauses, heater, tuning, homed, soiled>>

(* A failed read ends the worker and leaves the file loaded.               *)
SdReadFailure ==
    /\ pc = "idle" /\ active
    /\ active' = FALSE
    /\ UNCHANGED <<commissioning_lock, plate, print_home_file, klippy, mutex,
                   current_file, loads, part, lines, pauses, heater, tuning,
                   homed, soiled>>

HeatUp ==
    /\ target = "high" /\ ~hot
    /\ hot' = TRUE
    /\ UNCHANGED <<commissioning_lock, plate, print_home_file, klippy, mutex,
                   sdcard, pauses, target, tuning, homed, soiled>>

CoolDown ==
    /\ target # "high" /\ hot
    /\ hot' = FALSE
    /\ UNCHANGED <<commissioning_lock, plate, print_home_file, klippy, mutex,
                   sdcard, pauses, target, tuning, homed, soiled>>

(* [idle_timeout]: TURN_OFF_HEATERS and M107; the motors stay enabled.     *)
IdleTimeout ==
    /\ pc = "idle" /\ ~active /\ target # "zero"
    /\ target' = "zero"
    /\ UNCHANGED <<commissioning_lock, plate, print_home_file, klippy, mutex,
                   sdcard, pauses, hot, tuning, homed, soiled>>

(* klippy:shutdown may come between any two commands, inside a macro too.  *)
(* Afterwards every command but a restart is refused by upstream.          *)
handle_shutdown ==
    /\ klippy' = "shutdown"
    /\ mark_build_plate_dirty
    /\ clear_print_home_reservation
    /\ pc' = "idle" /\ cmd_from_sd' = FALSE
    /\ active' = FALSE
    /\ target' = "zero"
    /\ UNCHANGED <<commissioning_lock, current_file, loads, part, lines, pauses,
                   hot, tuning, homed, soiled>>

(* A new Klipper process: __init__ runs again with the configured lock.    *)
(* Only the plate and the temperature survive.                             *)
Restart ==
    /\ commissioning_lock' \in BOOLEAN
    /\ plate_ready' = FALSE
    /\ sequence' = 0
    /\ print_home_file' = None
    /\ klippy' = "ready"
    /\ pc' = "idle" /\ cmd_from_sd' = FALSE
    /\ current_file' = None
    /\ loads' = 0
    /\ part' = "preamble"
    /\ lines' = 0
    /\ active' = FALSE
    /\ is_paused' = FALSE /\ sd_paused' = FALSE
    /\ target' = "zero"
    /\ advance' = None
    /\ z_offset' = 0
    /\ homed' = FALSE
    /\ UNCHANGED <<hot, soiled>>

-----------------------------------------------------------------------------
OperatorCommand ==
    \/ ForbiddenCommand \/ cmd_T_CONFIRM_STEEL_SHEET
    \/ cmd_T_MARK_BUILD_PLATE_DIRTY
    \/ \E axes \in {"all", "xy", "z"} : cmd_G28(axes)
    \/ \E t \in {"zero", "low", "high"} : cmd_SET_HEATER_TEMPERATURE(t)
    \/ disable_motors \/ cmd_LINE_PURGE
    \/ \E macro \in {"LOAD_FILAMENT", "T_SCREEN_FILAMENT"} : FilamentMotion(macro)
    \/ \E step \in {-1, 0, 1}, move \in BOOLEAN : cmd_SET_GCODE_OFFSET(step, move)
    \/ \E approved \in BOOLEAN : cmd_SDCARD_PRINT_FILE(approved)
    \/ \E reheat \in BOOLEAN : RESUME(reheat)
    \/ CLEAR_PAUSE

(* The commands that both an operator and an admitted file may issue.      *)
SharedCommand(sd) ==
    \/ cmd_G1(sd)
    \/ \E t \in {"zero", "low", "high"} : cmd_M104(sd, t)
    \/ \E nonzero \in BOOLEAN : cmd_SET_PRESSURE_ADVANCE(sd, nonzero)
    \/ PAUSE(sd) \/ M600(sd)
    \/ START_PRINT(sd) \/ END_PRINT(sd) \/ CANCEL_PRINT(sd)

Operator == OperatorCommand \/ SharedCommand(FALSE)

Worker == SharedCommand(TRUE) \/ SdEndOfFile

MacroStep == StartPrintStep \/ CleanupStep

Environment ==
    \/ HeatUp \/ CoolDown \/ IdleTimeout \/ T_FILAMENT_RUNOUT \/ SdReadFailure
    \/ handle_shutdown

Next ==
    \/ klippy = "ready" /\ (Operator \/ Worker \/ MacroStep \/ Environment)
    \/ Restart

Spec == Init /\ [][Next]_vars

(* A macro that holds the mutex keeps running, the hotend follows its      *)
(* target, and the worker dispatches its next line whenever the mutex      *)
(* stays free.  Nothing obliges the operator.                              *)
Fairness ==
    /\ WF_vars(klippy = "ready" /\ MacroStep)
    /\ WF_vars(klippy = "ready" /\ HeatUp)
    /\ WF_vars(klippy = "ready" /\ Worker)

FairSpec == Spec /\ Fairness

-----------------------------------------------------------------------------
(* Safety.                                                                 *)

(* build_plate_state_sequence changes exactly when readiness does, whoever *)
(* changes it: a client that compares two samples can trust the parity.    *)
SequenceTracksReadiness == plate_ready <=> sequence % 2 = 1

(* The authority to home inside a print exists only between                *)
(* T_RESERVE_PRINT_HOME and the G28 of the same START_PRINT, for the very  *)
(* file object that is still open and running, and never beside readiness. *)
ReservationIsBound ==
    print_home_file # None =>
        /\ print_home_file = current_file
        /\ active /\ cmd_from_sd
        /\ pc \in {"sp_heat", "sp_home"}
        /\ ~plate_ready

(* Neither readiness nor a reservation survives moving filament.           *)
CheckedPlateIsClean == plate_ready \/ print_home_file # None => ~soiled

(* A plate counts as checked only while the hotend neither is nor is being *)
(* heated to where filament flows.                                         *)
ReadyPlateIsCold == plate_ready => ~hot /\ target # "high"

(* Once START_PRINT has reserved its home no state of that print, paused,  *)
(* failed or ended, shows the plate as ready again.                        *)
ReadyOnlyBeforeStart ==
    plate_ready /\ has_loaded_print =>
        part = "preamble" /\ pc \notin ReservedPoints

(* "one filament cannot leak tuning into the next job": whatever a print   *)
(* extrudes, nonzero pressure advance was set during that same print.      *)
NoTuningLeak ==
    has_loaded_print /\ part # "preamble" => advance \in {None, current_file}

(* Under the commissioning lock nothing is loaded, ready, reserved, homed  *)
(* or heated, whatever commands and macros are tried.                      *)
LockedIsInert ==
    commissioning_lock =>
        /\ ~plate_ready /\ print_home_file = None
        /\ ~has_loaded_print /\ ~active
        /\ ~homed /\ target = "zero"

(* Z is homed only on a plate a human checked and nothing soiled since.    *)
ZHomes == PrintHomes \/ \E axes \in {"all", "z"} : IdleHomes(axes)

HomesOnlyCheckedPlate == [][ZHomes => ~soiled]_vars

(* Filament moves under the commissioning lock never.                      *)
LockedMovesNoFilament ==
    [][commissioning_lock /\ soiled' => soiled]_vars

(* The inductive invariant: the facts above, and what holds at the program *)
(* points between them.                                                    *)
PointFacts ==
    /\ plate_ready => sequence < MaxSequence
    /\ pc \in EndPrintPoints \ {"ep_dirty"} => ~plate_ready
    /\ pc \in StartPrintPoints => ~commissioning_lock
    /\ pc \in StartPrintPoints \ {"sp_pa"} => advance = None
    /\ pc = "ep_z" => advance = None

SafetyInv ==
    /\ SequenceTracksReadiness
    /\ ReservationIsBound
    /\ CheckedPlateIsClean
    /\ ReadyPlateIsCold
    /\ ReadyOnlyBeforeStart
    /\ NoTuningLeak
    /\ LockedIsInert
    /\ PointFacts

IInv == TypeOK /\ SafetyInv

-----------------------------------------------------------------------------
(* Liveness.                                                               *)

(* No macro keeps the G-code mutex for ever: not on a failed step, not on  *)
(* the temperature wait, not on a cleanup that fails itself.               *)
MutexIsReleased == pc # "idle" ~> pc = "idle"

(* Left alone, a print ends: it completes, fails into CANCEL_PRINT, is     *)
(* paused, or Klipper goes down.                                           *)
PrintFinishes == (<>[][~Operator]_vars) => <>[](~active)
=============================================================================
