------------------------- MODULE PlateSafetyProofs -------------------------
(***************************************************************************)
(* TLAPS proofs about PlateSafety, for every value of its constants.       *)
(*                                                                         *)
(* IInv is inductive: one lemma per action shows that the action preserves *)
(* the flag types, the other types and the safety conjuncts.  The action   *)
(* properties follow from IInv and one more look at the actions that move  *)
(* filament or home.                                                       *)
(***************************************************************************)
EXTENDS PlateSafety, TLAPS

USE BoundsAssumption DEF BoundsAssumption, None, Files, plate, mutex, sdcard,
    pauses, heater, tuning, has_loaded_print, StartPrintPoints, EndPrintPoints,
    CancelPoints, ReservedPoints, Points, Dispatch, CommandError, DirtyError,
    Unwind, handle_command_error, mark_if, mark_build_plate_dirty,
    clear_print_home_reservation, Completed, Advance, MacroFails, LockRefuses,
    LiveZInRange, mark_if_hotend_target, ResetAdvance, ConsumeReadiness,
    SequenceTracksReadiness, ReservationIsBound, CheckedPlateIsClean,
    ReadyPlateIsCold, ReadyOnlyBeforeStart, NoTuningLeak, LockedIsInert,
    PointFacts, TypeOK, IInv

(* A fresh Klipper process satisfies the invariant.                        *)
LEMMA InitInvariant == Init => IInv
<1> SUFFICES ASSUME Init PROVE IInv OBVIOUS
<1> USE DEF Init
<1>1. FlagTypes BY DEF FlagTypes
<1>2. DataTypes BY DEF DataTypes
<1>3. SafetyInv BY DEF SafetyInv
<1> QED BY <1>1, <1>2, <1>3

-----------------------------------------------------------------------------
(* Every action preserves it.                                              *)

(* A refused command only goes through _handle_command_error.              *)
LEMMA ForbiddenCommandStep ==
    ASSUME IInv, ForbiddenCommand PROVE IInv'
<1> USE DEF ForbiddenCommand
<1>1. FlagTypes' BY DEF FlagTypes
<1>2. DataTypes' BY DEF DataTypes, SafetyInv
<1>3. SafetyInv' BY DEF SafetyInv, FlagTypes, DataTypes
<1> QED BY <1>1, <1>2, <1>3

(* Confirming makes the plate ready only with no print and a cold hotend.  *)
LEMMA cmd_T_CONFIRM_STEEL_SHEETStep ==
    ASSUME IInv, cmd_T_CONFIRM_STEEL_SHEET PROVE IInv'
<1> USE DEF cmd_T_CONFIRM_STEEL_SHEET, CanConfirm
<1>1. FlagTypes' BY DEF FlagTypes
<1>2. DataTypes' BY DEF DataTypes, SafetyInv
<1>3. SafetyInv' BY DEF SafetyInv, FlagTypes, DataTypes
<1> QED BY <1>1, <1>2, <1>3

(* Marking the plate dirty gives up readiness only.                        *)
LEMMA cmd_T_MARK_BUILD_PLATE_DIRTYStep ==
    ASSUME IInv, cmd_T_MARK_BUILD_PLATE_DIRTY PROVE IInv'
<1> USE DEF cmd_T_MARK_BUILD_PLATE_DIRTY
<1>1. FlagTypes' BY DEF FlagTypes
<1>2. DataTypes' BY DEF DataTypes, SafetyInv
<1>3. SafetyInv' BY DEF SafetyInv, FlagTypes, DataTypes
<1> QED BY <1>1, <1>2, <1>3

(* An idle G28 is refused, fails and voids the check, or homes.            *)
LEMMA cmd_G28Step ==
    ASSUME IInv, NEW axes \in {"all", "xy", "z"}, cmd_G28(axes) PROVE IInv'
<1>1. CASE IdleHomes(axes)
  <2> USE <1>1 DEF IdleHomes, CanHomeIdle
  <2>1. FlagTypes' BY DEF FlagTypes
  <2>2. DataTypes' BY DEF DataTypes
  <2>3. SafetyInv' BY DEF SafetyInv, FlagTypes, DataTypes
  <2> QED BY <2>1, <2>2, <2>3
<1>2. CASE CommandError(FALSE)
  <2> USE <1>2
  <2>1. FlagTypes' BY DEF FlagTypes
  <2>2. DataTypes' BY DEF DataTypes, SafetyInv
  <2>3. SafetyInv' BY DEF SafetyInv, FlagTypes, DataTypes
  <2> QED BY <2>1, <2>2, <2>3
<1>3. CASE DirtyError(FALSE)
  <2> USE <1>3
  <2>1. FlagTypes' BY DEF FlagTypes
  <2>2. DataTypes' BY DEF DataTypes, SafetyInv
  <2>3. SafetyInv' BY DEF SafetyInv, FlagTypes, DataTypes
  <2> QED BY <2>1, <2>2, <2>3
<1> QED BY <1>1, <1>2, <1>3 DEF cmd_G28

(* A high target voids the check; the lock admits only zero.               *)
LEMMA cmd_SET_HEATER_TEMPERATUREStep ==
    ASSUME IInv, NEW t \in {"zero", "low", "high"}, cmd_SET_HEATER_TEMPERATURE(t) PROVE IInv'
<1> USE DEF cmd_SET_HEATER_TEMPERATURE
<1>1. FlagTypes' BY DEF FlagTypes
<1>2. DataTypes' BY DEF DataTypes, SafetyInv
<1>3. SafetyInv' BY DEF SafetyInv, FlagTypes, DataTypes
<1> QED BY <1>1, <1>2, <1>3

(* M18 and M84 void the check and forget the homed axes.                   *)
LEMMA disable_motorsStep ==
    ASSUME IInv, disable_motors PROVE IInv'
<1> USE DEF disable_motors
<1>1. FlagTypes' BY DEF FlagTypes
<1>2. DataTypes' BY DEF DataTypes, SafetyInv
<1>3. SafetyInv' BY DEF SafetyInv, FlagTypes, DataTypes
<1> QED BY <1>1, <1>2, <1>3

(* An operator purge voids the check before it moves filament.             *)
LEMMA cmd_LINE_PURGEStep ==
    ASSUME IInv, cmd_LINE_PURGE PROVE IInv'
<1> USE DEF cmd_LINE_PURGE
<1>1. FlagTypes' BY DEF FlagTypes
<1>2. DataTypes' BY DEF DataTypes, SafetyInv
<1>3. SafetyInv' BY DEF SafetyInv, FlagTypes, DataTypes
<1> QED BY <1>1, <1>2, <1>3

(* Loading and unloading void the check before they move filament.         *)
LEMMA FilamentMotionStep ==
    ASSUME IInv, NEW macro \in {"LOAD_FILAMENT", "T_SCREEN_FILAMENT"}, FilamentMotion(macro) PROVE IInv'
<1> USE DEF FilamentMotion, FilamentGuard
<1>1. FlagTypes' BY DEF FlagTypes
<1>2. DataTypes' BY DEF DataTypes, SafetyInv
<1>3. SafetyInv' BY DEF SafetyInv, FlagTypes, DataTypes
<1> QED BY <1>1, <1>2, <1>3

(* A live Z step stays within the policy range.                            *)
LEMMA cmd_SET_GCODE_OFFSETStep ==
    ASSUME IInv, NEW step \in {-1, 0, 1}, NEW move \in BOOLEAN, cmd_SET_GCODE_OFFSET(step, move) PROVE IInv'
<1> USE DEF cmd_SET_GCODE_OFFSET
<1>1. FlagTypes' BY DEF FlagTypes
<1>2. DataTypes' BY DEF DataTypes, SafetyInv
<1>3. SafetyInv' BY DEF SafetyInv, FlagTypes, DataTypes
<1> QED BY <1>1, <1>2, <1>3

(* A new file object starts in its preamble without a reservation.         *)
LEMMA cmd_SDCARD_PRINT_FILEStep ==
    ASSUME IInv, NEW approved \in BOOLEAN, cmd_SDCARD_PRINT_FILE(approved) PROVE IInv'
<1> USE DEF cmd_SDCARD_PRINT_FILE
<1>1. FlagTypes' BY DEF FlagTypes
<1>2. DataTypes' BY DEF DataTypes, SafetyInv
<1>3. SafetyInv' BY DEF SafetyInv, FlagTypes, DataTypes
<1> QED BY <1>1, <1>2, <1>3

(* Resuming may reheat, unretract, or find the worker busy.                *)
LEMMA RESUMEStep ==
    ASSUME IInv, NEW reheat \in BOOLEAN, RESUME(reheat) PROVE IInv'
<1>1. CASE CommandError(FALSE)
  <2> USE <1>1
  <2>1. FlagTypes' BY DEF FlagTypes
  <2>2. DataTypes' BY DEF DataTypes, SafetyInv
  <2>3. SafetyInv' BY DEF SafetyInv, FlagTypes, DataTypes, RESUME
  <2> QED BY <2>1, <2>2, <2>3
<1>2. CASE ResumeBusy(reheat) /\ pc = "idle"
  <2> USE <1>2 DEF ResumeBusy, Unretracts
  <2>1. FlagTypes' BY DEF FlagTypes
  <2>2. DataTypes' BY DEF DataTypes, SafetyInv
  <2>3. SafetyInv' BY DEF SafetyInv, FlagTypes, DataTypes
  <2> QED BY <2>1, <2>2, <2>3
<1>3. CASE ResumeWorker(reheat) /\ pc = "idle"
                    /\ ~(commissioning_lock /\ (hot \/ reheat))
  <2> USE <1>3 DEF ResumeWorker, Unretracts
  <2>1. FlagTypes' BY DEF FlagTypes
  <2>2. DataTypes' BY DEF DataTypes, SafetyInv
  <2>3. SafetyInv' BY DEF SafetyInv, FlagTypes, DataTypes
  <2> QED BY <2>1, <2>2, <2>3
<1> QED BY <1>1, <1>2, <1>3 DEF RESUME

(* CLEAR_PAUSE touches one flag of pause_resume.                           *)
LEMMA CLEAR_PAUSEStep ==
    ASSUME IInv, CLEAR_PAUSE PROVE IInv'
<1> USE DEF CLEAR_PAUSE
<1>1. FlagTypes' BY DEF FlagTypes
<1>2. DataTypes' BY DEF DataTypes, SafetyInv
<1>3. SafetyInv' BY DEF SafetyInv, FlagTypes, DataTypes
<1> QED BY <1>1, <1>2, <1>3

(* An E move voids the check whether or not it succeeds.                   *)
LEMMA cmd_G1Step ==
    ASSUME IInv, NEW sd \in BOOLEAN, cmd_G1(sd) PROVE IInv'
<1> USE DEF cmd_G1
<1>1. FlagTypes' BY DEF FlagTypes
<1>2. DataTypes' BY DEF DataTypes, SafetyInv
<1>3. SafetyInv' BY DEF SafetyInv, FlagTypes, DataTypes
<1> QED BY <1>1, <1>2, <1>3

(* M104 and M109 void the check at the extrusion floor.                    *)
LEMMA cmd_M104Step ==
    ASSUME IInv, NEW sd \in BOOLEAN, NEW t \in {"zero", "low", "high"}, cmd_M104(sd, t) PROVE IInv'
<1> USE DEF cmd_M104
<1>1. FlagTypes' BY DEF FlagTypes
<1>2. DataTypes' BY DEF DataTypes, SafetyInv
<1>3. SafetyInv' BY DEF SafetyInv, FlagTypes, DataTypes
<1> QED BY <1>1, <1>2, <1>3

(* Nonzero advance is owned by the print that is loaded.                   *)
LEMMA cmd_SET_PRESSURE_ADVANCEStep ==
    ASSUME IInv, NEW sd \in BOOLEAN, NEW nonzero \in BOOLEAN, cmd_SET_PRESSURE_ADVANCE(sd, nonzero) PROVE IInv'
<1> USE DEF cmd_SET_PRESSURE_ADVANCE
<1>1. FlagTypes' BY DEF FlagTypes
<1>2. DataTypes' BY DEF DataTypes, SafetyInv
<1>3. SafetyInv' BY DEF SafetyInv, FlagTypes, DataTypes
<1> QED BY <1>1, <1>2, <1>3

(* PAUSE stops the worker and retracts when hot.                           *)
LEMMA PAUSEStep ==
    ASSUME IInv, NEW sd \in BOOLEAN, PAUSE(sd) PROVE IInv'
<1> USE DEF PAUSE, PauseEffect
<1>1. FlagTypes' BY DEF FlagTypes
<1>2. DataTypes' BY DEF DataTypes, SafetyInv
<1>3. SafetyInv' BY DEF SafetyInv, FlagTypes, DataTypes
<1> QED BY <1>1, <1>2, <1>3

(* M600 voids the check before it pauses.                                  *)
LEMMA M600Step ==
    ASSUME IInv, NEW sd \in BOOLEAN, M600(sd) PROVE IInv'
<1> USE DEF M600, PauseEffect
<1>1. FlagTypes' BY DEF FlagTypes
<1>2. DataTypes' BY DEF DataTypes, SafetyInv
<1>3. SafetyInv' BY DEF SafetyInv, FlagTypes, DataTypes
<1> QED BY <1>1, <1>2, <1>3

(* Rendering START_PRINT changes nothing but the program point.            *)
LEMMA START_PRINTStep ==
    ASSUME IInv, NEW sd \in BOOLEAN, START_PRINT(sd) PROVE IInv'
<1> USE DEF START_PRINT
<1>1. FlagTypes' BY DEF FlagTypes
<1>2. DataTypes' BY DEF DataTypes, SafetyInv
<1>3. SafetyInv' BY DEF SafetyInv, FlagTypes, DataTypes
<1> QED BY <1>1, <1>2, <1>3

(* Dispatching END_PRINT changes nothing but the program point.            *)
LEMMA END_PRINTStep ==
    ASSUME IInv, NEW sd \in BOOLEAN, END_PRINT(sd) PROVE IInv'
<1> USE DEF END_PRINT
<1>1. FlagTypes' BY DEF FlagTypes
<1>2. DataTypes' BY DEF DataTypes, SafetyInv
<1>3. SafetyInv' BY DEF SafetyInv, FlagTypes, DataTypes
<1> QED BY <1>1, <1>2, <1>3

(* Dispatching CANCEL_PRINT changes nothing but the program point.         *)
LEMMA CANCEL_PRINTStep ==
    ASSUME IInv, NEW sd \in BOOLEAN, CANCEL_PRINT(sd) PROVE IInv'
<1> USE DEF CANCEL_PRINT
<1>1. FlagTypes' BY DEF FlagTypes
<1>2. DataTypes' BY DEF DataTypes, SafetyInv
<1>3. SafetyInv' BY DEF SafetyInv, FlagTypes, DataTypes
<1> QED BY <1>1, <1>2, <1>3

(* The end of the file unloads a print that is no longer ready.            *)
LEMMA SdEndOfFileStep ==
    ASSUME IInv, SdEndOfFile PROVE IInv'
<1> USE DEF SdEndOfFile
<1>1. FlagTypes' BY DEF FlagTypes
<1>2. DataTypes' BY DEF DataTypes, SafetyInv
<1>3. SafetyInv' BY DEF SafetyInv, FlagTypes, DataTypes
<1> QED BY <1>1, <1>2, <1>3

(* START_PRINT resets pressure advance, or fails with no print.            *)
LEMMA StartPressureAdvanceStep ==
    ASSUME IInv, StartPressureAdvance PROVE IInv'
<1> USE DEF StartPressureAdvance
<1>1. FlagTypes' BY DEF FlagTypes
<1>2. DataTypes' BY DEF DataTypes, SafetyInv
<1>3. SafetyInv' BY DEF SafetyInv, FlagTypes, DataTypes
<1> QED BY <1>1, <1>2, <1>3

(* The purge-lane test passes or fails.                                    *)
LEMMA StartPurgeLaneStep ==
    ASSUME IInv, StartPurgeLane PROVE IInv'
<1> USE DEF StartPurgeLane
<1>1. FlagTypes' BY DEF FlagTypes
<1>2. DataTypes' BY DEF DataTypes, SafetyInv
<1>3. SafetyInv' BY DEF SafetyInv, FlagTypes, DataTypes
<1> QED BY <1>1, <1>2, <1>3

(* Reserving trades readiness for the one file-bound authority.            *)
LEMMA cmd_T_RESERVE_PRINT_HOMEStep ==
    ASSUME IInv, cmd_T_RESERVE_PRINT_HOME PROVE IInv'
<1> USE DEF cmd_T_RESERVE_PRINT_HOME, CanReserve
<1>1. FlagTypes' BY DEF FlagTypes
<1>2. DataTypes' BY DEF DataTypes, SafetyInv
<1>3. SafetyInv' BY DEF SafetyInv, FlagTypes, DataTypes
<1> QED BY <1>1, <1>2, <1>3

(* Warming up keeps the reservation and no readiness.                      *)
LEMMA StartHeatStep ==
    ASSUME IInv, StartHeat PROVE IInv'
<1> USE DEF StartHeat
<1>1. FlagTypes' BY DEF FlagTypes
<1>2. DataTypes' BY DEF DataTypes, SafetyInv
<1>3. SafetyInv' BY DEF SafetyInv, FlagTypes, DataTypes
<1> QED BY <1>1, <1>2, <1>3

(* The print home consumes the reservation, valid or not.                  *)
LEMMA StartHomeStep ==
    ASSUME IInv, StartHome PROVE IInv'
<1> USE DEF StartHome, PrintHomes, ValidPrintHome
<1>1. FlagTypes' BY DEF FlagTypes
<1>2. DataTypes' BY DEF DataTypes, SafetyInv
<1>3. SafetyInv' BY DEF SafetyInv, FlagTypes, DataTypes
<1> QED BY <1>1, <1>2, <1>3

(* Meshing passes or fails.                                                *)
LEMMA StartMeshStep ==
    ASSUME IInv, StartMesh PROVE IInv'
<1> USE DEF StartMesh
<1>1. FlagTypes' BY DEF FlagTypes
<1>2. DataTypes' BY DEF DataTypes, SafetyInv
<1>3. SafetyInv' BY DEF SafetyInv, FlagTypes, DataTypes
<1> QED BY <1>1, <1>2, <1>3

(* M109 sets the printing temperature.                                     *)
LEMMA StartNozzleStep ==
    ASSUME IInv, StartNozzle PROVE IInv'
<1> USE DEF StartNozzle
<1>1. FlagTypes' BY DEF FlagTypes
<1>2. DataTypes' BY DEF DataTypes, SafetyInv
<1>3. SafetyInv' BY DEF SafetyInv, FlagTypes, DataTypes
<1> QED BY <1>1, <1>2, <1>3

(* The temperature wait ends.                                              *)
LEMMA StartWaitStep ==
    ASSUME IInv, StartWait PROVE IInv'
<1> USE DEF StartWait
<1>1. FlagTypes' BY DEF FlagTypes
<1>2. DataTypes' BY DEF DataTypes, SafetyInv
<1>3. SafetyInv' BY DEF SafetyInv, FlagTypes, DataTypes
<1> QED BY <1>1, <1>2, <1>3

(* The purge moves filament long after the reservation is gone.            *)
LEMMA StartPurgeStep ==
    ASSUME IInv, StartPurge PROVE IInv'
<1> USE DEF StartPurge
<1>1. FlagTypes' BY DEF FlagTypes
<1>2. DataTypes' BY DEF DataTypes, SafetyInv
<1>3. SafetyInv' BY DEF SafetyInv, FlagTypes, DataTypes
<1> QED BY <1>1, <1>2, <1>3

(* Cleanup marks the plate dirty.                                          *)
LEMMA CleanupDirtyStep ==
    ASSUME IInv, CleanupDirty PROVE IInv'
<1> USE DEF CleanupDirty
<1>1. FlagTypes' BY DEF FlagTypes
<1>2. DataTypes' BY DEF DataTypes, SafetyInv
<1>3. SafetyInv' BY DEF SafetyInv, FlagTypes, DataTypes
<1> QED BY <1>1, <1>2, <1>3

(* Cleanup retracts only when hot, and never under the lock.               *)
LEMMA CleanupRetractStep ==
    ASSUME IInv, CleanupRetract PROVE IInv'
<1> USE DEF CleanupRetract
<1>1. FlagTypes' BY DEF FlagTypes
<1>2. DataTypes' BY DEF DataTypes, SafetyInv
<1>3. SafetyInv' BY DEF SafetyInv, FlagTypes, DataTypes
<1> QED BY <1>1, <1>2, <1>3

(* END_PRINT turns the heaters off.                                        *)
LEMMA EndHeatersOffStep ==
    ASSUME IInv, EndHeatersOff PROVE IInv'
<1> USE DEF EndHeatersOff
<1>1. FlagTypes' BY DEF FlagTypes
<1>2. DataTypes' BY DEF DataTypes, SafetyInv
<1>3. SafetyInv' BY DEF SafetyInv, FlagTypes, DataTypes
<1> QED BY <1>1, <1>2, <1>3

(* Cleanup resets pressure advance, or fails with no print.                *)
LEMMA CleanupPressureAdvanceStep ==
    ASSUME IInv, CleanupPressureAdvance PROVE IInv'
<1> USE DEF CleanupPressureAdvance
<1>1. FlagTypes' BY DEF FlagTypes
<1>2. DataTypes' BY DEF DataTypes, SafetyInv
<1>3. SafetyInv' BY DEF SafetyInv, FlagTypes, DataTypes
<1> QED BY <1>1, <1>2, <1>3

(* END_PRINT ends with the Z reset.                                        *)
LEMMA EndOffsetStep ==
    ASSUME IInv, EndOffset PROVE IInv'
<1> USE DEF EndOffset
<1>1. FlagTypes' BY DEF FlagTypes
<1>2. DataTypes' BY DEF DataTypes, SafetyInv
<1>3. SafetyInv' BY DEF SafetyInv, FlagTypes, DataTypes
<1> QED BY <1>1, <1>2, <1>3

(* Cancellation resets the Z offset.                                       *)
LEMMA CancelOffsetStep ==
    ASSUME IInv, CancelOffset PROVE IInv'
<1> USE DEF CancelOffset
<1>1. FlagTypes' BY DEF FlagTypes
<1>2. DataTypes' BY DEF DataTypes, SafetyInv
<1>3. SafetyInv' BY DEF SafetyInv, FlagTypes, DataTypes
<1> QED BY <1>1, <1>2, <1>3

(* The cancel wrapper voids check and reservation first.                   *)
LEMMA cmd_CANCEL_PRINTStep ==
    ASSUME IInv, cmd_CANCEL_PRINT PROVE IInv'
<1> USE DEF cmd_CANCEL_PRINT
<1>1. FlagTypes' BY DEF FlagTypes
<1>2. DataTypes' BY DEF DataTypes, SafetyInv
<1>3. SafetyInv' BY DEF SafetyInv, FlagTypes, DataTypes
<1> QED BY <1>1, <1>2, <1>3

(* CANCEL_PRINT_BASE may unload the file.                                  *)
LEMMA CancelBaseStep ==
    ASSUME IInv, CancelBase PROVE IInv'
<1> USE DEF CancelBase
<1>1. FlagTypes' BY DEF FlagTypes
<1>2. DataTypes' BY DEF DataTypes, SafetyInv
<1>3. SafetyInv' BY DEF SafetyInv, FlagTypes, DataTypes
<1> QED BY <1>1, <1>2, <1>3

(* The hotend gets hot only under a high target.                           *)
LEMMA HeatUpStep ==
    ASSUME IInv, HeatUp PROVE IInv'
<1> USE DEF HeatUp
<1>1. FlagTypes' BY DEF FlagTypes
<1>2. DataTypes' BY DEF DataTypes, SafetyInv
<1>3. SafetyInv' BY DEF SafetyInv, FlagTypes, DataTypes
<1> QED BY <1>1, <1>2, <1>3

(* Cooling down disturbs nothing.                                          *)
LEMMA CoolDownStep ==
    ASSUME IInv, CoolDown PROVE IInv'
<1> USE DEF CoolDown
<1>1. FlagTypes' BY DEF FlagTypes
<1>2. DataTypes' BY DEF DataTypes, SafetyInv
<1>3. SafetyInv' BY DEF SafetyInv, FlagTypes, DataTypes
<1> QED BY <1>1, <1>2, <1>3

(* The idle timeout only lowers the target.                                *)
LEMMA IdleTimeoutStep ==
    ASSUME IInv, IdleTimeout PROVE IInv'
<1> USE DEF IdleTimeout
<1>1. FlagTypes' BY DEF FlagTypes
<1>2. DataTypes' BY DEF DataTypes, SafetyInv
<1>3. SafetyInv' BY DEF SafetyInv, FlagTypes, DataTypes
<1> QED BY <1>1, <1>2, <1>3

(* A runout pauses, or does nothing when already paused.                   *)
LEMMA T_FILAMENT_RUNOUTStep ==
    ASSUME IInv, T_FILAMENT_RUNOUT PROVE IInv'
<1> USE DEF T_FILAMENT_RUNOUT, PauseEffect
<1>1. FlagTypes' BY DEF FlagTypes
<1>2. DataTypes'
  <2>1. CASE is_paused BY <2>1 DEF DataTypes
  <2>2. CASE ~is_paused BY <2>2 DEF DataTypes, SafetyInv
  <2> QED BY <2>1, <2>2
<1>3. SafetyInv' BY DEF SafetyInv, FlagTypes, DataTypes
<1> QED BY <1>1, <1>2, <1>3

(* A failed read stops the worker.                                         *)
LEMMA SdReadFailureStep ==
    ASSUME IInv, SdReadFailure PROVE IInv'
<1> USE DEF SdReadFailure
<1>1. FlagTypes' BY DEF FlagTypes
<1>2. DataTypes' BY DEF DataTypes, SafetyInv
<1>3. SafetyInv' BY DEF SafetyInv, FlagTypes, DataTypes
<1> QED BY <1>1, <1>2, <1>3

(* A shutdown voids check and reservation at any point.                    *)
LEMMA handle_shutdownStep ==
    ASSUME IInv, handle_shutdown PROVE IInv'
<1> USE DEF handle_shutdown
<1>1. FlagTypes' BY DEF FlagTypes
<1>2. DataTypes' BY DEF DataTypes, SafetyInv
<1>3. SafetyInv' BY DEF SafetyInv, FlagTypes, DataTypes
<1> QED BY <1>1, <1>2, <1>3

(* A restart starts from nothing but the plate and the temperature.        *)
LEMMA RestartStep ==
    ASSUME IInv, Restart PROVE IInv'
<1> USE DEF Restart
<1>1. FlagTypes' BY DEF FlagTypes
<1>2. DataTypes' BY DEF DataTypes, SafetyInv
<1>3. SafetyInv' BY DEF SafetyInv, FlagTypes, DataTypes
<1> QED BY <1>1, <1>2, <1>3

(* A step that changes nothing.                                            *)
LEMMA StutterStep == ASSUME IInv, UNCHANGED vars PROVE IInv'
BY DEF vars, FlagTypes, DataTypes, SafetyInv

-----------------------------------------------------------------------------
(* Commands that the operator and an admitted file share.                  *)
LEMMA SharedCommandStep ==
    ASSUME IInv, NEW sd \in BOOLEAN, SharedCommand(sd) PROVE IInv'
BY cmd_G1Step, cmd_M104Step, cmd_SET_PRESSURE_ADVANCEStep, PAUSEStep, M600Step,
   START_PRINTStep, END_PRINTStep, CANCEL_PRINTStep DEF SharedCommand

(* Everything an operator may type.                                        *)
LEMMA OperatorStep == ASSUME IInv, Operator PROVE IInv'
BY SharedCommandStep, ForbiddenCommandStep, cmd_T_CONFIRM_STEEL_SHEETStep,
   cmd_T_MARK_BUILD_PLATE_DIRTYStep, cmd_G28Step, cmd_SET_HEATER_TEMPERATUREStep,
   disable_motorsStep, cmd_LINE_PURGEStep, FilamentMotionStep,
   cmd_SET_GCODE_OFFSETStep, cmd_SDCARD_PRINT_FILEStep, RESUMEStep, CLEAR_PAUSEStep
   DEF Operator, OperatorCommand

(* The commands of START_PRINT, END_PRINT and CANCEL_PRINT.                *)
LEMMA MacroStepStep == ASSUME IInv, MacroStep PROVE IInv'
BY StartPressureAdvanceStep, StartPurgeLaneStep, cmd_T_RESERVE_PRINT_HOMEStep,
   StartHeatStep, StartHomeStep, StartMeshStep, StartNozzleStep, StartWaitStep,
   StartPurgeStep, CleanupDirtyStep, CleanupRetractStep, EndHeatersOffStep,
   CleanupPressureAdvanceStep, EndOffsetStep, CancelOffsetStep,
   cmd_CANCEL_PRINTStep, CancelBaseStep
   DEF MacroStep, StartPrintStep, CleanupStep

(* Temperature, timeouts, the runout switch and shutdowns.                 *)
LEMMA EnvironmentStep == ASSUME IInv, Environment PROVE IInv'
BY HeatUpStep, CoolDownStep, IdleTimeoutStep, T_FILAMENT_RUNOUTStep,
   SdReadFailureStep, handle_shutdownStep DEF Environment

(* The invariant is inductive.                                             *)
LEMMA NextInvariant == IInv /\ [Next]_vars => IInv'
<1> SUFFICES ASSUME IInv, [Next]_vars PROVE IInv' OBVIOUS
<1>1. CASE Operator BY <1>1, OperatorStep
<1>2. CASE Worker BY <1>2, SharedCommandStep, SdEndOfFileStep DEF Worker
<1>3. CASE MacroStep BY <1>3, MacroStepStep
<1>4. CASE Environment BY <1>4, EnvironmentStep
<1>5. CASE Restart BY <1>5, RestartStep
<1>6. CASE UNCHANGED vars BY <1>6, StutterStep
<1> QED BY <1>1, <1>2, <1>3, <1>4, <1>5, <1>6 DEF Next

-----------------------------------------------------------------------------
(* IInv holds in every reachable state of the plate guard.                 *)
THEOREM Invariant == Spec => []IInv
BY InitInvariant, NextInvariant, PTL DEF Spec

(* Every variable keeps its type; with it the live Z offset stays within   *)
(* max_live_z_adjust_total whatever adjustments and resets interleave.     *)
THEOREM TypeCorrect == Spec => []TypeOK
<1>1. IInv => TypeOK BY DEF IInv
<1> QED BY <1>1, Invariant, PTL

(* Readiness and its published sequence number never disagree.             *)
THEOREM SequenceParity == Spec => []SequenceTracksReadiness
<1>1. IInv => SequenceTracksReadiness BY DEF IInv, SafetyInv
<1> QED BY <1>1, Invariant, PTL

(* The authority to home inside a print never leaves its START_PRINT, its  *)
(* file object, or the virtual-SD worker.                                  *)
THEOREM ReservationBinding == Spec => []ReservationIsBound
<1>1. IInv => ReservationIsBound BY DEF IInv, SafetyInv
<1> QED BY <1>1, Invariant, PTL

(* Neither a check nor a reservation survives moved filament.              *)
THEOREM CleanPlate == Spec => []CheckedPlateIsClean
<1>1. IInv => CheckedPlateIsClean BY DEF IInv, SafetyInv
<1> QED BY <1>1, Invariant, PTL

(* A ready plate has a cold hotend above it.                               *)
THEOREM ColdPlate == Spec => []ReadyPlateIsCold
<1>1. IInv => ReadyPlateIsCold BY DEF IInv, SafetyInv
<1> QED BY <1>1, Invariant, PTL

(* A print that has reserved its home never looks ready again.             *)
THEOREM OneStartPerCheck == Spec => []ReadyOnlyBeforeStart
<1>1. IInv => ReadyOnlyBeforeStart BY DEF IInv, SafetyInv
<1> QED BY <1>1, Invariant, PTL

(* One print's pressure advance never reaches another's extrusion.         *)
THEOREM TuningIsolation == Spec => []NoTuningLeak
<1>1. IInv => NoTuningLeak BY DEF IInv, SafetyInv
<1> QED BY <1>1, Invariant, PTL

(* The commissioning lock keeps the machine inert.                         *)
THEOREM LockInert == Spec => []LockedIsInert
<1>1. IInv => LockedIsInert BY DEF IInv, SafetyInv
<1> QED BY <1>1, Invariant, PTL

(* Z is homed, idle or inside a print, only on a plate that was checked    *)
(* and not soiled since.                                                   *)
THEOREM HomeSafety == Spec => HomesOnlyCheckedPlate
<1>1. IInv => [ZHomes => ~soiled]_vars
  <2> SUFFICES ASSUME IInv, ZHomes PROVE ~soiled OBVIOUS
  <2>1. CASE PrintHomes BY <2>1 DEF PrintHomes, ValidPrintHome, SafetyInv
  <2>2. CASE \E axes \in {"all", "z"} : IdleHomes(axes)
        BY <2>2 DEF IdleHomes, CanHomeIdle, SafetyInv
  <2> QED BY <2>1, <2>2 DEF ZHomes
<1> QED BY <1>1, Invariant, PTL DEF HomesOnlyCheckedPlate

(* Under the commissioning lock no command or macro moves filament.        *)
THEOREM LockMovesNothing == Spec => LockedMovesNoFilament
<1>1. IInv /\ [Next]_vars => [commissioning_lock /\ soiled' => soiled]_vars
  <2> SUFFICES ASSUME IInv, [Next]_vars, commissioning_lock, soiled'
               PROVE soiled
      OBVIOUS
  <2> USE DEF SafetyInv, PauseEffect
  <2>1. ASSUME NEW sd \in BOOLEAN, SharedCommand(sd) PROVE soiled
    BY <2>1 DEF SharedCommand, cmd_G1, cmd_M104, cmd_SET_PRESSURE_ADVANCE,
       PAUSE, M600, START_PRINT, END_PRINT, CANCEL_PRINT
  <2>2. CASE OperatorCommand
    <3>1. ASSUME NEW macro \in {"LOAD_FILAMENT", "T_SCREEN_FILAMENT"},
                 FilamentMotion(macro)
          PROVE soiled
      BY <3>1 DEF FilamentMotion
    <3>2. ASSUME NEW reheat \in BOOLEAN, RESUME(reheat) PROVE soiled
      BY <3>2 DEF RESUME, ResumeBusy, ResumeWorker, Unretracts
    <3>3. ASSUME NEW axes \in {"all", "xy", "z"}, cmd_G28(axes) PROVE soiled
      BY <3>3 DEF cmd_G28, IdleHomes
    <3> QED BY <2>2, <3>1, <3>2, <3>3 DEF OperatorCommand, ForbiddenCommand,
          cmd_T_CONFIRM_STEEL_SHEET, CanConfirm, cmd_T_MARK_BUILD_PLATE_DIRTY,
          cmd_SET_HEATER_TEMPERATURE, disable_motors, cmd_LINE_PURGE,
          cmd_SET_GCODE_OFFSET, cmd_SDCARD_PRINT_FILE, CLEAR_PAUSE
  <2>3. CASE StartPrintStep
    BY <2>3 DEF StartPrintStep, StartPressureAdvance, StartPurgeLane,
       cmd_T_RESERVE_PRINT_HOME, StartHeat, StartHome, PrintHomes, StartMesh,
       StartNozzle, StartWait, StartPurge
  <2>4. CASE CleanupStep
    BY <2>4 DEF CleanupStep, CleanupDirty, CleanupRetract, EndHeatersOff,
       CleanupPressureAdvance, EndOffset, CancelOffset, cmd_CANCEL_PRINT,
       CancelBase
  <2>5. CASE Environment \/ SdEndOfFile \/ Restart \/ UNCHANGED vars
    BY <2>5 DEF Environment, HeatUp, CoolDown, IdleTimeout, T_FILAMENT_RUNOUT,
       SdReadFailure, handle_shutdown, SdEndOfFile, Restart, vars
  <2> QED BY <2>1, <2>2, <2>3, <2>4, <2>5
          DEF Next, Operator, Worker, MacroStep
<1> QED BY <1>1, Invariant, PTL DEF Spec, LockedMovesNoFilament

=============================================================================
