# Verification of the T300 mainline kit

TLA+ models of the parts of this repository that decide when a 3D printer may
move, heat and print, which files it may print, and which configuration it may
run, with TLC runs that check them on small instances and TLAPS proofs of the
main properties for every instance.

| Module | Models | Checked by | Proved in |
| --- | --- | --- | --- |
| `PlateSafety` | the Klipper extra `t300_safety.py` and the lifecycle macros | `plate_safety` | `PlateSafetyProofs` |
| `Admission` | the admission daemon, `admit_gcode`, the approved-file loader | `admission`, 1 finding | `AdmissionProofs` |
| `GCodeScan` | `scan_gcode`, line by line, beside the printer that runs the lines | `gcode_scan` | `GCodeScanProofs` |
| `ConfigDeploy` | `apply_bundle`, the configuration transaction | `commissioning_deploy` | `CommissioningProofs` |
| `TreeStore` | what a deployment promises, abstractly | `commissioning_deploy` | `CommissioningProofs` |
| `Commissioning` | the commissioning commands, the systemd units, composed with `ConfigDeploy` | `commissioning_deploy` | `CommissioningProofs` |
| `UnitJobs` | the unit files and the jobs systemd makes of them | `unit_jobs` | |
| `BundleTransfer` | a bundle from `prepare_bundle` over the receivers to its consumption | `bundle_transfer`, 1 finding | `BundleTransferProofs` |
| `MacroInstall` | the installers of `t300ctl.py` over Moonraker | `macro_install` | `MacroInstallProofs` |
| `RecoveryImage` | the recovery agent and the imaging commands | `recovery_image` | `RecoveryImageProofs` |
| `Timelapse` | the Moonraker timelapse component | `timelapse`, 1 finding | `TimelapseProofs` |

`MCAdmission`, `MCMacroInstall`, `MCRecoveryImage` and `MCBundleTransfer` give the
constants of their runs. The other modules take theirs from the configuration
files directly. One module uses another: `Commissioning` extends `ConfigDeploy`,
which instantiates `TreeStore`. `CommissioningProofs` is
about both: first the transaction by itself, then the composition from the
transaction's theorems.

## Inventory of the system

The kit turns a vendor printer into an upstream-Klipper machine. On the printer
run Klipper with one extra, Moonraker with one component, a scanner daemon, a
touchscreen gateway and the units that gate them. The laptop prepares images and
bundles.

### Plate guard

* *State*: volatile attributes of the extra (`_plate_ready`,
  `_plate_state_sequence`, `_print_home_file`, the commissioning lock), and what
  it reads of upstream Klipper (the file object of the virtual SD card, the pause
  flag, homing, heater targets, pressure advance, the live Z offset).
* *Operations*: wrappers around G-code commands (home, move, heat, purge, tune,
  load, cancel), a human confirmation, the macros START_PRINT, END_PRINT,
  CANCEL_PRINT, M600, runout, load and unload, and event handlers for errors,
  shutdown and restart.
* *Interactions*: commands come from the console, from the file being printed and
  from macros, one at a time under Klipper's G-code mutex; a macro gives other
  clients no turn, but errors, shutdowns and temperature waits come in between.
* *Hard*: a macro that fails half-way, a file replaced between two commands of a
  start, flags of the last print that outlive it.
* *Correct when*: Z is homed only on a plate a human checked and nothing soiled
  since; one check serves one start; tuning does not leak between prints; the
  commissioning lock leaves nothing to move.

### Admission

* *State*: uploads on disk, the policy file, approvals, the snapshot spool, the
  daemon's `observed` and `processed` tables and policy hash, the policy Klipper
  loaded.
* *Operations*: start and preflight, `scan_once` with its early returns,
  `admit_gcode` (open, copy, scan, commit, approve, recheck), revocation and
  pruning; in Klipper connect, read approval, open snapshot.
* *Interactions*: files only. Uploads, overwrites, deletions and policy
  installations happen between any two steps.
* *Hard*: values checked early and used late, death of the daemon anywhere,
  limits on files and spool.
* *Correct when*: an approval always has the snapshot of the bytes that were
  scanned, stale approvals go, and Klipper loads only what passed.

### Configuration deployment and commissioning

* *State*: the tree `/etc/t300` (configuration and six commissioning markers),
  its sibling and retained copies, the deployment journal, unit states, units
  enabled for boot.
* *Operations*: `apply_bundle` (check, back up, build, exchange, verify, rename,
  complete, roll back, clean up); twelve owner commands of the form check,
  confirm, write marker, systemctl, verify, undo; the gates that units ask when
  they start.
* *Interactions*: commands call systemctl, units call back into the controller
  (`check-service-gate`, `consume-maintenance-marker`), both read and write
  markers inside the tree that a deployment exchanges.
* *Hard*: boot jobs and automatic restarts between a check and its use; kills and
  power loss between a marker and the action it authorizes; a rollback that
  brings old markers back.
* *Correct when*: an approval counts only for the configuration it was given for;
  maintenance runs alone and once per authorization; the old tree survives and
  the journal tells the truth.

### Units

* *State*: per unit whether it is down, starting, up or waits for its automatic
  restart, and the job queued for it.
* *Operations*: boot, `systemctl start` and `stop`, begin, skip, fail, finish, exit,
  restart after `RestartSec=`.
* *Interactions*: `After=`, `Before=`, `Requires=`, `BindsTo=`, `PartOf=`, `Wants=` and
  `Conflicts=` over eleven files, besides what systemd adds for mounts.
* *Hard*: jobs of one request meet those of another, of a failure and of an
  automatic restart.
* *Correct when*: every job ends; one driver has the printer; the host MCU process
  goes with its maintenance; the scanner's preflight is alone.

### G-code scanner

* *State*: position and modes as far as known, filament retracted and not yet
  recovered, the rounding allowance, the print's phase. The printer beside it
  also has a flow factor (M221), which the scanner does not follow.
* *Operations*: one per line of the file.
* *Hard*: the scanner knows neither where START_PRINT leaves the head nor the
  modes of the last print, and must allow for the slicer's rounding without
  letting a file collect it.
* *Correct when*: what it believes is what the printer does, so that its limits
  on position, flow and stationary extrusion are limits on the printer.

### Bundle transfer

* *State*: the bundles on the laptop, the file under the one quarantine name, the
  receiver processes, the deployment that reads the file.
* *Operations*: prepare, send, time out; create, write, verify, answer, unlink;
  copy, compare, extract, check, install, consume.
* *Interactions*: one process per SSH connection, all on one file name, beside
  the root command that reads it.
* *Hard*: receivers that outlive the laptop's patience, refusals that clean up.
* *Correct when*: only a complete, reviewed bundle for the installed
  configuration is installed, and an answer "quarantined" is true.

### Laptop controller

* *State*: the printer's configuration files, what Klipper loaded, and the
  installer's review, backup, progress and errors.
* *Operations*: review, back up, compare, upload, read back, restart and wait,
  undo in reverse order, restart again.
* *Interactions*: HTTP requests to Moonraker that may fail before or after they
  took effect; other clients edit, print and restart meanwhile.
* *Correct when*: what it reports is true, and a rollback brings back what the
  backup holds.

### Recovery agent and imaging

* *State*: the stick's boot history, the printers' eMMCs, image, manifest and
  partial files on the laptop, the loop device and mounts of a check.
* *Operations*: record a boot, capture, verify, write, check file systems.
* *Interactions*: every step is a new SSH session with a new inspection.
* *Hard*: power losses, reboots and another printer between two sessions; a
  device that changes while it is read; tools that fail after doing their work.
* *Correct when*: a manifest describes one state of the machine it names, a
  restore reports success only for what was read back, a check leaves nothing.

### Timelapse

* *State*: flags and frame count of the component, frame files and retained
  frames on the stick.
* *Operations*: request, fetch and write a frame; clean up at a print's start;
  render at its end or on request; disable the component.
* *Interactions*: coroutines of one event loop; an action is what runs between
  two awaits. The stick fills up, goes, comes back, or turns read-only.
* *Correct when*: frames go only once a verified video shows them, and the flags
  are cleared again.

### The other parts

The touchscreen gateway, provisioning and the offline build tools are listed in
`PROJECT.json` with what they are and why they are not modelled yet, or at all.

## How the models correspond to the code

**PlateSafety.** A variable per attribute. A console command or a line of the
file is one action, with the wrapper's early returns as its guard and the
upstream handler's effect included. A macro is a chain of program points (`pc`),
one per command that can fail or change state, because errors and shutdowns fall
between them; `part` says which part of the file the worker has reached. `soiled`
is history: whether filament moved over the plate since the last check. Upstream
Klipper and the Mainsail macros are modelled from how this code uses them and are
marked external in the map.

**Admission.** One daemon process with program counter `pc`, one action per step
that another process can come between. A content stands for its digest, a policy
for its version; `Accepts` says which contents a policy's scan accepts. Each
write gives a file a new fingerprint `fp`. An approval carries the policy it
names (`policy`) and, as history, the policy that judged it (`by`). Klipper's
loader is two further steps that read what the daemon wrote. The spool's
"corrupt" branch needs a damaged disk and is left out.

**ConfigDeploy.** A configuration stands for its digest, a tree is a
configuration with its markers, and a marker holds the digest it was written
under and the configuration its evidence names. `dpc` is the next step of
`apply_bundle`; every step may raise, and the process may die between any two.
Ctrl-C may also arrive between a system call and the assignment after it, which
the code's `except BaseException` is meant to handle; `interrupted` remembers
that it did. `WriteMarker` and `HandEdit` are all the environment may do, so
`DeploySpec` is also the interface the rest of the system has to keep.

**Commissioning.** Each command has an action for its checks and its typed
confirmation; the rest follows one pattern (write, start, verify, undo, revoke)
and is driven by tables (`Starts`, `Enables`, `UndoStops`). A unit is inactive,
queued, admitted by its gate, or active; `is-active` sees only the last, as in
systemd. The four host units are one unit and the two mounts another: the code
always handles them together; their own ordering is in `UnitJobs`, and `Earlier` is
only the order among the units of this module. One owner works at the console, so one command or
deployment runs at a time; the code has no lock and relies on that.

**UnitJobs.** A record per unit file, named after it, holds its ordering and
requirement words; the rest of the module is what systemd makes of them, and is
external in the map. A request is one transaction (`StartAll`, `StopAll`) over all
units it reaches; a start waits for the jobs of earlier units and for the stops of
later ones, whether it is a boot job, a request or a restart. Conditions and gates
are left open (`Skip`): `Commissioning` has them. `local_fs` stands for the implicit
edges: mounts come before `local-fs.target`, services after it. The start limits (`StartLimitBurst=`) are left out, since they only end restarts.

**TreeStore.** No steps, names, journal or processes: the installed tree, the
trees that were taken out and are kept, and whether a deployment runs. Replacing
puts in a tree without the approvals that end with a configuration and keeps the
old one; going back puts in a kept tree unchanged; markers are written one at a
time and never during a deployment. `StoreSpec` in `ConfigDeploy` maps the
directories to these: kept is what a deployment took out and is still on disk
under any of its names.

**GCodeScan.** `absolute`, `position` and `filament` are the scanner's variables,
`printer` is Klipper's G-code state after the same lines, and `ledger` is what
the filament really did. Axis X stands for the XY plane, E words are whole
numbers of half quanta. START_PRINT leaves the printer anywhere, in any modes, with
any flow factor an operator may set (`max_manual_flow_percent` is above 100).
`FlowFactor` is M221 in the file: the printer's filament is E word times factor,
and `ledger` counts that product. `raised` is history: the file raised the factor
while the scanner held credit. The real filament then pushed at a recovery is more
than was retracted: `StationaryIsEarned` excepts it, and the disagreements below
name it. The budget is the scanner's rounding budget at the
highest factor, and `FlowIsBounded` allows what a factor above 100 percent adds.
An operator's own M221 during the print is not modelled.
A refused file ends the run, since every later line only adds findings.

**BundleTransfer.** A file is named by the receiver that created it, so that an
open file that lost its name, or whose name another file took, is still itself.
`slot` is the file under the quarantine name. An unlink that itself raises is the
receiver's death, which `LeftoversAreComplete` excepts. The transaction itself is one step
here; `ConfigDeploy` has its steps.

**MacroInstall.** `pc` is the installer's next request. `Raise` is a request that
raises before or after its effect, or Ctrl-C. `disk` is the configuration root,
`running` what Klipper last loaded, and a restart that was accepted begins later
than the answer. `touched` remembers which files another client wrote, because
the tool promises nothing for those. Other clients change the text of a file, or
put an older text back, without adding or removing include lines or files.
`backdated` remembers the second: a file edited after the review, saved, and put
back before the comparison passes it, since texts are compared, and the backup
then holds a text that a rollback does not write.

**RecoveryImage.** `op.pc` is the laptop command's next step, and `op.boot` the
boot its agent process belongs to; an agent that lost its boot is gone. A block
is <<machine, version>>, so that contents of different times or machines are
different. The agent's many gates are three, by whether they can change while a
boot lasts. `past` and `held` are history.

**Timelapse.** An action is what runs between two awaits. The render is six
steps: query, encode frame by frame (FFmpeg opens the next file when it gets
there), rename, probe, remove. A frame is unique, a file name is its number only.
Below its reserve the stick is `full`: no frame and no new render, while a render
that began goes on. The flag for a partial file that cannot be removed is set on a
read-only stick, and may be set on one that is gone or came back (`PartialStuck`).
`job` is the printer's, `printing` the component's flag: a restart of Moonraker
forgets the flags and the count and keeps the files. `overlapped` is history: a
print began during a render, the one case in which frames are known to be lost.

## Runs

Passing runs:

* `plate_safety`: six invariants, an action property and the liveness properties
  `MutexIsReleased` and `PrintFinishes` over two file
  objects, four readiness changes, one body line and one live Z step.
* `admission`: two paths, three contents (passing both policies, the first only,
  none), two policies, two overwrites, one death, and a limit of one candidate
  file, so that the fail-closed branch is taken; safety and, under fairness,
  `StaleApprovalsVanish` and `UploadsSettle`.
* `commissioning_deploy`: two configurations, one of them unlocked, one
  deployment with interrupts or one maintenance authorization with hand starts,
  one mishap. Maintenance is one-use and never beside a running Klipper or
  Moonraker. An approval that counts for an unlocked
  configuration was given for it, a final release rests on a started,
  evidence-backed candidate, and the journal is true. Two refinements: the
  composed system implements `DeploySpec`, and the deployment implements
  `TreeStore`. Markers are written by every command and gate here; what keeps
  them out of a running transaction is that commands and deployments come from
  one console, and that `apply_bundle` refuses to start while a maintenance
  marker exists. The `CONSTRAINT` `ArmOrDeploy` keeps the authorization and the
  deployment in different behaviours, which together do not fit; the theorems
  have both in any number.
* `unit_jobs`: all units, with a production boot or none, two systemctl calls of
  the console commands (start production, maintenance or the host units, stop the
  first two) and one failure. `OneDriver` holds through automatic restarts and
  through requests that replace each other's jobs; `JobsSettle` says that no circle
  of jobs, of `After=`, `Before=`, `BindsTo=` and stops, waits for itself. Their
  mutants each change one word of one unit file.
* `macro_install`: three configuration roots, every installer, two faults, two
  actions by other clients. `open.cfg` is a file Klipper does not load, so the
  failing restart and the rollback happen.
* `recovery_image`: two printers with eMMCs of two blocks, so that only their
  identity tells them apart; four boots, two outside writes, one damage, five
  commands, the least for three recorded boots, a capture and a restore.
* `timelapse`: two prints, a limit of two frames, four requests, two changes of
  the stick, one render request, one restart of Moonraker at any of them.
* `gcode_scan`: files of eight lines: an object, START_PRINT, a mode, a move to a
  known place, and four more in which credit is earned, spent, rounded, dropped by
  an extruding travel or changed in worth by M221. The `CONSTRAINT` `Clean` ends a behaviour
  once the file is refused or has strayed, neither of which ever reverts and after
  which the properties ask nothing.
* `bundle_transfer`: three receivers, three builds (ready and unlocked, neither,
  unlocked only), two deployments.

Runs that refute what the repository says of itself (`findings` quotes the
lines):

* `admission_policy_race`: a policy installed during a scan is recorded as the one
  that accepted the file, and Klipper loads a file its own policy rejects.
* `timelapse_overlap`: a print that starts during a render has its first frames
  deleted, though no video shows them.
* `transfer_retry`: a receiver that is refused because an upload is in progress
  deletes that upload, whose receiver then answers "quarantined".

Further disagreements between the code and what is said of it, met while
modelling, without a run of their own:

* `t300_safety.py:666` says an error withdraws the plate check; the error hook
  acts only while a print is loaded (`t300_safety.py:610`).
* `lifecycle.cfg:210` says M600 pauses; a pause flag left over from an idle PAUSE
  makes it print on (`lifecycle.cfg:213`).
* `MAINLINE_MIGRATION.md:395` wants every unlock to rest on evidence; a running,
  locked Klipper reads a hand-edited configuration on RESTART, which no gate
  looks at.
* Ctrl-C between the exchange and the assignment after it leaves the new
  configuration live, the journal at "failed" with no rollback note, and the old
  tree removed from the sibling directory (a copy remains in the backup).
  `JournalTellsTheTruth` and `StoreSpec` except the time after an interrupt.
* `PRELIMINARY_RUNTIME_DESIGN_20260804.md:161` says a stale ready is not accepted;
  `wait_for_restart_ready` takes any failed poll for the restart
  (`t300ctl.py:1096`), so one lost answer before the restart begins makes the
  next "ready" a success. `SuccessMeansReloaded` excepts lost polls.
* `MAINLINE_MIGRATION.md:122` says that a stationary push is accepted only when it
  recovers filament that was retracted. The scanner counts E words, and M221 up to
  100 passes it (`gcode_policy.py:832`), as it passes the printer
  (`t300_safety.py:1045`): after `M221 S1`, `G1 E-1`, `M221 S100` it takes `G1 E1` for
  a recovery, and 0.99 mm that were never retracted are pushed while the head
  stands. `StationaryIsEarned` excepts a factor raised over a credit (`raised`);
  without the exception TLC finds such a file on a finer factor.
* A rollback that cannot write `printer.cfg` back still deletes the new macro
  file, so the include dangles (`IncludesResolve` excepts it; the tool reports an
  incomplete rollback).

And two dead ends, which no text excludes: a completed CANCEL_PRINT can leave
the file loaded (after a failed read of it, or after PAUSE, CLEAR_PAUSE, PAUSE),
and then only a restart lets the plate be checked again; and an upload deleted
while it is being admitted keeps an approval that no later scan revokes.

## Hazards no property covers

`PROJECT.json` lists the hazards the properties are about, and some without one.
These are real too and have no property, because no text promises anything about
them or because what they concern is outside the models:

* A live Z adjustment after END_PRINT stays in force for the next print
  (`t300_safety.py:826`).
* A transient I/O error during admission is remembered as a verdict
  (`admission_daemon.py:353`); a flood of uploads revokes every approval and the
  old uploads are not admitted again (`admission_daemon.py:322`).
* A rollback after the rename leaves the failed tree under the previous name of
  its base, which blocks later deployments from it (`config_deploy.py:723`).
* `production_start` and `storage_enable` killed after their marker write leave a
  state that only the owner can repair (`commissioning.py:765`, `:636`).
* The rollback of an install restarts Klipper without an idle check
  (`t300ctl.py:1199`), and an edit between comparison and upload is overwritten
  (`t300ctl.py:1162`).
* A power loss while a boot is recorded leaves a partial file that blocks every
  later record (`t300-recovery-agent.py:411`); a capture's output is checked for
  absence hours before it is put in place (`imaging.py:381`); the SSH sessions
  have no keepalive (`imaging.py:427`).
* The render at a print's end is refused while the last frame is fetched, and not
  tried again (`t300_timelapse.py:452`); a late frame lands among the next
  print's (`t300_timelapse.py:281`).
* The scanner assumes absolute modes at the start while the printer keeps those
  of the last print, and reads the E word of G91 with M82 otherwise than Klipper
  (`gcode_policy.py:916`); arcs are checked by their end points
  (`gcode_policy.py:881`). The scanner's properties are about files that set the
  modes they rely on, as the slicer's do.
* `apply_bundle` hashes the uploaded file it consumes and then unlinks it by name
  (`config_deploy.py:658`); stopping `ssh.service` does not end running sessions.

## Bounds

Every bound is a constant of its module: `MaxLoads`, `MaxSequence`, `MaxLines`,
`MaxLiveZ`; `MaxPolicies`, `MaxWrites`, `MaxCrashes`, `MaxCandidates`,
`MaxSpool`; `MaxMishaps`, `MaxDeploys`, `MaxArms`, `HandStarts`, `HandStops`;
`MaxInstalls`, `MaxFaults`, `MaxEdits`; `MaxBoots`, `MaxVersions`, `MaxDamages`,
`MaxCommands`; `MaxPrints`, `MaxShots`, `MaxUSBEvents`, `MaxRequests`, `MaxRestarts`;
`AxisMax`, `MaxRetract`, `MaxPush`, `FullFlow`, `max_lines`; `Receivers`, `Blocks`,
`MaxPrepared`.

Two file objects are the least for a reservation of one to meet another; four
readiness changes let a check be given, used, given again and withdrawn. Two
policies and two overwrites give every order of policy change, overwrite and scan
step. One mishap reaches each kill, power loss, unit failure and edit at every
point of every command; the proofs cover any number where they exist. One
deployment is enough for the exchange of a marked tree and its rollback;
`CommissioningProofs` covers any number. A second session for one authorization
needs no second authorization. Two faults let a rollback fail as well as the
change. Two receivers make a refusal, the third a retry. Two prints and two
frames let names be taken, and the limit be reached.

Deadlock is checked in every run but those of five modules: in `timelapse`,
`gcode_scan`, `bundle_transfer`, `recovery_image` and `unit_jobs` (and their findings)
the bounded environment is used up, the file is read or no job is
left, and the system really stops.

## Fairness

* `PlateSafety`: weak fairness of the running macro, of heating up, and of the
  SD worker. Klipper's reactor runs a greenlet that is ready, and a heater that
  does not reach its target is a shutdown (`verify_heater`), which is an action
  of its own. Nothing obliges the operator.
* `Admission`: weak fairness of the daemon's step, which covers its restart by
  `Restart=on-failure`.
* `UnitJobs`: one weak fairness of all of systemd's steps together: systemd works
  off its queue, a start ends by `TimeoutStartSec=` and a stop by
  `TimeoutStopSec=`, and nothing says in which order. Requests and failures are
  not fair, and bounded.
* `MacroInstall`: weak fairness of the installer's step, its deadline included.
  Nothing obliges Klipper, which may never come back.
* `Timelapse`: weak fairness of the frame request, the scheduled render and the
  render's steps: the event loop runs what is scheduled, and camera, FFmpeg and
  ffprobe have time limits.

The other modules state no fairness.

## Proofs

tlapm proves, for every value of the constants:

* **PlateSafetyProofs**, from no assumption but the bounds being naturals:
  `TypeCorrect`, `SequenceParity`, `ReservationBinding`, `CleanPlate`,
  `ColdPlate`, `OneStartPerCheck`, `TuningIsolation`, `LockInert`, and the action
  properties `HomeSafety` and `LockMovesNothing`. The properties are not
  inductive one by one: that a home in a start is one of a clean plate needs that
  the reservation is for the open file, that the chain of program points cannot
  be re-entered, and that every step that moves filament clears it. The invariant
  ties `pc`, the loaded file, the reservation and the lock together, and the proof
  has a lemma per action.
* **AdmissionProofs**, from the assumptions on the constants: `AdmissionTypes`,
  `SnapshotBehindApproval`, `SettledBinding`, `MismatchTransience`, `CleanRest`,
  `LoadSafety`. The invariant adds that fingerprints in use were written
  (`Fresh`), that a daemon past its check judges with the policy it hashed
  (`Versioned`), what the job in progress knows of its file (`JobBound`,
  `Staged`), and what an approval and a loaded file were judged by (`Judged`,
  `LoadBound`).
* **CommissioningProofs**, first part, `ConfigDeploy` by itself: `DeployInvariant`,
  `OldTreeSurvives`, `JournalIsTrue`. The invariant says, per step, where the
  handler would find the old tree (`Held`) and that the finally clause preserves
  the sibling whenever a replaced tree is in it (`Kept`), which is stronger than
  the property and is what a rollback needs. It holds until a statement is
  interrupted; `InterruptStays` shows that this never reverts, so a property of
  uninterrupted states needs nothing of the others.
  It also proves `TreeAlwaysComplete` and `DeployImplementsStore`: every
  behaviour of `apply_bundle`, interrupted or not, is one of `TreeStore`. After an
  interrupt the strong invariant is gone, and the store then promises less; what
  the mapping still needs is `WInv`: the tree that goes in is the one that was
  built, and what the handler exchanges back is a tree that was taken out. Without
  interrupts `AllOnDisk` gives, from the strong invariant, that the kept trees are
  exactly those taken out.
* **CommissioningProofs**, second part, the whole system: `CommissioningInvariant`, `UnlockRestsOnEvidence`,
  `ReleaseRestsOnBoth`, `OneSessionPerAuthorization`, `CommissioningIsDeploy`,
  `SystemKeepsTheStore`. A property of the installed tree alone is not inductive,
  because a rollback brings an older tree back: `TreesAreHonest` says of every
  tree on disk that its markers were earned. `OneAtATime` says that no command
  runs beside a transaction, `StillSo` that what a command found at its check
  (including the marker its gate rests on) still holds when it writes, and
  `UsedOnce` and `Alone` tie the maintenance marker to the unit it lets in. From
  them every step is one of `DeployNext` or leaves its variables alone, and the
  theorems of the first part carry over to the whole system.
  One assumption is systemd's: `NoConflictingStart`, a single transaction never
  starts maintenance together with a unit that conflicts with it (systemd refuses
  such a transaction).
* **BundleTransferProofs**: `TransferInvariant`, `OnlyReviewedIsApplied`,
  `NoPartIsLeft`, for any number of receivers and blocks. `apply_bundle` opens the
  quarantined file several times while receivers create and unlink it; the
  invariant keeps what one step found true for the later ones (`Reading`,
  `Agreed`): the snapshot is the reviewed, prepared bundle from the digest
  comparison on, and fits the installed configuration from the gates on. The other
  theorem needs that a receiver answers for a complete file only.
* **TimelapseProofs**: `TimelapseInvariant`, `NoFrameIsLost`, `OneRequestAtATime`,
  `FlagsHaveOwners`. The render removes by name, and a name can be given to a
  later frame. The invariant says what FFmpeg has read so far and that the names
  the render knows still hold it (`RenderSees`, as long as no print starts during
  a render), and which actor each flag belongs to (`RequestOwned`, `RenderOwned`). The last two are the safety half of
  `FlagsClear`: no flag is set with nobody left to clear it.
* **RecoveryImageProofs**: `RecoveryInvariant`, `HistoryOfOneMachine`,
  `ManifestWasHeld`, `RestoreIsTrue`, `CheckIsComplete`. A device is read block by
  block while others may write it. No block version is ever used twice, so a
  second pass that reads what the first read shows that the whole content stood
  at one instant between the passes (`Stands`, `ReadOff`): that instant's content
  is the witness that the manifest needs. The action properties follow from the
  invariant at the step in question.
* **GCodeScanProofs**: `ScanInvariant`, `PrinterStaysInside`, `ExtrusionIsThin`,
  `StationaryPushIsEarned`. The scanner keeps a shadow of a printer it never sees;
  the invariant says how exact it is. A position it holds is the printer's
  (`InsideTheBed`), its E position is the printer's, and its own books keep the
  budget (`Budget`). Unless the factor was raised over a credit, its credit at the
  present flow factor never exceeds what the filament is owed, and its rounding at
  the highest factor covers the real excess (`BooksCover`); lowering the factor
  only makes the credit worth less. A line executed in the modes it was
  read in (`Followed`) then pushes and travels exactly as far as was checked. The
  assumptions are that the policy's limits are natural numbers, the rounding
  share is not zero, and a missing word is no number.
* **MacroInstallProofs**: `InstallInvariant`, `ReportIsTrue`, `SuccessIsReloaded`,
  `BackupHoldsOriginals`, `IncludesStayResolved`. An installer reads each file up
  to four times while others edit it. Unless somebody puts an older text back,
  the versions of a file are ordered (`Later`): the one in the backup lies between
  the one reviewed and the one compared, and when those two are equal it is the
  same (`Window`, `Secured`). `Progress` says which files have been written, or put back
  or noted as failed, at each point of the loops, leaving out those another client
  wrote since. `Seen` ties an observed restart to what Klipper loaded. For the
  includes, `Inclusion` says that the lines reviewed never leave printer.cfg, and
  that the new one is there only while its file is; the step lemmas
  `UploadResolves`, `UndoResolves` and `EditResolves` then give the action property.
  Lemmas about `InsertAt`, `SetToSeq` and the lists of files to write
  (`PatchAddsInclude`, `ListsAll`, `ChangesForms`) stand at the front. The
  assumptions are that an installer finds files without hand edits (the count
  starts at zero) and no include of a missing file.

Every invariant was checked by TLC on the bounds of the runs before it was
proved.

Also proved, about the same modules: types, `SequenceParity`, `LockMovesNothing`,
`MismatchTransience` and `FlagsHaveOwners`, which no run repeats.

Only model-checked:

* The liveness properties: fairness and ENABLED are beyond the prover.
* `UnitJobs`: its only parameters are which units a boot or a request names and how
  many requests and failures there are, and the one set of unit files is covered.

## What is not modelled, and why

* In `Admission` a verdict is given by `Accepts`; `GCodeScan` has the rules behind
  it, for one axis of the plane. Arcs are their end points, as in the code.
* The rejection records, the tar format and the SSH options.
* Unsynced directory entries: the disk keeps what a process wrote.
* The truth of evidence files; the model tracks which configuration they name.
* A second root shell running a command at the same time.
* Ages of evidence (10 minutes) and typed confirmations: a command either passes
  or does nothing.
* The components listed as `not_modelled` in `PROJECT.json`.

## Plan

1. Done: all modules of the table above, the abstract store and its refinement,
   and the safety properties of all of them but `UnitJobs` proved.
2. `TouchscreenGateway`: the filter between the stock bridge and Moonraker.
3. A disk with unsynced directory entries under `Commissioning`.
4. `Provision`.
