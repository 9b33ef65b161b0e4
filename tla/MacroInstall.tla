---------------------------- MODULE MacroInstall ----------------------------
(***************************************************************************)
(* The laptop controller's installers (bin/t300ctl.py): one macro file and *)
(* its include line are put on the printer over Moonraker, with a backup,  *)
(* a compare-before-write, byte read-back, a firmware restart that has to  *)
(* be observed, and a rollback.  Meanwhile other clients edit files, print *)
(* and restart Klipper, any request may be lost before or after it took    *)
(* effect, and the user may press Ctrl-C.                                  *)
(*                                                                         *)
(* A file's content is its lines and the number of its last hand edit.     *)
(* Of printer.cfg the lines that matter are kept: the factory include      *)
(* ("Macro.cfg"), the include of a macro file (the file's name), and any   *)
(* other line.                                                             *)
(***************************************************************************)
EXTENDS Integers, Sequences, SequencesExt, FiniteSets

CONSTANTS
    InitialDisks,   \* configuration roots an installer may find
    OtherLines,     \* lines that are neither include
    Broken,         \* macro files whose supplied text Klipper does not load
    MaxInstalls,    \* installs that go past the review
    MaxFaults,      \* requests lost and keys pressed
    MaxEdits        \* hand edits, prints and restarts by other clients

Macros == {"gergo.cfg", "open.cfg", "kamp.cfg"}
Files == Macros \union {"printer.cfg"}
Line == {"Macro.cfg"} \union Macros \union OtherLines
Absent == [lines |-> << >>, edits |-> 0]
Lines(d) == ToSet(d["printer.cfg"].lines)
Includes(d) == Lines(d) \intersect Macros

ASSUME Bounds == MaxInstalls \in Nat /\ MaxFaults \in Nat /\ MaxEdits \in Nat
ASSUME BrokenAssumption == Broken \subseteq Macros
ASSUME Disks == \A d \in InitialDisks :
    /\ d \in [Files -> [lines : Seq(Line), edits : {0}]]
    /\ \A f \in Includes(d) : d[f] # Absent

VARIABLES
    disk,       \* the config root of the printer
    klippy,     \* klippy_state: "ready", "startup" (or not connected), "error"
    asked,      \* a firmware restart was accepted and has not begun
    running,    \* the files Klipper last loaded
    printing,   \* print_stats.state is printing or paused
    pc,         \* the next request of the installer, or "idle"
    macro,      \* the file being installed
    original,   \* printer.cfg and the macro file as downloaded for review
    saved,      \* the backup's files so far
    todo,       \* the files the current loop still has to visit
    attempted,  \* restart_attempted
    observed,   \* restart_observed
    errors,     \* files (or "restart") in rollback_errors
    outcome,    \* how the last installer ended
    lost,       \* history: a poll of the last restart was lost
    touched,    \* history: files another client wrote since this tool did
    backdated,  \* history: files another client put back to an older text in this install
    installs, faults, edits

printer == <<disk, klippy, asked, running, printing>>
review == <<macro, original>>
flags == <<attempted, observed, errors, lost>>
history == <<touched, backdated>>
bounds == <<installs, faults, edits>>
vars == <<printer, pc, review, saved, todo, flags, outcome, history, bounds>>

-----------------------------------------------------------------------------
(* What an installer computes from what it downloaded.                      *)

(* The bundled or supplied text of a macro file.                            *)
Supplied(f) == [lines |-> <<f>>, edits |-> 0]

(* patch_printer_cfg: one include line right after the factory's, unless    *)
(* it is there already.                                                     *)
PatchPrinterCfg(lines, f) ==
    IF f \in ToSet(lines) THEN lines
    ELSE InsertAt(lines, SelectInSeq(lines, LAMBDA l : l = "Macro.cfg") + 1, f)

(* The leveling workflows exclude one another.                              *)
LevelingExclusive(lines, f) ==
    /\ f = "gergo.cfg" => "open.cfg" \notin ToSet(lines)
    /\ f = "open.cfg" => "gergo.cfg" \notin ToSet(lines)

(* KAMP needs GerGo's macro.  (Its other conditions are on vendor text that *)
(* nobody edits here; it looks at an earlier download of the same file.)    *)
KampCompatible(lines, f) == f = "kamp.cfg" => "gergo.cfg" \in ToSet(lines)

(* What makes printer.cfg acceptable, the place for the include among it.   *)
Compatible(lines, f) ==
    /\ LevelingExclusive(lines, f)
    /\ KampCompatible(lines, f)
    /\ {f, "Macro.cfg"} \intersect ToSet(lines) # {}

Proposed(g) ==
    IF g = "printer.cfg" THEN [original[g] EXCEPT !.lines = PatchPrinterCfg(@, macro)]
    ELSE Supplied(g)

(* The files to write, the include switch last.                             *)
IfChanged(g) == IF Proposed(g) # original[g] THEN <<g>> ELSE << >>
IncludeFirst == IfChanged("printer.cfg") \o IfChanged(macro)
Changes == IfChanged(macro) \o IfChanged("printer.cfg")

Loadable(d) == \A f \in Includes(d) : d[f] # Absent /\ (f \in Broken => d[f] # Supplied(f))

IdleReady == klippy = "ready" /\ ~printing

-----------------------------------------------------------------------------
(* Steps of the installer.                                                  *)

Ends(how) ==
    /\ pc' = "idle"
    /\ outcome' = how
    /\ UNCHANGED <<review, saved, todo, flags>>

(* install_*: the idle check of the printer before anything is read.        *)
Begin(f) ==
    /\ pc = "idle"
    /\ macro' = f
    /\ outcome' = IF IdleReady THEN "none" ELSE "refused"
    /\ saved' = [g \in {} |-> Absent] /\ todo' = << >>
    /\ attempted' = FALSE /\ observed' = FALSE /\ errors' = {} /\ lost' = FALSE
    /\ pc' = IF IdleReady THEN "review" ELSE "idle"
    /\ backdated' = {}
    /\ UNCHANGED <<printer, original, touched, bounds>>

(* printer.cfg is downloaded, checked and patched.                          *)
ReviewPrinterCfg ==
    /\ pc = "review"
    /\ original' = [original EXCEPT !["printer.cfg"] = disk["printer.cfg"]]
    /\ IF Compatible(disk["printer.cfg"].lines, macro)
       THEN pc' = "review_macro" /\ outcome' = outcome
       ELSE pc' = "idle" /\ outcome' = "refused"
    /\ UNCHANGED <<printer, macro, saved, todo, flags, history, bounds>>

(* The macro file is looked up.  A foreign one is replaced only by the KAMP *)
(* installer, and an include of a missing file is refused.                  *)
ReviewMacro ==
    /\ pc = "review_macro"
    /\ LET existing == disk[macro]
           present == existing # Absent
       IN  /\ original' = [original EXCEPT ![macro] = existing]
           /\ IF \/ present /\ existing # Supplied(macro) /\ macro # "kamp.cfg"
                 \/ ~present /\ macro \in ToSet(original["printer.cfg"].lines)
              THEN pc' = "idle" /\ outcome' = "refused"
              ELSE pc' = "decide" /\ outcome' = outcome
    /\ UNCHANGED <<printer, macro, saved, todo, flags, history, bounds>>

(* A dry run stops here, and so does an install that changes nothing.       *)
Decide ==
    /\ pc = "decide"
    /\ \/ Ends("reviewed") /\ installs' = installs
       \/ /\ Changes # << >>
          /\ installs < MaxInstalls /\ installs' = installs + 1
          /\ pc' = "backup"
          /\ todo' = SetToSeq({g \in Files : disk[g] # Absent})
          /\ UNCHANGED <<review, saved, flags, outcome>>
    /\ UNCHANGED <<printer, history, faults, edits>>

(* make_backup downloads the files of its listing one by one.               *)
Backup ==
    /\ pc = "backup"
    /\ IF todo = << >>
       THEN pc' = "compare" /\ todo' = <<"printer.cfg", macro>> /\ saved' = saved
       ELSE /\ saved' = [g \in DOMAIN saved \union {Head(todo)} |->
                            IF g = Head(todo) THEN disk[g] ELSE saved[g]]
            /\ todo' = Tail(todo)
            /\ pc' = pc
    /\ UNCHANGED <<printer, review, flags, outcome, history, bounds>>

(* apply_config_transaction: what was reviewed must still be there.         *)
CompareNothing ==
    /\ pc = "compare"
    /\ pc' = "recheck"
    /\ UNCHANGED <<printer, review, saved, todo, flags, outcome, history, bounds>>
Compare ==
    /\ pc = "compare"
    /\ IF todo = << >> THEN pc' = "recheck" /\ UNCHANGED <<outcome, todo>>
       ELSE IF disk[Head(todo)] = original[Head(todo)]
       THEN todo' = Tail(todo) /\ UNCHANGED <<pc, outcome>>
       ELSE pc' = "idle" /\ outcome' = "refused" /\ todo' = todo
    /\ UNCHANGED <<printer, review, saved, flags, history, bounds>>

Recheck ==
    /\ pc = "recheck"
    /\ IF IdleReady THEN pc' = "upload" /\ todo' = Changes /\ outcome' = outcome
       ELSE pc' = "idle" /\ outcome' = "refused" /\ todo' = todo
    /\ UNCHANGED <<printer, review, saved, flags, history, bounds>>

(* What this tool writes is no longer another client's.                     *)
Write(g, content) ==
    /\ disk' = [disk EXCEPT ![g] = content]
    /\ touched' = touched \ {g} /\ backdated' = backdated

Upload ==
    /\ pc = "upload"
    /\ Write(Head(todo), Proposed(Head(todo)))
    /\ pc' = "verify"
    /\ UNCHANGED <<klippy, asked, running, printing, review, saved, todo, flags, outcome, bounds>>

(* Undoing starts over the files in reverse order.                          *)
UndoConfirmed == pc' = "undo" /\ todo' = Reverse(SubSeq(Changes, 1, Len(Changes) - Len(todo)))
Undo == pc' = "undo" /\ todo' = Reverse(Changes)

(* Read-back of the file just written.                                      *)
VerifyUpload ==
    /\ pc = "verify"
    /\ IF disk[Head(todo)] # Proposed(Head(todo)) THEN Undo
       ELSE IF Tail(todo) = << >> THEN pc' = "reread" /\ todo' = Changes
       ELSE pc' = "upload" /\ todo' = Tail(todo)
    /\ UNCHANGED <<printer, review, saved, flags, outcome, history, bounds>>

(* Every proposed byte once more, then the second idle check.               *)
Reread ==
    /\ pc = "reread"
    /\ IF todo = << >> THEN pc' = "settle" /\ todo' = todo
       ELSE IF disk[Head(todo)] = Proposed(Head(todo)) THEN pc' = pc /\ todo' = Tail(todo)
       ELSE Undo
    /\ UNCHANGED <<printer, review, saved, flags, outcome, history, bounds>>

SettleIdle ==
    /\ pc = "settle"
    /\ IF IdleReady THEN pc' = "restart" /\ attempted' = TRUE /\ todo' = todo
       ELSE Undo /\ attempted' = attempted
    /\ UNCHANGED <<printer, review, saved, observed, errors, lost, outcome, history, bounds>>

(* firmware_restart_and_wait, for the change and for its undoing.           *)
Succeeds ==
    /\ pc' = "idle"
    /\ outcome' = IF pc = "wait" THEN "installed"
                  ELSE IF errors = {} THEN "restored" ELSE "incomplete"
    /\ UNCHANGED <<todo, errors>>

Fails ==
    IF pc \in {"restart", "wait"} THEN Undo /\ UNCHANGED <<outcome, errors>>
    ELSE /\ pc' = "idle" /\ outcome' = "incomplete"
         /\ errors' = errors \union {"restart"} /\ todo' = todo

(* Moonraker passes the request on, or refuses it while Klippy is away.      *)
Restart ==
    /\ pc \in {"restart", "undo_restart"}
    /\ \/ /\ asked' = TRUE
          /\ observed' = FALSE /\ lost' = FALSE
          /\ pc' = IF pc = "restart" THEN "wait" ELSE "undo_wait"
          /\ UNCHANGED <<todo, errors, outcome>>
       \/ klippy = "startup" /\ Fails /\ UNCHANGED <<asked, observed, lost>>
    /\ UNCHANGED <<disk, klippy, running, printing, review, saved, attempted, history, bounds>>

(* One poll of wait_for_restart_ready: ready counts once something else was *)
(* seen.                                                                    *)
TrustFirstReady ==
    /\ pc \in {"wait", "undo_wait"}
    /\ observed' = TRUE
    /\ klippy = "ready"
    /\ Succeeds
    /\ UNCHANGED <<printer, review, saved, attempted, lost, history, bounds>>
Poll ==
    /\ pc \in {"wait", "undo_wait"}
    /\ observed' = (observed \/ klippy # "ready")
    /\ \/ klippy = "ready" /\ observed /\ Succeeds
       \/ klippy = "error" /\ Fails
       \/ UNCHANGED <<pc, todo, errors, outcome>>
    /\ UNCHANGED <<printer, review, saved, attempted, lost, history, bounds>>

(* A poll that raises is taken for the restart: restart_observed = True.    *)
PollLost ==
    /\ faults < MaxFaults /\ faults' = faults + 1
    /\ pc \in {"wait", "undo_wait"}
    /\ observed' = TRUE /\ lost' = TRUE
    /\ UNCHANGED <<printer, pc, review, saved, todo, attempted, errors, outcome, history,
                   installs, edits>>

(* The 60 seconds are over.                                                 *)
DeadlineOnError ==
    /\ pc \in {"wait", "undo_wait"} /\ klippy = "error"
    /\ Fails
    /\ UNCHANGED <<printer, review, saved, attempted, observed, lost, history, bounds>>
Deadline ==
    /\ pc \in {"wait", "undo_wait"}
    /\ Fails
    /\ UNCHANGED <<printer, review, saved, attempted, observed, lost, history, bounds>>

(* Rollback of one file: a new file is deleted, an old one written back and *)
(* read back; what goes wrong is noted and the loop goes on.                *)
UndoFile ==
    /\ pc = "undo" /\ todo # << >>
    /\ Write(Head(todo), original[Head(todo)])
    /\ pc' = "undo_verify"
    /\ UNCHANGED <<klippy, asked, running, printing, review, saved, todo, flags, outcome, bounds>>

UndoVerify ==
    /\ pc = "undo_verify"
    /\ errors' = IF disk[Head(todo)] = original[Head(todo)] THEN errors
                 ELSE errors \union {Head(todo)}
    /\ todo' = Tail(todo)
    /\ pc' = "undo"
    /\ UNCHANGED <<printer, review, saved, attempted, observed, lost, outcome, history, bounds>>

(* A second restart only if the first may have reached Klipper.             *)
UndoDone ==
    /\ pc = "undo" /\ todo = << >>
    /\ IF attempted THEN pc' = "undo_restart" /\ outcome' = outcome
       ELSE pc' = "idle" /\ outcome' = IF errors = {} THEN "restored" ELSE "incomplete"
    /\ UNCHANGED <<printer, review, saved, todo, flags, history, bounds>>

-----------------------------------------------------------------------------
(* Faults: a request raises before it reached the printer or after it took  *)
(* effect, or Ctrl-C is pressed.  Before the first upload the command just  *)
(* ends; from then on it rolls back; in the rollback the file is noted.     *)

BeforeMutation == {"review", "review_macro", "decide", "backup", "compare", "recheck"}
Mutating == {"upload", "verify", "reread", "settle", "restart"}

Effect ==
    CASE pc = "upload" -> Write(Head(todo), Proposed(Head(todo))) /\ asked' = asked
      [] pc = "undo" /\ todo # << >> -> Write(Head(todo), original[Head(todo)]) /\ asked' = asked
      [] pc \in {"restart", "undo_restart"} -> asked' = TRUE /\ UNCHANGED <<disk, history>>
      [] OTHER -> UNCHANGED <<disk, history, asked>>

Raise ==
    /\ faults < MaxFaults /\ faults' = faults + 1
    /\ Effect \/ UNCHANGED <<disk, history, asked>>
    /\ \/ /\ pc \in BeforeMutation
          /\ Ends("refused")
       \/ /\ pc \in Mutating
          /\ Undo
          /\ UNCHANGED <<review, saved, flags, outcome>>
       \/ /\ pc \in {"undo", "undo_verify"} /\ todo # << >>
          /\ errors' = errors \union {Head(todo)}
          /\ pc' = "undo" /\ todo' = Tail(todo)
          /\ UNCHANGED <<review, saved, attempted, observed, lost, outcome>>
       \/ /\ pc = "undo_restart"
          /\ errors' = errors \union {"restart"}
          /\ pc' = "idle" /\ outcome' = "incomplete"
          /\ UNCHANGED <<review, saved, todo, attempted, observed, lost>>
    /\ UNCHANGED <<klippy, running, printing, installs, edits>>

(* Ctrl-C while waiting for the restart.                                    *)
InterruptWait ==
    /\ faults < MaxFaults /\ faults' = faults + 1
    /\ pc \in {"wait", "undo_wait"}
    /\ Fails
    /\ UNCHANGED <<printer, review, saved, attempted, observed, lost, history, installs, edits>>

-----------------------------------------------------------------------------
(* Klipper and the other clients.                                           *)

laptop == <<pc, review, saved, todo, flags, outcome>>

(* A firmware restart ends any print, then loads what is on disk.           *)
KlippyDown ==
    /\ asked /\ asked' = FALSE
    /\ klippy' = "startup" /\ printing' = FALSE
    /\ UNCHANGED <<disk, running, laptop, history, bounds>>

KlippyLoads ==
    /\ klippy = "startup"
    /\ running' = disk
    /\ klippy' = IF Loadable(disk) THEN "ready" ELSE "error"
    /\ UNCHANGED <<disk, asked, printing, laptop, history, bounds>>

Elsewhere == edits < MaxEdits /\ edits' = edits + 1 /\ UNCHANGED <<laptop, installs, faults>>

(* An edit gives a file a new text or puts an older one back.               *)
EditFile(f) ==
    /\ Elsewhere
    /\ disk[f] # Absent
    /\ \E n \in 0..(disk[f].edits - 1) \union {edits + 1} :
          /\ disk' = [disk EXCEPT ![f].edits = n]
          /\ backdated' = IF n <= edits THEN backdated \union {f} ELSE backdated
    /\ touched' = touched \union {f}
    /\ UNCHANGED <<klippy, asked, running, printing>>

StartPrint ==
    /\ Elsewhere
    /\ klippy = "ready" /\ ~printing
    /\ printing' = TRUE
    /\ UNCHANGED <<disk, klippy, asked, running, history>>

RestartElsewhere ==
    /\ Elsewhere
    /\ klippy # "startup"
    /\ asked' = TRUE
    /\ UNCHANGED <<disk, klippy, running, printing, history>>

PrintEnds ==
    /\ printing
    /\ printing' = FALSE
    /\ UNCHANGED <<disk, klippy, asked, running, laptop, history, bounds>>

-----------------------------------------------------------------------------
Init ==
    /\ disk \in InitialDisks
    /\ running = disk /\ klippy = "ready" /\ asked = FALSE /\ printing = FALSE
    /\ pc = "idle" /\ macro = "gergo.cfg" /\ original = [f \in Files |-> Absent]
    /\ saved = [f \in {} |-> Absent] /\ todo = << >>
    /\ attempted = FALSE /\ observed = FALSE /\ errors = {} /\ lost = FALSE
    /\ outcome = "none" /\ touched = {} /\ backdated = {}
    /\ installs = 0 /\ faults = 0 /\ edits = 0

Installer ==
    \/ ReviewPrinterCfg \/ ReviewMacro \/ Decide \/ Backup
    \/ Compare \/ Recheck \/ Upload \/ VerifyUpload \/ Reread \/ SettleIdle
    \/ Restart \/ Poll \/ Deadline
    \/ UndoFile \/ UndoVerify \/ UndoDone

Next ==
    \/ \E f \in Macros : Begin(f)
    \/ Installer
    \/ PollLost \/ Raise \/ InterruptWait
    \/ KlippyDown \/ KlippyLoads
    \/ \E f \in Files : EditFile(f)
    \/ StartPrint \/ PrintEnds \/ RestartElsewhere

Spec == Init /\ [][Next]_vars

(* The installer is one process that keeps running, and its waits have      *)
(* deadlines; nothing obliges Klipper or the other clients.                 *)
FairSpec == Spec /\ WF_vars(Installer)

-----------------------------------------------------------------------------
(* Properties.                                                              *)

Done(how) == pc = "idle" /\ outcome = how
Ours == ToSet(Changes) \ touched

(* What the tool reports is true of the disk, whichever requests were lost  *)
(* and whoever else was writing: after "Klipper restarted successfully"     *)
(* every file has its new bytes, and after "previous files were restored"   *)
(* every file has its old ones and a new file is gone (README.md:214-216).  *)
OutcomeIsTrue ==
    /\ Done("installed") => \A g \in Ours : disk[g] = Proposed(g)
    /\ Done("restored") => \A g \in Ours : disk[g] = original[g]

(* A success was earned by a restart: Klipper runs what was installed, and  *)
(* a "ready" from before the restart was not taken for one from after it.   *)
(* A lost poll is the exception: the code takes any failed poll for the     *)
(* restart it waits for.                                                    *)
Reloaded == \A g \in Ours : running[g] = Proposed(g)
SuccessMeansReloaded == Done("installed") /\ ~lost => Reloaded

(* From the first upload on, the backup holds the version of each file that *)
(* a rollback would bring back, although the review, the backup and the     *)
(* comparison read the files at different times.  The exception is a file   *)
(* that somebody edited and put back in between: the comparison looks at    *)
(* texts and cannot tell.                                                   *)
BackupCovers ==
    (pc \in Mutating \/ pc \in {"wait", "undo", "undo_verify", "undo_restart", "undo_wait"}) =>
        \A g \in ToSet(Changes) :
            original[g] # Absent =>
                g \in DOMAIN saved /\ (g \in backdated \/ saved[g] = original[g])

(* printer.cfg never includes a file that is not there: files come before   *)
(* the include and go after it.  The exception is a rollback that could not *)
(* write printer.cfg back and removes the file all the same.                *)
Resolves(d) == \A f \in Includes(d) : d[f] # Absent
IncludesResolve == [][Resolves(disk) /\ ~Resolves(disk') => "printer.cfg" \in errors]_vars

(* Every installer comes to an end, whatever Klipper does.                  *)
InstallEnds == pc # "idle" ~> pc = "idle"
=============================================================================
