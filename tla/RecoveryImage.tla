--------------------------- MODULE RecoveryImage ---------------------------
(***************************************************************************)
(* Capturing and restoring a printer's eMMC through the recovery USB.      *)
(*                                                                         *)
(* bin/t300-recovery-agent.py runs on the printer, booted from the USB     *)
(* stick; t300_mainline/imaging.py runs on the laptop and starts the agent *)
(* over SSH once per operation, through bin/t300-recovery-ssh-gate.py.     *)
(* Each agent process inspects the target again before it reads or writes  *)
(* it.  Between two of them the printer can lose power, be booted again,   *)
(* be replaced by another printer, run from its own eMMC, or have its eMMC *)
(* mounted by someone on the recovery system.  On the laptop the command   *)
(* can be killed, and the image file damaged or replaced.                  *)
(*                                                                         *)
(* A block's content is <<machine, version>>: whatever writes the eMMC     *)
(* from outside this tool leaves a version nothing had before.  A digest   *)
(* is what it was computed from.                                           *)
(***************************************************************************)
EXTENDS Naturals, Sequences, FiniteSets, SequencesExt

CONSTANTS
    Machines,      \* printers the stick may be plugged into
    Size,          \* Size[m]: blocks of the eMMC of m
    Partitions,    \* partitions of a captured image
    NoFile,        \* what is not there
    MaxBoots,      \* bound: boots of the recovery stick
    MaxVersions,   \* bound: writes to an eMMC from outside the tool
    MaxDamages,    \* bound: damages to the image file
    MaxCommands    \* bound: laptop commands started

ASSUME SizeAssumption == Size \in [Machines -> Nat \ {0}]

VARIABLES
    up,        \* the printer runs the recovery system from the stick
    faults,    \* the gates of inspect_target that fail in this boot
    boots,     \* ghost: machine of every boot of the stick so far
    history,   \* boot-history.json on the stick
    scratch,   \* .boot-history.json.partial is there
    emmc,      \* emmc[m]: the blocks of the eMMC of m
    version,   \* the last version an outside write left
    past,      \* ghost: past[m]: every content the eMMC of m has had
    held,      \* ghost: contents of the eMMC since the tool last wrote to it
    partial,   \* .<image>.partial on the laptop
    image,     \* the compressed image
    draft,     \* .<manifest>.partial is there
    manifest,  \* the manifest
    op,        \* the laptop command
    bench,     \* the filesystem check's workspace
    outcome,   \* how the last laptop command ended
    damages, commands

agentVars == <<up, faults, boots, history, scratch>>
deviceVars == <<emmc, version, past, held>>
fileVars == <<partial, image, draft, manifest>>
vars == <<agentVars, deviceVars, fileVars, op, bench, outcome, damages, commands>>

Idle == [pc |-> "idle", seen |-> NoFile, typed |-> NoFile, boot |-> 0,
         got |-> <<>>, again |-> <<>>, sent |-> NoFile]
ClearBench == [temp |-> FALSE, loop |-> FALSE, known |-> FALSE,
               mounts |-> {}, checked |-> {}, error |-> FALSE]

\* The printer the stick is in, and the running boot.
Machine == Last(boots)
Boot == Len(boots)

(***************************************************************************)
(* The agent.                                                              *)
(***************************************************************************)
\* _load_boot_history: the recorded boots, of this machine and stick only.
HistoryLoads ==
    history = NoFile
    \/ (history.machine = Machine /\ IsInjective(history.boots))

RecordedBoots == IF history = NoFile THEN <<>> ELSE history.boots

\* The gates of inspect_target.  The stick's marker, the board and its
\* device tree, and a root filesystem on USB: fixed while the boot lasts.
BoardGate == "board" \notin faults
\* The target's geometry, its partition table and its eMMC evidence.
TargetGate == "target" \notin faults
\* Nothing of the target is mounted: the only gate that can change.
MountGate == "mounted" \notin faults

\* The forced-command gate starts the agent for its four commands, and
\* nothing else, while the stick's system runs.
Reachable == up

\* inspect_target's list of blockers is empty, and its result safe when
\* three boots are recorded as well.
Inspects == Reachable /\ HistoryLoads
Unblocked == Inspects /\ BoardGate /\ TargetGate /\ MountGate
Safe == Unblocked /\ Len(RecordedBoots) >= 3

\* A variant that appends the running boot each time.
RecordedEachTime == Append(RecordedBoots, Boot)

\* _record_boot's list: a boot counts once.
Recorded == IF Contains(RecordedBoots, Boot) THEN RecordedBoots
            ELSE Append(RecordedBoots, Boot)

\* What the agent process, started in boot op.boot, still reads.
AgentLives == up /\ op.boot = Boot

----------------------------------------------------------------------------
Init ==
    /\ up = FALSE /\ faults = {} /\ boots = <<>>
    /\ history = NoFile /\ scratch = FALSE
    /\ emmc = [m \in Machines |-> [i \in 1..Size[m] |-> <<m, 0>>]]
    /\ version = 0
    /\ past = [m \in Machines |-> {emmc[m]}]
    /\ held = {}
    /\ partial = NoFile /\ image = NoFile /\ draft = FALSE /\ manifest = NoFile
    /\ op = Idle /\ bench = ClearBench
    /\ outcome = "none"
    /\ damages = 0 /\ commands = 0

(***************************************************************************)
(* The laptop command.                                                     *)
(***************************************************************************)
At(pc) == op.pc = pc
Go(pc) == op' = [op EXCEPT !.pc = pc]

Begin(pc) ==
    /\ At("idle") /\ commands < MaxCommands
    /\ op' = [Idle EXCEPT !.pc = pc]
    /\ commands' = commands + 1 /\ outcome' = "running"

End(how) == op' = Idle /\ outcome' = how

\* An ImagingError, or the agent's nonzero exit, ends the command.
Refuse == End("failed") /\ UNCHANGED <<agentVars, deviceVars, fileVars, bench, damages, commands>>

\* Every agent process inspects again: _require_safe.
StartAgent(pc) ==
    IF Safe
    THEN /\ op' = [op EXCEPT !.pc = pc, !.boot = Boot, !.again = <<>>]
         /\ UNCHANGED <<agentVars, deviceVars, fileVars, bench, outcome, damages, commands>>
    ELSE Refuse

\* The agent's reading of one more block of the device it runs on.
NextBlock(read) == Append(read, emmc[Machine][Len(read) + 1])

(* t300ctl image inspect --record-boot: the new list goes to a partial     *)
(* file that must not exist, which then replaces the history.              *)
BeginRecord ==
    /\ Begin("record")
    /\ UNCHANGED <<agentVars, deviceVars, fileVars, bench, damages>>

RecordCreate ==
    /\ At("record")
    /\ IF Unblocked /\ ~scratch
       THEN /\ scratch' = TRUE
            /\ op' = [op EXCEPT !.pc = "record_replace", !.boot = Boot, !.got = Recorded]
            /\ UNCHANGED <<up, faults, boots, history, deviceVars, fileVars, bench,
                           outcome, damages, commands>>
       ELSE Refuse

RecordReplace ==
    /\ At("record_replace")
    /\ IF AgentLives
       THEN /\ history' = [machine |-> Machine, boots |-> op.got]
            /\ scratch' = FALSE
            /\ End("recorded")
            /\ UNCHANGED <<up, faults, boots, deviceVars, fileVars, bench, damages, commands>>
       ELSE Refuse

(* capture_image.                                                          *)
BeginCapture ==
    /\ Begin("capture")
    /\ image = NoFile /\ manifest = NoFile
    /\ UNCHANGED <<agentVars, deviceVars, fileVars, bench, damages>>

\* An inspection that is not safe is still an answer: it is the laptop that
\* refuses it.
check_inspection == Safe

\* The first inspection decides the machine and the size; O_EXCL creates
\* the partial file.
CaptureInspect ==
    /\ At("capture")
    /\ IF check_inspection /\ partial = NoFile
       THEN /\ op' = [op EXCEPT !.pc = "stream_start", !.seen = Machine]
            /\ partial' = [raw |-> <<>>, intact |-> TRUE]
            /\ UNCHANGED <<agentVars, deviceVars, image, draft, manifest, bench,
                           outcome, damages, commands>>
       ELSE Refuse

StreamStart == At("stream_start") /\ StartAgent("stream")

\* stream_device through the compressor into the partial file.
StreamBlock ==
    /\ At("stream")
    /\ IF AgentLives /\ Len(op.got) < Size[Machine]
       THEN /\ op' = [op EXCEPT !.got = NextBlock(@)]
            /\ partial' = [partial EXCEPT !.raw = op'.got]
            /\ UNCHANGED <<agentVars, deviceVars, image, draft, manifest, bench,
                           outcome, damages, commands>>
       ELSE IF AgentLives /\ Len(op.got) = Size[op.seen]
       THEN /\ Go("hash_start")
            /\ UNCHANGED <<agentVars, deviceVars, fileVars, bench, outcome, damages, commands>>
       ELSE Refuse

CaptureHashStart == At("hash_start") /\ StartAgent("hash")

\* hash_device reads the whole device once more.
HashBlock ==
    /\ op.pc \in {"hash", "check"} /\ AgentLives
    /\ Len(op.again) < Size[Machine]
    /\ op' = [op EXCEPT !.again = NextBlock(@)]
    /\ UNCHANGED <<agentVars, deviceVars, fileVars, bench, outcome, damages, commands>>

HashLost == op.pc \in {"hash", "check"} /\ ~AgentLives /\ Refuse

Hashed(pc) == At(pc) /\ AgentLives /\ Len(op.again) = Size[Machine]

\* A variant that looks only at the length of the second pass.
SecondPassComplete == Len(op.again) = Len(op.got)

\* The second pass must give what the first gave.
SecondPassAgrees == op.again = op.got

CaptureHashed ==
    /\ Hashed("hash")
    /\ IF SecondPassAgrees
       THEN /\ op' = [op EXCEPT !.pc = "test", !.again = <<>>]
            /\ UNCHANGED <<agentVars, deviceVars, fileVars, bench, outcome, damages, commands>>
       ELSE Refuse

\* zstd --test, then the digest of the compressed file.
ZstdTest ==
    /\ At("test")
    /\ IF partial.intact
       THEN /\ op' = [op EXCEPT !.pc = "rename", !.sent = partial]
            /\ UNCHANGED <<agentVars, deviceVars, fileVars, bench, outcome, damages, commands>>
       ELSE Refuse

\* os.replace(partial, output).
RenameImage ==
    /\ At("rename")
    /\ image' = partial /\ partial' = NoFile
    /\ Go("manifest")
    /\ UNCHANGED <<agentVars, deviceVars, draft, manifest, bench, outcome, damages, commands>>

\* _write_json_atomic: the manifest's own partial file, then its rename.
DraftManifest ==
    /\ At("manifest")
    /\ IF ~draft
       THEN /\ draft' = TRUE /\ Go("manifest_replace")
            /\ UNCHANGED <<agentVars, deviceVars, partial, image, manifest, bench,
                           outcome, damages, commands>>
       ELSE Refuse

WriteManifest ==
    /\ At("manifest_replace")
    /\ manifest' = [machine |-> op.seen, raw |-> op.got, file |-> op.sent]
    /\ draft' = FALSE
    /\ End("captured")
    /\ UNCHANGED <<agentVars, deviceVars, partial, image, bench, damages, commands>>

(* verify_image: name, size and digest of the compressed file, then the    *)
(* decompressed bytes, against the manifest.                               *)
Verified ==
    /\ image # NoFile /\ manifest # NoFile
    /\ image = manifest.file
    /\ image.intact /\ image.raw = manifest.raw

(* write_image, after --apply: typed is the machine the operator's         *)
(* confirmation names.                                                     *)
BeginWrite(typed) ==
    /\ At("idle") /\ commands < MaxCommands /\ Verified
    /\ op' = [Idle EXCEPT !.pc = "write", !.typed = typed]
    /\ commands' = commands + 1 /\ outcome' = "running"
    /\ UNCHANGED <<agentVars, deviceVars, fileVars, bench, damages>>

WriteInspect ==
    /\ At("write")
    /\ IF check_inspection /\ Machine = manifest.machine /\ Len(manifest.raw) = Size[Machine]
               /\ op.typed = Machine
       THEN /\ op' = [op EXCEPT !.pc = "write_start", !.seen = Machine]
            /\ UNCHANGED <<agentVars, deviceVars, fileVars, bench, outcome, damages, commands>>
       ELSE Refuse

\* The decompressor opens the image as it now is; write_device inspects
\* again and compares the confirmation and the size.
Confirmed == op.typed = Machine /\ Len(manifest.raw) = Size[Machine]

WriteStart ==
    /\ At("write_start")
    /\ IF Safe /\ Confirmed /\ image # NoFile
       THEN /\ op' = [op EXCEPT !.pc = "write_device", !.boot = Boot, !.sent = image]
            /\ UNCHANGED <<agentVars, deviceVars, fileVars, bench, outcome, damages, commands>>
       ELSE Refuse

\* One block to the device; an eMMC that wears out may keep what it had.
WriteBlock ==
    /\ At("write_device") /\ AgentLives
    /\ Len(op.got) < Size[Machine] /\ Len(op.got) < Len(op.sent.raw)
    /\ \E worn \in {0, 1} :
       LET i == Len(op.got) + 1
           content == IF worn = 1 THEN emmc[Machine]
                      ELSE [emmc[Machine] EXCEPT ![i] = op.sent.raw[i]]
       IN /\ damages + worn <= MaxDamages /\ damages' = damages + worn
          /\ emmc' = [emmc EXCEPT ![Machine] = content]
          /\ past' = [past EXCEPT ![Machine] = @ \cup {content}]
          /\ held' = {content}
          /\ op' = [op EXCEPT !.got = Append(@, op.sent.raw[i])]
    /\ UNCHANGED <<agentVars, version, fileVars, bench, outcome, commands>>

\* write_device's comparison of what it received with the manifest's
\* digest, made after the bytes are on the device, and the laptop's of both
\* exit codes: a damaged file makes the decompressor fail, at once or late.
ReceivedAgrees == op.got = manifest.raw
WriteEnds ==
    /\ At("write_device")
    /\ IF /\ AgentLives /\ Len(op.got) = Size[Machine]
          /\ Len(op.sent.raw) = Size[Machine] /\ op.sent.intact
          /\ ReceivedAgrees
       THEN /\ Go("check_start")
            /\ UNCHANGED <<agentVars, deviceVars, fileVars, bench, outcome, damages, commands>>
       ELSE /\ \/ ~AgentLives
               \/ ~op.sent.intact
               \/ Len(op.got) \in {Size[Machine], Len(op.sent.raw)}
            /\ Refuse

WriteHashStart == At("check_start") /\ StartAgent("check")

\* A variant that trusts the digest of what was received.
ReceivedIsEnough == ReceivedAgrees

\* The digest of the device, read back, against the manifest's.
RestoredAgrees == op.again = manifest.raw

WriteHashed ==
    /\ Hashed("check")
    /\ IF RestoredAgrees
       THEN /\ End("restored")
            /\ UNCHANGED <<agentVars, deviceVars, fileVars, bench, damages, commands>>
       ELSE Refuse

(***************************************************************************)
(* verify_image_filesystems: the raw image in a private directory, a       *)
(* read-only loop device over it, and every partition checked and mounted  *)
(* in turn.  Each tool may fail, and may fail after it has done its work   *)
(* (_run_local's timeout).                                                 *)
(***************************************************************************)
BenchStep(change, pc) ==
    /\ bench' = change /\ Go(pc)
    /\ UNCHANGED <<agentVars, deviceVars, fileVars, outcome, damages, commands>>

Fault(b) == [b EXCEPT !.error = TRUE]

BeginCheck ==
    /\ Begin("check_raw") /\ Verified
    /\ bench' = [ClearBench EXCEPT !.temp = TRUE]
    /\ UNCHANGED <<agentVars, deviceVars, fileVars, damages>>

\* _materialize_verified_raw decompresses and hashes once more.
Materialize ==
    /\ At("check_raw")
    /\ \/ Verified /\ BenchStep(bench, "attach")
       \/ BenchStep(Fault(bench), "detach")

\* The partitions the kernel shows on the loop device must be the captured
\* table's, read-only and not mounted.
LoopPartitionsAgree(shown) == shown = Partitions

\* losetup and lsblk.
Attach ==
    /\ At("attach")
    /\ \E attached \in BOOLEAN, answered \in BOOLEAN, shown \in SUBSET Partitions :
          LET done == [bench EXCEPT !.loop = attached, !.known = attached /\ answered]
          IN IF attached /\ answered /\ LoopPartitionsAgree(shown)
             THEN BenchStep(done, "partitions")
             ELSE BenchStep(Fault(done), "detach")

\* fsck of one partition without repair, its read-only mount and the look
\* at it; a mount this code knows of is undone when the look fails.
CheckFilesystem ==
    /\ At("partitions") /\ bench.mounts = {}
    /\ \E p \in Partitions \ bench.checked :
          \/ BenchStep([bench EXCEPT !.mounts = {p}, !.checked = @ \cup {p}], "partitions")
          \/ \E left \in SUBSET {p} :
                BenchStep([Fault(bench) EXCEPT !.mounts = left], "detach")

Unmount ==
    /\ At("partitions") /\ bench.mounts # {}
    /\ \/ BenchStep([bench EXCEPT !.mounts = {}], "partitions")
       \/ BenchStep(Fault(bench), "detach")

AllChecked ==
    /\ At("partitions") /\ bench.mounts = {} /\ bench.checked = Partitions
    /\ BenchStep(bench, "detach")

\* A variant that forgets a failed detach.
DetachQuietly ==
    /\ At("detach")
    /\ \/ bench.known /\ BenchStep([bench EXCEPT !.loop = bench.mounts # {}, !.known = FALSE], "remove")
       \/ BenchStep(bench, "remove")

\* losetup --detach: the loop goes away once nothing is mounted from it;
\* while something is, the kernel may refuse, or accept and wait.
Detach ==
    /\ At("detach")
    /\ \/ bench.known /\ BenchStep([bench EXCEPT !.loop = bench.mounts # {}, !.known = FALSE], "remove")
       \/ bench.known /\ BenchStep(Fault(bench), "remove")
       \/ ~bench.known /\ BenchStep(bench, "remove")

\* rmtree, when the loop is detached; it cannot empty a read-only mount.
RemoveBench ==
    /\ At("remove")
    /\ LET removed == ~bench.known /\ bench.mounts = {}
       IN /\ bench' = [bench EXCEPT !.temp = ~removed]
          /\ End(IF bench.error \/ (~bench.known /\ ~removed) THEN "failed" ELSE "checked")
    /\ UNCHANGED <<agentVars, deviceVars, fileVars, damages, commands>>

(***************************************************************************)
(* The surroundings.                                                       *)
(***************************************************************************)
laptopSide == <<fileVars, op, bench, outcome, damages, commands>>

\* The stick boots in machine m, where some gates may fail.
BootStick(m, wrong) ==
    /\ ~up /\ Len(boots) < MaxBoots
    /\ up' = TRUE /\ boots' = Append(boots, m) /\ faults' = wrong
    /\ UNCHANGED <<history, scratch, deviceVars, laptopSide>>

PowerLoss ==
    /\ up /\ up' = FALSE /\ faults' = {}
    /\ UNCHANGED <<boots, history, scratch, deviceVars, laptopSide>>

\* Someone mounts a partition of the target on the recovery system, which
\* blocks every later inspection, and unmounts it.
Mount ==
    /\ up /\ MountGate /\ faults' = faults \cup {"mounted"}
    /\ UNCHANGED <<up, boots, history, scratch, deviceVars, laptopSide>>
Umount ==
    /\ up /\ ~MountGate /\ faults' = faults \ {"mounted"}
    /\ UNCHANGED <<up, boots, history, scratch, deviceVars, laptopSide>>

\* The eMMC of m changes: m runs from it, or it is mounted for writing.
OutsideWrite(m, i) ==
    /\ version < MaxVersions
    /\ up /\ Machine = m => ~MountGate
    /\ version' = version + 1
    /\ LET content == [emmc[m] EXCEPT ![i] = <<m, version + 1>>]
       IN /\ emmc' = [emmc EXCEPT ![m] = content]
          /\ past' = [past EXCEPT ![m] = @ \cup {content}]
          /\ held' = IF boots # <<>> /\ Machine = m THEN held \cup {content} ELSE held
    /\ UNCHANGED <<agentVars, laptopSide>>

\* The image on the laptop's disk goes bad, or another valid image takes
\* its name.
DamageImage ==
    /\ damages < MaxDamages /\ damages' = damages + 1
    /\ \/ /\ image # NoFile
          /\ \/ image' = [image EXCEPT !.intact = FALSE]
             \/ \E m \in Machines : \E raw \in past[m] : image' = [raw |-> raw, intact |-> TRUE]
          /\ UNCHANGED partial
       \/ /\ partial # NoFile /\ partial' = [partial EXCEPT !.intact = FALSE]
          /\ UNCHANGED image
    /\ UNCHANGED <<agentVars, deviceVars, draft, manifest, op, bench, outcome, commands>>

\* The laptop command is killed: every file stays as it is.
Kill ==
    /\ ~At("idle")
    /\ End("killed")
    /\ UNCHANGED <<agentVars, deviceVars, fileVars, bench, damages, commands>>

\* The operator inspects and removes what an ended command left: partial
\* files, an image without a manifest, the check's mounts and directory.
CleanUp ==
    /\ At("idle")
    /\ partial' = NoFile /\ draft' = FALSE
    /\ image' = IF manifest = NoFile THEN NoFile ELSE image
    /\ bench' = ClearBench
    /\ <<partial, draft, image, bench>>' # <<partial, draft, image, bench>>
    /\ UNCHANGED <<agentVars, deviceVars, manifest, op, outcome, damages, commands>>

RecordStep == BeginRecord \/ RecordCreate \/ RecordReplace
CaptureStep ==
    \/ BeginCapture \/ CaptureInspect \/ StreamStart \/ StreamBlock
    \/ CaptureHashStart \/ HashBlock \/ HashLost \/ CaptureHashed \/ ZstdTest \/ RenameImage
    \/ DraftManifest \/ WriteManifest
WriteStep ==
    \/ \E m \in Machines : BeginWrite(m)
    \/ WriteInspect \/ WriteStart \/ WriteBlock \/ WriteEnds
    \/ WriteHashStart \/ WriteHashed
CheckStep ==
    \/ BeginCheck \/ Materialize \/ Attach \/ CheckFilesystem \/ Unmount
    \/ AllChecked \/ Detach \/ RemoveBench

Surroundings ==
    \/ \E m \in Machines, wrong \in {{}, {"board"}, {"target"}} : BootStick(m, wrong)
    \/ PowerLoss \/ Mount \/ Umount
    \/ \E m \in Machines : \E i \in 1..Size[m] : OutsideWrite(m, i)
    \/ DamageImage \/ Kill \/ CleanUp

Next == RecordStep \/ CaptureStep \/ WriteStep \/ CheckStep \/ Surroundings

Spec == Init /\ [][Next]_vars

----------------------------------------------------------------------------
(***************************************************************************)
(* Properties.                                                             *)
(***************************************************************************)
\* The three boots an inspection counts (t300-recovery-agent.py:509) are
\* three different boots of the stick in the machine the history names,
\* whatever is recorded twice, cut off by a power loss or tried after the
\* stick was moved.
HistoryIsHonest ==
    history # NoFile =>
        /\ IsInjective(history.boots)
        /\ \A b \in Range(history.boots) : boots[b] = history.machine

\* A manifest describes bytes that the eMMC of the machine it names really
\* held, all at one time: not a mixture of two states read while something
\* wrote the device, and not the bytes of the printer the stick was moved
\* to between the inspection and the stream (imaging.py:375).  And it is
\* never there without its image: killed anywhere, a capture leaves at worst
\* an image without a manifest, which no command accepts.
ManifestIsTheMachine ==
    manifest # NoFile =>
        /\ manifest.raw \in past[manifest.machine]
        /\ damages = 0 => image = manifest.file

\* When a restore reports success the eMMC of the machine the image was
\* captured from has held the captured bytes since the last block was
\* written, although the image file may have been replaced after it was
\* verified, and the printer restarted or moved between the write and the
\* second pass (imaging.py:1046).
RestoredIsTheCapture ==
    [][outcome' = "restored" /\ outcome # "restored" =>
        manifest.machine = Machine /\ manifest.raw \in held]_vars

\* A filesystem check that passes has looked at every partition and has
\* left no mount, no loop device and no raw copy behind.
CheckedLeavesNothing ==
    [][outcome' = "checked" /\ outcome # "checked" =>
        /\ bench.checked = Partitions
        /\ bench' = [ClearBench EXCEPT !.checked = Partitions]]_vars

=============================================================================
