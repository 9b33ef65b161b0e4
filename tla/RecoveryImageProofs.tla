------------------------ MODULE RecoveryImageProofs ------------------------
(***************************************************************************)
(* Proofs about capturing and restoring an eMMC, for any number of         *)
(* printers, boots, outside writes and laptop commands, and eMMCs of any   *)
(* size.                                                                   *)
(***************************************************************************)
EXTENDS RecoveryImage, SequenceTheorems, TLAPS

(* Where a laptop command can stand.                                       *)
Capturing == {"stream_start", "stream", "hash_start", "hash", "test", "rename",
              "manifest", "manifest_replace"}
Restoring == {"write_start", "write_device", "check_start", "check"}
Checking == {"check_raw", "attach", "partitions", "detach", "remove"}
Reading == {"stream", "hash", "write_device", "check"}
Points == {"idle", "record", "record_replace", "capture", "write"}
             \cup Capturing \cup Restoring \cup Checking

(* Contents: no block has a version that was not written yet.              *)
Blocks == Machines \X (0..version)
Content(m) == [1..Size[m] -> Blocks]
File == [raw : Seq(Blocks), intact : BOOLEAN]

AgentTypes ==
    /\ up \in BOOLEAN /\ boots \in Seq(Machines) /\ scratch \in BOOLEAN
    /\ history \in {NoFile} \cup [machine : Machines, boots : Seq(Nat)]
    /\ up => boots # <<>>

DeviceTypes ==
    /\ version \in Nat
    /\ emmc \in [Machines -> Seq(Blocks)] /\ past \in [Machines -> SUBSET Seq(Blocks)]
    /\ \A m \in Machines : emmc[m] \in past[m] /\ past[m] \subseteq Content(m)

FileTypes ==
    /\ partial \in {NoFile} \cup File /\ image \in {NoFile} \cup File
    /\ manifest \in {NoFile} \cup [machine : Machines, raw : Seq(Blocks), file : {NoFile} \cup File]
    /\ damages \in Nat

(* While a boot is recorded, got is the list of boots.                     *)
Op(Got) ==
    [pc : Points, seen : Machines \cup {NoFile}, typed : Machines \cup {NoFile}, boot : Nat,
     got : Got, again : Seq(Blocks), sent : {NoFile} \cup File]

OpTypes ==
    /\ \/ op.pc # "record_replace" /\ op \in Op(Seq(Blocks))
       \/ op.pc = "record_replace" /\ op \in Op(Seq(Nat))
    /\ op.pc \in Capturing \cup Restoring => op.seen \in Machines

Bench ==
    [temp : BOOLEAN, loop : BOOLEAN, known : BOOLEAN, mounts : SUBSET Partitions,
     checked : SUBSET Partitions, error : BOOLEAN]

BenchTypes == bench \in Bench

TypeOK == AgentTypes /\ DeviceTypes /\ FileTypes /\ OpTypes /\ BenchTypes

(* Boots of one machine, each counted once.                                *)
OneMachine(list, m) ==
    /\ IsInjective(list)
    /\ \A i \in DOMAIN list : list[i] \in DOMAIN boots /\ boots[list[i]] = m

HistoryInv ==
    /\ history # NoFile => OneMachine(history.boots, history.machine)
    /\ op.pc = "record_replace" =>
          op.boot \in DOMAIN boots /\ OneMachine(op.got, boots[op.boot])

(* The machine of the first inspection is the one the history names, and   *)
(* every later agent process of the command runs in it.                    *)
MachineInv ==
    /\ op.pc \in Capturing \cup Restoring => history # NoFile /\ history.machine = op.seen
    /\ op.pc \in Reading => op.boot \in DOMAIN boots /\ boots[op.boot] = op.seen

(* c agrees with raw wherever the device does now, or did when the second  *)
(* pass read it.  An outside write leaves what raw cannot have, so this    *)
(* stays true: raw is c when the second pass gives raw.                    *)
Stands(c, raw) == \A i \in 1..Size[op.seen] : emmc[op.seen][i] = raw[i] => c[i] = raw[i]
ReadOff(c, raw) ==
    \A i \in 1..Size[op.seen] : i <= Len(op.again) /\ op.again[i] = raw[i] => c[i] = raw[i]

CaptureInv ==
    /\ op.pc \in Capturing \cup {"capture"} => manifest = NoFile
    /\ op.pc \in {"stream_start", "stream"} => partial \in File
    /\ op.pc \in {"hash_start", "hash"} => Len(op.got) = Size[op.seen]
    /\ op.pc = "hash_start" => \E c \in past[op.seen] : Stands(c, op.got)
    /\ op.pc = "hash" => \E c \in past[op.seen] : Stands(c, op.got) /\ ReadOff(c, op.got)
    /\ op.pc \in {"test", "rename", "manifest", "manifest_replace"} => op.got \in past[op.seen]
    /\ op.pc = "rename" /\ damages = 0 => op.sent = partial
    /\ op.pc \in {"manifest", "manifest_replace"} /\ damages = 0 => op.sent = image

WriteInv ==
    /\ op.pc \in Restoring \cup {"write"} => manifest # NoFile
    /\ op.pc \in {"write", "write_start"} => op.got = <<>>
    /\ op.pc \in Restoring => manifest.machine = op.seen /\ Len(manifest.raw) = Size[op.seen]
    /\ op.pc = "write_device" => op.sent \in File
    /\ op.pc = "write_device" /\ op.got # <<>> /\ op.boot = Boot => emmc[op.seen] \in held
    /\ op.pc = "check_start" => \E c \in held \cap past[op.seen] : Stands(c, manifest.raw)
    /\ op.pc = "check" => \E c \in held \cap past[op.seen] :
                             Stands(c, manifest.raw) /\ ReadOff(c, manifest.raw)

(* What the check has on the bench, as long as nothing failed.             *)
BenchInv ==
    /\ op.pc \in Checking => bench.temp
    /\ op.pc \in {"check_raw", "attach"} => bench = [ClearBench EXCEPT !.temp = TRUE]
    /\ op.pc = "partitions" => bench.known
    /\ op.pc = "detach" /\ ~bench.error => bench.mounts = {} /\ bench.checked = Partitions /\ bench.known
    /\ op.pc = "remove" /\ ~bench.error =>
          bench.mounts = {} /\ bench.checked = Partitions /\ ~bench.known /\ ~bench.loop

OpInv == HistoryInv /\ MachineInv /\ CaptureInv /\ WriteInv

RecoveryInv == TypeOK /\ OpInv /\ BenchInv /\ ManifestIsTheMachine

USE DEF Capturing, Restoring, Checking, Reading, Points, Bench

-----------------------------------------------------------------------------
(* Contents and lists of boots.                                            *)
LEMMA ContentIsSeq ==
    ASSUME NEW m \in Machines, NEW c \in Content(m)
    PROVE  c \in Seq(Blocks) /\ Len(c) = Size[m]
  BY SizeAssumption DEF Content

LEMMA NewBlock ==
    ASSUME version \in Nat, version' = version + 1, NEW m \in Machines
    PROVE  Blocks \subseteq Blocks' /\ <<m, version + 1>> \in Blocks' /\ <<m, version + 1>> \notin Blocks
  BY DEF Blocks

(* Blocks of one machine's content, one of them replaced.                  *)
LEMMA ReplacedBlock ==
    ASSUME NEW m \in Machines, NEW c \in Content(m), NEW i \in 1..Size[m], NEW b \in Blocks
    PROVE  [c EXCEPT ![i] = b] \in Content(m)
  BY DEF Content

(* A list of boots to which the running one is added, once.                *)
LEMMA RecordedIsHonest ==
    ASSUME NEW m, NEW list \in Seq(Nat), OneMachine(list, m), boots \in Seq(Machines),
           Boot \in DOMAIN boots, boots[Boot] = m,
           NEW longer, longer = IF Contains(list, Boot) THEN list ELSE Append(list, Boot)
    PROVE  longer \in Seq(Nat) /\ OneMachine(longer, m)
<1>1. Boot \in Nat
  BY DEF Boot
<1>2. CASE Contains(list, Boot)
  BY <1>2
<1>3. CASE ~Contains(list, Boot)
  <2>1. /\ longer \in Seq(Nat) /\ Len(longer) = Len(list) + 1
        /\ longer[Len(list) + 1] = Boot /\ \A i \in 1..Len(list) : longer[i] = list[i]
        /\ DOMAIN longer = 1..Len(list) + 1
    BY <1>1, <1>3, AppendProperties
  <2>2. \A i \in 1..Len(list) : list[i] # Boot
    BY <1>3 DEF Contains
  <2>3. IsInjective(longer)
    BY <2>1, <2>2 DEF OneMachine, IsInjective
  <2>4. \A i \in DOMAIN longer : longer[i] \in DOMAIN boots /\ boots[longer[i]] = m
    BY <2>1 DEF OneMachine
  <2> QED
    BY <2>1, <2>3, <2>4 DEF OneMachine
<1> QED
  BY <1>2, <1>3

(* The running boot, when the stick's system is up.                        *)
LEMMA RunningBoot ==
    ASSUME AgentTypes, up
    PROVE  Boot \in DOMAIN boots /\ boots[Boot] = Machine /\ Machine \in Machines /\ Boot \in Nat
  BY DEF AgentTypes, Boot, Machine, Last

(* A safe inspection: the history names the printer the stick is in.       *)
LEMMA SafeMeans ==
    ASSUME AgentTypes, Safe
    PROVE  up /\ history # NoFile /\ history.machine = Machine
  BY DEF Safe, Unblocked, Inspects, Reachable, HistoryLoads, RecordedBoots

-----------------------------------------------------------------------------
LEMMA InitRecovery == Init => RecoveryInv
<1> SUFFICES ASSUME Init PROVE RecoveryInv
  OBVIOUS
<1>1. AgentTypes
  BY EmptySeq DEF Init, AgentTypes
<1>2. \A m \in Machines : emmc[m] \in Content(m)
  BY DEF Init, Content, Blocks
<1>3. DeviceTypes
  BY <1>2, ContentIsSeq DEF Init, DeviceTypes
<1>4. FileTypes /\ BenchTypes
  BY DEF Init, FileTypes, BenchTypes, ClearBench
<1>5. OpTypes
  BY DEF Init, OpTypes, Op, Idle
<1>6. OpInv /\ BenchInv /\ ManifestIsTheMachine
  BY DEF Init, OpInv, HistoryInv, MachineInv, CaptureInv, WriteInv, BenchInv, Idle, ManifestIsTheMachine
<1> QED
  BY <1>1, <1>3, <1>4, <1>5, <1>6 DEF RecoveryInv, TypeOK

-----------------------------------------------------------------------------
(* Steps of the laptop command that change nothing but where it stands.    *)
elsewhere == <<agentVars, deviceVars, fileVars, bench, damages>>

LEMMA TypesStay ==
    ASSUME TypeOK
    PROVE  /\ UNCHANGED agentVars => AgentTypes'
           /\ UNCHANGED deviceVars => DeviceTypes' /\ Blocks' = Blocks
           /\ UNCHANGED <<version, fileVars, damages>> => FileTypes'
           /\ UNCHANGED <<version, op>> => OpTypes'
           /\ UNCHANGED bench => BenchTypes'
<1>1. UNCHANGED agentVars => AgentTypes'
  BY DEF TypeOK, agentVars, AgentTypes
<1>2. UNCHANGED version => Blocks' = Blocks
  BY DEF Blocks
<1>3. UNCHANGED deviceVars => DeviceTypes'
  BY <1>2 DEF TypeOK, deviceVars, DeviceTypes, Content
<1>4. UNCHANGED <<version, fileVars, damages>> => FileTypes'
  BY <1>2 DEF TypeOK, fileVars, FileTypes, File
<1>5. UNCHANGED <<version, op>> => OpTypes'
  BY <1>2 DEF TypeOK, OpTypes, Op, File
<1>6. UNCHANGED bench => BenchTypes'
  BY DEF TypeOK, BenchTypes
<1> QED
  BY <1>1, <1>2, <1>3, <1>4, <1>5, <1>6 DEF deviceVars

LEMMA OpOnly ==
    ASSUME RecoveryInv, UNCHANGED elsewhere,
           op'.pc \notin Checking \cup {"record_replace"},
           OpTypes', MachineInv', CaptureInv', WriteInv'
    PROVE  RecoveryInv'
<1>1. TypeOK'
  BY TypesStay DEF RecoveryInv, TypeOK, elsewhere, deviceVars
<1>2. HistoryInv'
  BY DEF RecoveryInv, OpInv, HistoryInv, OneMachine, elsewhere, agentVars
<1>3. BenchInv'
  BY DEF BenchInv
<1>4. ManifestIsTheMachine'
  BY DEF RecoveryInv, ManifestIsTheMachine, elsewhere, deviceVars, fileVars
<1> QED
  BY <1>1, <1>2, <1>3, <1>4 DEF RecoveryInv, OpInv

(* A command that has ended, or only records a boot, promises nothing.     *)
Fresh(pc) == [Idle EXCEPT !.pc = pc]

LEMMA FreshOp ==
    ASSUME NEW pc \in Points \ {"record_replace"}, op' = Fresh(pc)
    PROVE  op'.pc = pc /\ op'.got = <<>> /\ (pc \notin Capturing \cup Restoring => OpTypes')
<1>1. op' = [pc |-> pc, seen |-> NoFile, typed |-> NoFile, boot |-> 0, got |-> <<>>, again |-> <<>>,
             sent |-> NoFile]
  BY DEF Fresh, Idle
<1>2. op' \in Op(Seq(Blocks))'
  BY <1>1, EmptySeq DEF Op
<1> QED
  BY <1>1, <1>2 DEF OpTypes

LEMMA QuietOp ==
    ASSUME op'.pc \in {"idle", "record"} \cup Checking
    PROVE  MachineInv' /\ CaptureInv' /\ WriteInv' /\ (HistoryInv' <=> (history' # NoFile => OneMachine(history.boots, history.machine)'))
  BY DEF MachineInv, CaptureInv, WriteInv, HistoryInv

LEMMA IdleIsFresh == Idle = Fresh("idle")
  BY DEF Fresh, Idle

LEMMA EndedStep ==
    ASSUME RecoveryInv, UNCHANGED elsewhere, op' = Idle
    PROVE  RecoveryInv'
<1>1. op'.pc = "idle" /\ OpTypes'
  BY IdleIsFresh, FreshOp
<1> QED
  BY <1>1, QuietOp, OpOnly

LEMMA RefuseStep == ASSUME RecoveryInv, Refuse PROVE RecoveryInv'
  BY EndedStep DEF Refuse, End, elsewhere

LEMMA KillStep == ASSUME RecoveryInv, Kill PROVE RecoveryInv'
  BY EndedStep DEF Kill, End, elsewhere

LEMMA BeginRecordStep == ASSUME RecoveryInv, BeginRecord PROVE RecoveryInv'
<1>1. UNCHANGED elsewhere /\ op' = Fresh("record")
  BY DEF BeginRecord, Begin, elsewhere, Fresh
<1>2. op'.pc = "record" /\ OpTypes'
  BY <1>1, FreshOp
<1> QED
  BY <1>1, <1>2, QuietOp, OpOnly

LEMMA BeginCaptureStep == ASSUME RecoveryInv, BeginCapture PROVE RecoveryInv'
<1>1. UNCHANGED elsewhere /\ op' = Fresh("capture") /\ manifest' = NoFile
  BY DEF BeginCapture, Begin, elsewhere, Fresh, fileVars
<1>2. op'.pc = "capture" /\ OpTypes'
  BY <1>1, FreshOp
<1>3. MachineInv' /\ CaptureInv' /\ WriteInv'
  BY <1>1, <1>2 DEF MachineInv, CaptureInv, WriteInv
<1> QED
  BY <1>1, <1>2, <1>3, OpOnly

LEMMA BeginWriteStep ==
    ASSUME RecoveryInv, NEW m \in Machines, BeginWrite(m) PROVE RecoveryInv'
<1>1. UNCHANGED elsewhere /\ op' = [Idle EXCEPT !.pc = "write", !.typed = m] /\ manifest' # NoFile
  BY DEF BeginWrite, elsewhere, fileVars, Verified
<1>2. op' = [pc |-> "write", seen |-> NoFile, typed |-> m, boot |-> 0, got |-> <<>>,
             again |-> <<>>, sent |-> NoFile]
  BY <1>1 DEF Idle
<1>3. OpTypes'
  BY <1>2, EmptySeq DEF OpTypes, Op
<1>4. op'.pc = "write" /\ op'.got = <<>>
  BY <1>2
<1>5. MachineInv' /\ CaptureInv' /\ WriteInv'
  BY <1>1, <1>4 DEF MachineInv, CaptureInv, WriteInv
<1> QED
  BY <1>1, <1>3, <1>4, <1>5, OpOnly

-----------------------------------------------------------------------------
(* Agent processes start and read.                                         *)
LEMMA AgentStarted ==
    ASSUME RecoveryInv, UNCHANGED elsewhere, Safe,
           op.pc \in {"stream_start", "hash_start", "write_start", "check_start"},
           NEW pc \in Reading, NEW again \in Seq(Blocks), NEW sent \in {NoFile} \cup File,
           op' = [op EXCEPT !.pc = pc, !.boot = Boot, !.again = again, !.sent = sent]
    PROVE  /\ OpTypes' /\ MachineInv'
           /\ op'.pc = pc /\ op'.seen = op.seen /\ op'.got = op.got /\ op'.again = again
           /\ op'.sent = sent
<1>1. op \in Op(Seq(Blocks)) /\ op.seen \in Machines
  BY DEF RecoveryInv, TypeOK, OpTypes
<1>2. /\ op'.pc = pc /\ op'.seen = op.seen /\ op'.got = op.got /\ op'.again = again
      /\ op'.sent = sent /\ op'.boot = Boot
  BY <1>1 DEF Op
<1>3. Boot \in DOMAIN boots /\ boots[Boot] = Machine /\ Boot \in Nat
  BY SafeMeans, RunningBoot DEF RecoveryInv, TypeOK
<1>4. op' \in Op(Seq(Blocks))
  BY <1>1, <1>3 DEF Op
<1>5. OpTypes'
  <2>1. Blocks' = Blocks
    BY DEF Blocks, elsewhere, deviceVars
  <2> QED
    BY <1>1, <1>2, <1>4, <2>1 DEF OpTypes, Op, File
<1>6. history # NoFile /\ history.machine = Machine /\ Machine = op.seen
  BY SafeMeans DEF RecoveryInv, TypeOK, OpInv, MachineInv
<1>7. MachineInv'
  BY <1>2, <1>3, <1>6 DEF MachineInv, elsewhere, agentVars
<1> QED
  BY <1>2, <1>5, <1>7

LEMMA StartForm ==
    ASSUME TypeOK, op.pc # "record_replace", NEW pc,
           op' = [op EXCEPT !.pc = pc, !.boot = Boot, !.again = <<>>]
    PROVE  op' = [op EXCEPT !.pc = pc, !.boot = Boot, !.again = <<>>, !.sent = op.sent]
           /\ op.sent \in {NoFile} \cup File
<1>1. op \in Op(Seq(Blocks))
  BY DEF TypeOK, OpTypes
<1> QED
  BY <1>1 DEF Op

LEMMA StreamStartStep == ASSUME RecoveryInv, StreamStart PROVE RecoveryInv'
<1>1. CASE ~Safe
  BY <1>1, RefuseStep DEF StreamStart, StartAgent
<1>2. CASE Safe
  <2>1. /\ op.pc = "stream_start" /\ UNCHANGED elsewhere
        /\ op' = [op EXCEPT !.pc = "stream", !.boot = Boot, !.again = <<>>]
    BY <1>2 DEF StreamStart, StartAgent, At, elsewhere
  <2>2. OpTypes' /\ MachineInv' /\ op'.pc = "stream"
    <3>1. /\ op' = [op EXCEPT !.pc = "stream", !.boot = Boot, !.again = <<>>, !.sent = op.sent]
          /\ op.sent \in {NoFile} \cup File
      BY <2>1, StartForm DEF RecoveryInv
    <3> QED
      BY <1>2, <2>1, <3>1, AgentStarted, EmptySeq
  <2>3. manifest' = NoFile /\ partial' \in File'
    BY <2>1 DEF RecoveryInv, OpInv, CaptureInv, elsewhere, fileVars, deviceVars, File, Blocks
  <2>4. CaptureInv' /\ WriteInv'
    BY <2>2, <2>3 DEF CaptureInv, WriteInv
  <2> QED
    BY <2>1, <2>2, <2>4, OpOnly
<1> QED
  BY <1>1, <1>2

LEMMA CaptureHashStartStep == ASSUME RecoveryInv, CaptureHashStart PROVE RecoveryInv'
<1>1. CASE ~Safe
  BY <1>1, RefuseStep DEF CaptureHashStart, StartAgent
<1>2. CASE Safe
  <2>1. /\ op.pc = "hash_start" /\ UNCHANGED elsewhere
        /\ op' = [op EXCEPT !.pc = "hash", !.boot = Boot, !.again = <<>>]
    BY <1>2 DEF CaptureHashStart, StartAgent, At, elsewhere
  <2>2. /\ OpTypes' /\ MachineInv' /\ op'.pc = "hash" /\ op'.seen = op.seen
        /\ op'.got = op.got /\ op'.again = <<>>
    <3>1. /\ op' = [op EXCEPT !.pc = "hash", !.boot = Boot, !.again = <<>>, !.sent = op.sent]
          /\ op.sent \in {NoFile} \cup File
      BY <2>1, StartForm DEF RecoveryInv
    <3> QED
      BY <1>2, <2>1, <3>1, AgentStarted, EmptySeq
  <2>3. PICK c \in past[op.seen] : Stands(c, op.got)
    BY <2>1 DEF RecoveryInv, OpInv, CaptureInv
  <2>4. Stands(c, op.got)' /\ ReadOff(c, op.got)'
    BY <2>1, <2>2, <2>3 DEF Stands, ReadOff, elsewhere, deviceVars
  <2>5. manifest' = NoFile /\ Len(op'.got) = Size[op'.seen] /\ c \in past'[op'.seen]
    BY <2>1, <2>2, <2>3 DEF RecoveryInv, OpInv, CaptureInv, elsewhere, fileVars, deviceVars
  <2>6. CaptureInv' /\ WriteInv'
    BY <2>2, <2>4, <2>5 DEF CaptureInv, WriteInv
  <2> QED
    BY <2>1, <2>2, <2>6, OpOnly
<1> QED
  BY <1>1, <1>2

LEMMA WriteHashStartStep == ASSUME RecoveryInv, WriteHashStart PROVE RecoveryInv'
<1>1. CASE ~Safe
  BY <1>1, RefuseStep DEF WriteHashStart, StartAgent
<1>2. CASE Safe
  <2>1. /\ op.pc = "check_start" /\ UNCHANGED elsewhere
        /\ op' = [op EXCEPT !.pc = "check", !.boot = Boot, !.again = <<>>]
    BY <1>2 DEF WriteHashStart, StartAgent, At, elsewhere
  <2>2. /\ OpTypes' /\ MachineInv' /\ op'.pc = "check" /\ op'.seen = op.seen
        /\ op'.got = op.got /\ op'.again = <<>>
    <3>1. /\ op' = [op EXCEPT !.pc = "check", !.boot = Boot, !.again = <<>>, !.sent = op.sent]
          /\ op.sent \in {NoFile} \cup File
      BY <2>1, StartForm DEF RecoveryInv
    <3> QED
      BY <1>2, <2>1, <3>1, AgentStarted, EmptySeq
  <2>3. PICK c \in held \cap past[op.seen] : Stands(c, manifest.raw)
    BY <2>1 DEF RecoveryInv, OpInv, WriteInv
  <2>4. Stands(c, manifest.raw)' /\ ReadOff(c, manifest.raw)'
    BY <2>1, <2>2, <2>3 DEF Stands, ReadOff, elsewhere, deviceVars, fileVars
  <2>5. /\ manifest' # NoFile /\ manifest'.machine = op'.seen /\ Len(manifest'.raw) = Size[op'.seen]
        /\ c \in held' \cap past'[op'.seen]
    BY <2>1, <2>2, <2>3 DEF RecoveryInv, OpInv, WriteInv, elsewhere, fileVars, deviceVars
  <2>6. CaptureInv' /\ WriteInv'
    BY <2>2, <2>4, <2>5 DEF CaptureInv, WriteInv
  <2> QED
    BY <2>1, <2>2, <2>6, OpOnly
<1> QED
  BY <1>1, <1>2

LEMMA WriteStartStep == ASSUME RecoveryInv, WriteStart PROVE RecoveryInv'
<1>1. CASE ~(Safe /\ Confirmed /\ image # NoFile)
  BY <1>1, RefuseStep DEF WriteStart
<1>2. CASE Safe /\ Confirmed /\ image # NoFile
  <2>1. /\ op.pc = "write_start" /\ UNCHANGED elsewhere
        /\ op' = [op EXCEPT !.pc = "write_device", !.boot = Boot, !.sent = image]
    BY <1>2 DEF WriteStart, At, elsewhere
  <2>2. op \in Op(Seq(Blocks)) /\ image \in {NoFile} \cup File
    BY <2>1 DEF RecoveryInv, TypeOK, OpTypes, FileTypes
  <2>3. op' = [op EXCEPT !.pc = "write_device", !.boot = Boot, !.again = op.again, !.sent = image]
        /\ op.again \in Seq(Blocks)
    BY <2>1, <2>2 DEF Op
  <2>4. /\ OpTypes' /\ MachineInv' /\ op'.pc = "write_device" /\ op'.seen = op.seen
        /\ op'.got = op.got /\ op'.sent = image
    BY <1>2, <2>1, <2>2, <2>3, AgentStarted
  <2>5. op'.sent \in File'
    BY <1>2, <2>1, <2>2, <2>4 DEF File, Blocks, elsewhere, deviceVars
  <2>6. /\ manifest' # NoFile /\ manifest'.machine = op'.seen /\ Len(manifest'.raw) = Size[op'.seen]
        /\ op'.got = <<>>
    BY <2>1, <2>4 DEF RecoveryInv, OpInv, WriteInv, elsewhere, fileVars
  <2>7. CaptureInv' /\ WriteInv'
    BY <2>4, <2>5, <2>6 DEF CaptureInv, WriteInv
  <2> QED
    BY <2>1, <2>4, <2>7, OpOnly
<1> QED
  BY <1>1, <1>2

(* An agent process that lives reads the printer of the first inspection.  *)
LEMMA Alive ==
    ASSUME RecoveryInv, AgentLives, op.pc \in Reading
    PROVE  Machine = op.seen /\ op.seen \in Machines /\ op \in Op(Seq(Blocks))
  BY RunningBoot DEF RecoveryInv, TypeOK, AgentLives, OpInv, MachineInv, OpTypes

LEMMA ReadsNext ==
    ASSUME RecoveryInv, AgentLives, op.pc \in Reading,
           NEW read \in Seq(Blocks), Len(read) < Size[Machine]
    PROVE  /\ NextBlock(read) \in Seq(Blocks) /\ Len(NextBlock(read)) = Len(read) + 1
           /\ \A i \in 1..Len(read) : NextBlock(read)[i] = read[i]
           /\ NextBlock(read)[Len(read) + 1] = emmc[op.seen][Len(read) + 1]
<1>1. Machine = op.seen /\ op.seen \in Machines
  BY Alive
<1>2. emmc[Machine] \in Content(Machine) /\ Size[Machine] \in Nat
  BY <1>1, SizeAssumption DEF RecoveryInv, TypeOK, DeviceTypes
<1>3. emmc[Machine][Len(read) + 1] \in Blocks
  BY <1>2 DEF Content
<1> QED
  BY <1>1, <1>3, AppendProperties DEF NextBlock

LEMMA HashBlockStep == ASSUME RecoveryInv, HashBlock PROVE RecoveryInv'
<1>1. /\ op.pc \in {"hash", "check"} /\ AgentLives /\ Len(op.again) < Size[Machine]
      /\ op' = [op EXCEPT !.again = NextBlock(@)] /\ UNCHANGED elsewhere
  BY DEF HashBlock, elsewhere
<1>2. op \in Op(Seq(Blocks)) /\ op.again \in Seq(Blocks) /\ op.seen \in Machines
  BY <1>1, Alive DEF Op
<1> DEFINE next == NextBlock(op.again)
<1>3. /\ next \in Seq(Blocks) /\ Len(next) = Len(op.again) + 1
      /\ \A i \in 1..Len(op.again) : next[i] = op.again[i]
      /\ next[Len(op.again) + 1] = emmc[op.seen][Len(op.again) + 1]
  BY <1>1, <1>2, ReadsNext
<1>4. op' = [op EXCEPT !.again = next]
  BY <1>1, <1>2 DEF Op
<1> HIDE DEF next
<1>5. /\ op'.pc = op.pc /\ op'.seen = op.seen /\ op'.boot = op.boot /\ op'.got = op.got
      /\ op'.again = next
  BY <1>2, <1>4 DEF Op
<1>6. OpTypes'
  <2>1. Blocks' = Blocks
    BY <1>1 DEF Blocks, elsewhere, deviceVars
  <2> QED
    BY <1>1, <1>2, <1>3, <1>4, <1>5, <2>1 DEF OpTypes, Op, File
<1>7. MachineInv'
  BY <1>1, <1>5 DEF RecoveryInv, OpInv, MachineInv, elsewhere, agentVars
<1>8. ASSUME NEW c, NEW raw, Stands(c, raw), ReadOff(c, raw)
      PROVE  \A i \in 1..Size[op.seen] : i <= Len(next) /\ next[i] = raw[i] => c[i] = raw[i]
  <2>1. Size[op.seen] \in Nat /\ Len(op.again) \in Nat
    BY <1>2, SizeAssumption
  <2> SUFFICES ASSUME NEW i \in 1..Size[op.seen], i <= Len(next), next[i] = raw[i]
               PROVE  c[i] = raw[i]
    OBVIOUS
  <2>2. CASE i <= Len(op.again)
    BY <1>3, <1>8, <2>1, <2>2 DEF ReadOff
  <2>3. CASE i = Len(op.again) + 1
    BY <1>3, <1>8, <2>3 DEF Stands
  <2> QED
    BY <1>3, <2>1, <2>2, <2>3
<1>9. CASE op.pc = "hash"
  <2>1. PICK c \in past[op.seen] : Stands(c, op.got) /\ ReadOff(c, op.got)
    BY <1>9 DEF RecoveryInv, OpInv, CaptureInv
  <2>2. Stands(c, op.got)' /\ ReadOff(c, op.got)'
    <3>1. \A i \in 1..Size[op.seen] : i <= Len(next) /\ next[i] = op.got[i] => c[i] = op.got[i]
      BY <1>8, <2>1
    <3> QED
      BY <1>1, <1>5, <2>1, <3>1 DEF Stands, ReadOff, elsewhere, deviceVars
  <2>3. manifest' = NoFile /\ Len(op'.got) = Size[op'.seen] /\ c \in past'[op'.seen] /\ op'.pc = "hash"
    BY <1>1, <1>5, <1>9, <2>1 DEF RecoveryInv, OpInv, CaptureInv, elsewhere, fileVars, deviceVars
  <2>4. CaptureInv' /\ WriteInv'
    BY <2>2, <2>3 DEF CaptureInv, WriteInv
  <2> QED
    BY <1>1, <1>6, <1>7, <2>3, <2>4, OpOnly
<1>10. CASE op.pc = "check"
  <2>1. PICK c \in held \cap past[op.seen] : Stands(c, manifest.raw) /\ ReadOff(c, manifest.raw)
    BY <1>10 DEF RecoveryInv, OpInv, WriteInv
  <2>2. Stands(c, manifest.raw)' /\ ReadOff(c, manifest.raw)'
    <3>1. \A i \in 1..Size[op.seen] : i <= Len(next) /\ next[i] = manifest.raw[i] => c[i] = manifest.raw[i]
      BY <1>8, <2>1
    <3> QED
      BY <1>1, <1>5, <2>1, <3>1 DEF Stands, ReadOff, elsewhere, deviceVars, fileVars
  <2>3. /\ manifest' # NoFile /\ manifest'.machine = op'.seen /\ Len(manifest'.raw) = Size[op'.seen]
        /\ c \in held' \cap past'[op'.seen] /\ op'.pc = "check"
    BY <1>1, <1>5, <1>10, <2>1 DEF RecoveryInv, OpInv, WriteInv, elsewhere, fileVars, deviceVars
  <2>4. CaptureInv' /\ WriteInv'
    BY <2>2, <2>3 DEF CaptureInv, WriteInv
  <2> QED
    BY <1>1, <1>6, <1>7, <2>3, <2>4, OpOnly
<1> QED
  BY <1>1, <1>9, <1>10

(* The second pass is complete and gives raw: raw is a content that stood. *)
LEMMA PassIsContent ==
    ASSUME TypeOK, op.seen \in Machines, NEW c \in past[op.seen], NEW raw \in Seq(Blocks),
           ReadOff(c, raw), op.again = raw, Len(raw) = Size[op.seen]
    PROVE  c = raw
<1>1. c \in Seq(Blocks) /\ Len(c) = Size[op.seen]
  BY ContentIsSeq DEF TypeOK, DeviceTypes
<1>2. Size[op.seen] \in Nat
  BY SizeAssumption
<1>3. \A i \in 1..Size[op.seen] : c[i] = raw[i]
  BY <1>2 DEF ReadOff
<1> QED
  BY <1>1, <1>3, SeqEqual

LEMMA CaptureHashedStep == ASSUME RecoveryInv, CaptureHashed PROVE RecoveryInv'
<1>1. CASE ~SecondPassAgrees
  BY <1>1, RefuseStep DEF CaptureHashed
<1>2. CASE SecondPassAgrees
  <2>1. /\ op.pc = "hash" /\ op.again = op.got /\ UNCHANGED elsewhere
        /\ op' = [op EXCEPT !.pc = "test", !.again = <<>>]
    BY <1>2 DEF CaptureHashed, Hashed, At, elsewhere, SecondPassAgrees
  <2>2. op \in Op(Seq(Blocks)) /\ op.seen \in Machines /\ op.got \in Seq(Blocks)
    BY <2>1 DEF RecoveryInv, TypeOK, OpTypes, Op
  <2>3. PICK c \in past[op.seen] : ReadOff(c, op.got)
    BY <2>1 DEF RecoveryInv, OpInv, CaptureInv
  <2>4. Len(op.got) = Size[op.seen]
    BY <2>1 DEF RecoveryInv, OpInv, CaptureInv
  <2>5. op.got \in past[op.seen]
    BY <2>1, <2>2, <2>3, <2>4, PassIsContent DEF RecoveryInv
  <2>6. /\ op'.pc = "test" /\ op'.seen = op.seen /\ op'.got = op.got
    BY <2>1, <2>2 DEF Op
  <2>7. OpTypes'
    <3>1. Blocks' = Blocks
      BY <2>1 DEF Blocks, elsewhere, deviceVars
    <3> QED
      BY <2>1, <2>2, <3>1, EmptySeq DEF OpTypes, Op, File
  <2>8. MachineInv'
    BY <2>1, <2>6 DEF RecoveryInv, OpInv, MachineInv, elsewhere, agentVars
  <2>9. manifest' = NoFile /\ op'.got \in past'[op'.seen]
    BY <2>1, <2>5, <2>6 DEF RecoveryInv, OpInv, CaptureInv, elsewhere, fileVars, deviceVars
  <2>10. CaptureInv' /\ WriteInv'
    BY <2>6, <2>9 DEF CaptureInv, WriteInv
  <2> QED
    BY <2>1, <2>6, <2>7, <2>8, <2>10, OpOnly
<1> QED
  BY <1>1, <1>2

-----------------------------------------------------------------------------
(* The rest of a capture.                                                  *)
LEMMA HashLostStep == ASSUME RecoveryInv, HashLost PROVE RecoveryInv'
  BY RefuseStep DEF HashLost

LEMMA CaptureInspectStep == ASSUME RecoveryInv, CaptureInspect PROVE RecoveryInv'
<1>1. CASE ~(check_inspection /\ partial = NoFile)
  BY <1>1, RefuseStep DEF CaptureInspect
<1>2. CASE check_inspection /\ partial = NoFile
  <2>1. /\ op.pc = "capture" /\ Safe
        /\ op' = [op EXCEPT !.pc = "stream_start", !.seen = Machine]
        /\ partial' = [raw |-> <<>>, intact |-> TRUE]
        /\ UNCHANGED <<agentVars, deviceVars, image, manifest, bench, damages>>
    BY <1>2 DEF CaptureInspect, At, check_inspection
  <2>2. op \in Op(Seq(Blocks)) /\ Blocks' = Blocks
    BY <2>1 DEF RecoveryInv, TypeOK, OpTypes, Blocks, deviceVars
  <2>3. history # NoFile /\ history.machine = Machine /\ Machine \in Machines
    BY <2>1, SafeMeans, RunningBoot DEF RecoveryInv, TypeOK
  <2>4. op'.pc = "stream_start" /\ op'.seen = Machine
    BY <2>1, <2>2 DEF Op
  <2>5. OpTypes'
    BY <2>1, <2>2, <2>3 DEF OpTypes, Op, File
  <2>6. partial' \in File'
    BY <2>1, <2>2, EmptySeq DEF File
  <2>7. FileTypes'
    BY <2>1, <2>2, <2>6 DEF RecoveryInv, TypeOK, FileTypes, File
  <2>8. TypeOK'
    BY <2>1, <2>5, <2>7, TypesStay DEF RecoveryInv, TypeOK
  <2>9. MachineInv' /\ HistoryInv'
    BY <2>1, <2>3, <2>4 DEF RecoveryInv, OpInv, MachineInv, HistoryInv, OneMachine, agentVars
  <2>10. manifest' = NoFile
    BY <2>1 DEF RecoveryInv, OpInv, CaptureInv
  <2>11. CaptureInv' /\ WriteInv' /\ BenchInv' /\ ManifestIsTheMachine'
    BY <2>4, <2>6, <2>10 DEF CaptureInv, WriteInv, BenchInv, ManifestIsTheMachine
  <2> QED
    BY <2>8, <2>9, <2>11 DEF RecoveryInv, OpInv
<1> QED
  BY <1>1, <1>2

LEMMA StreamBlockStep == ASSUME RecoveryInv, StreamBlock PROVE RecoveryInv'
<1>1. op.pc = "stream"
  BY DEF StreamBlock, At
<1>2. CASE Refuse
  BY <1>2, RefuseStep
<1>3. CASE /\ AgentLives /\ Len(op.got) < Size[Machine]
           /\ op' = [op EXCEPT !.got = NextBlock(@)]
           /\ partial' = [partial EXCEPT !.raw = op'.got]
           /\ UNCHANGED <<agentVars, deviceVars, image, manifest, bench, damages>>
  <2>1. op \in Op(Seq(Blocks)) /\ Blocks' = Blocks /\ op.got \in Seq(Blocks)
    BY <1>1, <1>3 DEF RecoveryInv, TypeOK, OpTypes, Op, Blocks, deviceVars
  <2>2. NextBlock(op.got) \in Seq(Blocks)
    BY <1>1, <1>3, <2>1, ReadsNext
  <2>3. op' = [op EXCEPT !.got = NextBlock(op.got)]
    BY <1>3, <2>1 DEF Op
  <2>4. op'.pc = "stream" /\ op'.seen = op.seen /\ op'.boot = op.boot /\ op'.got \in Seq(Blocks)
    BY <1>1, <2>1, <2>2, <2>3 DEF Op
  <2>5. op.seen \in Machines
    BY <1>1 DEF RecoveryInv, TypeOK, OpTypes
  <2>6. OpTypes'
    BY <1>1, <2>1, <2>2, <2>3, <2>4, <2>5 DEF OpTypes, Op, File
  <2>7. partial \in File /\ manifest' = NoFile
    BY <1>1, <1>3 DEF RecoveryInv, OpInv, CaptureInv
  <2>8. partial' \in File'
    BY <1>3, <2>1, <2>4, <2>7 DEF File
  <2>9. FileTypes'
    BY <1>3, <2>1, <2>8 DEF RecoveryInv, TypeOK, FileTypes, File
  <2>10. TypeOK'
    BY <1>3, <2>6, <2>9, TypesStay DEF RecoveryInv, TypeOK
  <2>11. MachineInv' /\ HistoryInv'
    BY <1>1, <1>3, <2>4 DEF RecoveryInv, OpInv, MachineInv, HistoryInv, OneMachine, agentVars
  <2>12. CaptureInv' /\ WriteInv' /\ BenchInv' /\ ManifestIsTheMachine'
    BY <2>4, <2>7, <2>8 DEF CaptureInv, WriteInv, BenchInv, ManifestIsTheMachine
  <2> QED
    BY <2>10, <2>11, <2>12 DEF RecoveryInv, OpInv
<1>4. CASE /\ AgentLives /\ Len(op.got) = Size[op.seen]
           /\ Go("hash_start") /\ UNCHANGED elsewhere
  <2>1. op \in Op(Seq(Blocks)) /\ op.seen \in Machines
    BY <1>1 DEF RecoveryInv, TypeOK, OpTypes
  <2>2. op' = [op EXCEPT !.pc = "hash_start"]
    BY <1>4 DEF Go
  <2>3. op'.pc = "hash_start" /\ op'.seen = op.seen /\ op'.got = op.got
    BY <2>1, <2>2 DEF Op
  <2>4. OpTypes'
    BY <1>4, <2>1, <2>2 DEF OpTypes, Op, File, Blocks, elsewhere, deviceVars
  <2>5. MachineInv'
    BY <1>1, <1>4, <2>3 DEF RecoveryInv, OpInv, MachineInv, elsewhere, agentVars
  <2>6. emmc[op.seen] \in past[op.seen] /\ Stands(emmc[op.seen], op.got)
    BY <2>1 DEF RecoveryInv, TypeOK, DeviceTypes, Stands
  <2>7. \E c \in past'[op'.seen] : Stands(c, op.got)'
    BY <1>4, <2>3, <2>6 DEF Stands, elsewhere, deviceVars
  <2>8. manifest' = NoFile
    BY <1>1, <1>4 DEF RecoveryInv, OpInv, CaptureInv, elsewhere, fileVars
  <2>9. CaptureInv' /\ WriteInv'
    BY <1>4, <2>3, <2>7, <2>8 DEF CaptureInv, WriteInv
  <2> QED
    BY <1>4, <2>3, <2>4, <2>5, <2>9, OpOnly
<1> QED
  BY <1>1, <1>2, <1>3, <1>4 DEF StreamBlock, elsewhere

LEMMA ZstdTestStep == ASSUME RecoveryInv, ZstdTest PROVE RecoveryInv'
<1>1. CASE ~partial.intact
  BY <1>1, RefuseStep DEF ZstdTest
<1>2. CASE partial.intact
  <2>1. /\ op.pc = "test" /\ UNCHANGED elsewhere
        /\ op' = [op EXCEPT !.pc = "rename", !.sent = partial]
    BY <1>2 DEF ZstdTest, At, elsewhere
  <2>2. op \in Op(Seq(Blocks)) /\ op.seen \in Machines /\ partial \in {NoFile} \cup File
    BY <2>1 DEF RecoveryInv, TypeOK, OpTypes, FileTypes
  <2>3. op'.pc = "rename" /\ op'.seen = op.seen /\ op'.got = op.got /\ op'.sent = partial
    BY <2>1, <2>2 DEF Op
  <2>4. OpTypes'
    BY <2>1, <2>2 DEF OpTypes, Op, File, Blocks, elsewhere, deviceVars
  <2>5. MachineInv'
    BY <2>1, <2>3 DEF RecoveryInv, OpInv, MachineInv, elsewhere, agentVars
  <2>6. manifest' = NoFile /\ op'.got \in past'[op'.seen] /\ op'.sent = partial'
    BY <2>1, <2>3 DEF RecoveryInv, OpInv, CaptureInv, elsewhere, fileVars, deviceVars
  <2>7. CaptureInv' /\ WriteInv'
    BY <2>3, <2>6 DEF CaptureInv, WriteInv
  <2> QED
    BY <2>1, <2>3, <2>4, <2>5, <2>7, OpOnly
<1> QED
  BY <1>1, <1>2

LEMMA RenameImageStep == ASSUME RecoveryInv, RenameImage PROVE RecoveryInv'
<1>1. /\ op.pc = "rename" /\ op' = [op EXCEPT !.pc = "manifest"]
      /\ image' = partial /\ partial' = NoFile
      /\ UNCHANGED <<agentVars, deviceVars, manifest, bench, damages>>
  BY DEF RenameImage, At, Go
<1>2. op \in Op(Seq(Blocks)) /\ op.seen \in Machines /\ Blocks' = Blocks
  BY <1>1 DEF RecoveryInv, TypeOK, OpTypes, Blocks, deviceVars
<1>3. op'.pc = "manifest" /\ op'.seen = op.seen /\ op'.got = op.got /\ op'.sent = op.sent
  BY <1>1, <1>2 DEF Op
<1>4. OpTypes'
  BY <1>1, <1>2 DEF OpTypes, Op, File
<1>5. FileTypes'
  BY <1>1, <1>2 DEF RecoveryInv, TypeOK, FileTypes, File
<1>6. TypeOK'
  BY <1>1, <1>4, <1>5, TypesStay DEF RecoveryInv, TypeOK
<1>7. MachineInv' /\ HistoryInv'
  BY <1>1, <1>3 DEF RecoveryInv, OpInv, MachineInv, HistoryInv, OneMachine, agentVars
<1>8. manifest' = NoFile /\ op'.got \in past'[op'.seen] /\ (damages' = 0 => op'.sent = image')
  BY <1>1, <1>3 DEF RecoveryInv, OpInv, CaptureInv, deviceVars
<1>9. CaptureInv' /\ WriteInv' /\ BenchInv' /\ ManifestIsTheMachine'
  BY <1>3, <1>8 DEF CaptureInv, WriteInv, BenchInv, ManifestIsTheMachine
<1> QED
  BY <1>6, <1>7, <1>9 DEF RecoveryInv, OpInv

LEMMA DraftManifestStep == ASSUME RecoveryInv, DraftManifest PROVE RecoveryInv'
<1>1. CASE draft
  BY <1>1, RefuseStep DEF DraftManifest
<1>2. CASE ~draft
  <2>1. /\ op.pc = "manifest" /\ op' = [op EXCEPT !.pc = "manifest_replace"]
        /\ UNCHANGED <<agentVars, deviceVars, partial, image, manifest, bench, damages>>
    BY <1>2 DEF DraftManifest, At, Go
  <2>2. op \in Op(Seq(Blocks)) /\ op.seen \in Machines /\ Blocks' = Blocks
    BY <2>1 DEF RecoveryInv, TypeOK, OpTypes, Blocks, deviceVars
  <2>3. op'.pc = "manifest_replace" /\ op'.seen = op.seen /\ op'.got = op.got /\ op'.sent = op.sent
    BY <2>1, <2>2 DEF Op
  <2>4. OpTypes'
    BY <2>1, <2>2 DEF OpTypes, Op, File
  <2>5. FileTypes'
    BY <2>1, <2>2 DEF RecoveryInv, TypeOK, FileTypes, File
  <2>6. TypeOK'
    BY <2>1, <2>4, <2>5, TypesStay DEF RecoveryInv, TypeOK
  <2>7. MachineInv' /\ HistoryInv'
    BY <2>1, <2>3 DEF RecoveryInv, OpInv, MachineInv, HistoryInv, OneMachine, agentVars
  <2>8. manifest' = NoFile /\ op'.got \in past'[op'.seen] /\ (damages' = 0 => op'.sent = image')
    BY <2>1, <2>3 DEF RecoveryInv, OpInv, CaptureInv, deviceVars
  <2>9. CaptureInv' /\ WriteInv' /\ BenchInv' /\ ManifestIsTheMachine'
    BY <2>3, <2>8 DEF CaptureInv, WriteInv, BenchInv, ManifestIsTheMachine
  <2> QED
    BY <2>6, <2>7, <2>9 DEF RecoveryInv, OpInv
<1> QED
  BY <1>1, <1>2

LEMMA WriteManifestStep == ASSUME RecoveryInv, WriteManifest PROVE RecoveryInv'
<1>1. /\ op.pc = "manifest_replace" /\ op' = Fresh("idle")
      /\ manifest' = [machine |-> op.seen, raw |-> op.got, file |-> op.sent]
      /\ UNCHANGED <<agentVars, deviceVars, partial, image, bench, damages>>
  BY IdleIsFresh DEF WriteManifest, At, End
<1>2. op \in Op(Seq(Blocks)) /\ op.seen \in Machines /\ Blocks' = Blocks
  BY <1>1 DEF RecoveryInv, TypeOK, OpTypes, Blocks, deviceVars
<1>3. op'.pc = "idle" /\ OpTypes'
  BY <1>1, FreshOp
<1>4. op.got \in Seq(Blocks) /\ op.sent \in {NoFile} \cup File
  BY <1>2 DEF Op
<1>5. FileTypes'
  BY <1>1, <1>2, <1>4 DEF RecoveryInv, TypeOK, FileTypes, File
<1>6. TypeOK'
  BY <1>1, <1>3, <1>5, TypesStay DEF RecoveryInv, TypeOK
<1>7. MachineInv' /\ HistoryInv' /\ CaptureInv' /\ WriteInv' /\ BenchInv'
  BY <1>1, <1>3 DEF RecoveryInv, OpInv, MachineInv, HistoryInv, OneMachine, CaptureInv, WriteInv,
     BenchInv, agentVars
<1>8. op.got \in past[op.seen] /\ (damages = 0 => op.sent = image)
  BY <1>1 DEF RecoveryInv, OpInv, CaptureInv
<1>9. ManifestIsTheMachine'
  BY <1>1, <1>8 DEF ManifestIsTheMachine, deviceVars
<1> QED
  BY <1>6, <1>7, <1>9 DEF RecoveryInv, OpInv

-----------------------------------------------------------------------------
(* A restore.                                                              *)
LEMMA WriteInspectStep == ASSUME RecoveryInv, WriteInspect PROVE RecoveryInv'
<1> DEFINE accepts == /\ check_inspection /\ Machine = manifest.machine
                      /\ Len(manifest.raw) = Size[Machine] /\ op.typed = Machine
<1>1. CASE ~accepts
  BY <1>1, RefuseStep DEF WriteInspect
<1>2. CASE accepts
  <2>1. /\ op.pc = "write" /\ Safe /\ UNCHANGED elsewhere
        /\ op' = [op EXCEPT !.pc = "write_start", !.seen = Machine]
    BY <1>2 DEF WriteInspect, At, elsewhere, check_inspection
  <2>2. op \in Op(Seq(Blocks))
    BY <2>1 DEF RecoveryInv, TypeOK, OpTypes
  <2>3. history # NoFile /\ history.machine = Machine /\ Machine \in Machines
    BY <2>1, SafeMeans, RunningBoot DEF RecoveryInv, TypeOK
  <2>4. op'.pc = "write_start" /\ op'.seen = Machine /\ op'.got = op.got
    BY <2>1, <2>2 DEF Op
  <2>5. OpTypes'
    BY <2>1, <2>2, <2>3 DEF OpTypes, Op, File, Blocks, elsewhere, deviceVars
  <2>6. MachineInv'
    BY <2>1, <2>3, <2>4 DEF MachineInv, elsewhere, agentVars
  <2>7. /\ manifest' # NoFile /\ manifest'.machine = op'.seen /\ Len(manifest'.raw) = Size[op'.seen]
        /\ op'.got = <<>>
    BY <1>2, <2>1, <2>4 DEF RecoveryInv, OpInv, WriteInv, elsewhere, fileVars
  <2>8. CaptureInv' /\ WriteInv'
    BY <2>4, <2>7 DEF CaptureInv, WriteInv
  <2> QED
    BY <2>1, <2>4, <2>5, <2>6, <2>8, OpOnly
<1> QED
  BY <1>1, <1>2

LEMMA WriteBlockStep == ASSUME RecoveryInv, WriteBlock PROVE RecoveryInv'
<1> DEFINE i == Len(op.got) + 1
<1>1. /\ op.pc = "write_device" /\ AgentLives
      /\ Len(op.got) < Size[Machine] /\ Len(op.got) < Len(op.sent.raw)
      /\ UNCHANGED <<agentVars, version, fileVars, bench>>
      /\ op' = [op EXCEPT !.got = Append(@, op.sent.raw[i])]
  BY DEF WriteBlock, At
<1>2. PICK content : \E worn \in {0, 1} :
         /\ content \in {emmc[Machine], [emmc[Machine] EXCEPT ![i] = op.sent.raw[i]]}
         /\ damages' = damages + worn
         /\ emmc' = [emmc EXCEPT ![Machine] = content]
         /\ past' = [past EXCEPT ![Machine] = @ \cup {content}]
         /\ held' = {content}
  BY DEF WriteBlock
<1>3. Machine = op.seen /\ op.seen \in Machines /\ op \in Op(Seq(Blocks)) /\ Blocks' = Blocks
  BY <1>1, Alive DEF Blocks
<1>4. op.got \in Seq(Blocks) /\ op.sent \in File /\ Size[Machine] \in Nat
  BY <1>1, <1>3, SizeAssumption DEF Op, RecoveryInv, OpInv, WriteInv
<1>5. i \in 1..Size[Machine] /\ op.sent.raw[i] \in Blocks
  BY <1>1, <1>4 DEF File
<1> HIDE DEF i
<1>6. content \in Content(Machine) /\ content \in Seq(Blocks)
  BY <1>2, <1>3, <1>5, ReplacedBlock, ContentIsSeq DEF RecoveryInv, TypeOK, DeviceTypes
<1>7. DeviceTypes'
  <2>1. DeviceTypes
    BY DEF RecoveryInv, TypeOK
  <2>2. emmc' \in [Machines -> Seq(Blocks)] /\ past' \in [Machines -> SUBSET Seq(Blocks)]
    BY <1>2, <1>6, <2>1 DEF DeviceTypes
  <2>3. \A m \in Machines : emmc'[m] \in past'[m] /\ past'[m] \subseteq Content(m)
    BY <1>2, <1>6, <2>1 DEF DeviceTypes
  <2>4. \A m : Content(m)' = Content(m)
    BY <1>3 DEF Content
  <2> QED
    BY <1>1, <1>3, <2>1, <2>2, <2>3, <2>4 DEF DeviceTypes
<1>8. op' = [op EXCEPT !.got = Append(op.got, op.sent.raw[i])] /\ Append(op.got, op.sent.raw[i]) \in Seq(Blocks)
  BY <1>1, <1>3, <1>4, <1>5, AppendProperties DEF Op
<1>9. op'.pc = "write_device" /\ op'.seen = op.seen /\ op'.boot = op.boot /\ op'.sent = op.sent
  BY <1>1, <1>3, <1>8 DEF Op
<1>10. OpTypes'
  BY <1>3, <1>8, <1>9 DEF OpTypes, Op, File
<1>11. FileTypes'
  BY <1>1, <1>2, <1>3 DEF RecoveryInv, TypeOK, FileTypes, File, fileVars
<1>12. TypeOK'
  BY <1>1, <1>7, <1>10, <1>11, TypesStay DEF RecoveryInv, TypeOK
<1>13. MachineInv' /\ HistoryInv'
  BY <1>1, <1>9 DEF RecoveryInv, OpInv, MachineInv, HistoryInv, OneMachine, agentVars
<1>14. emmc'[op'.seen] \in held'
  BY <1>2, <1>3, <1>9 DEF RecoveryInv, TypeOK, DeviceTypes
<1>15. /\ manifest' # NoFile /\ manifest'.machine = op'.seen /\ Len(manifest'.raw) = Size[op'.seen]
       /\ op'.sent \in File'
  BY <1>1, <1>3, <1>4, <1>9 DEF RecoveryInv, OpInv, WriteInv, fileVars, File
<1>16. CaptureInv' /\ WriteInv' /\ BenchInv'
  BY <1>9, <1>14, <1>15 DEF CaptureInv, WriteInv, BenchInv
<1>17. ManifestIsTheMachine'
  <2>1. \A m \in Machines : past[m] \subseteq past'[m]
    BY <1>2 DEF RecoveryInv, TypeOK, DeviceTypes
  <2>2. damages' = 0 => damages = 0
    BY <1>2 DEF RecoveryInv, TypeOK, FileTypes
  <2>3. manifest # NoFile => manifest.machine \in Machines
    BY DEF RecoveryInv, TypeOK, FileTypes
  <2> QED
    BY <1>1, <2>1, <2>2, <2>3 DEF RecoveryInv, ManifestIsTheMachine, fileVars
<1> QED
  BY <1>12, <1>13, <1>16, <1>17 DEF RecoveryInv, OpInv

LEMMA WriteEndsStep == ASSUME RecoveryInv, WriteEnds PROVE RecoveryInv'
<1>1. CASE Refuse
  BY <1>1, RefuseStep
<1>2. CASE ~Refuse
  <2>1. /\ op.pc = "write_device" /\ AgentLives /\ Len(op.got) = Size[Machine]
        /\ op' = [op EXCEPT !.pc = "check_start"] /\ UNCHANGED elsewhere
    BY <1>2 DEF WriteEnds, At, Go, elsewhere
  <2>2. Machine = op.seen /\ op.seen \in Machines /\ op \in Op(Seq(Blocks))
    BY <2>1, Alive
  <2>3. op'.pc = "check_start" /\ op'.seen = op.seen
    BY <2>1, <2>2 DEF Op
  <2>4. op.got # <<>>
    BY <2>1, <2>2, SizeAssumption
  <2>5. emmc[op.seen] \in held /\ emmc[op.seen] \in past[op.seen]
    BY <2>1, <2>2, <2>4 DEF RecoveryInv, OpInv, WriteInv, TypeOK, DeviceTypes, AgentLives
  <2>6. \E c \in held' \cap past'[op'.seen] : Stands(c, manifest.raw)'
    BY <2>1, <2>3, <2>5 DEF Stands, elsewhere, deviceVars, fileVars
  <2>7. OpTypes'
    BY <2>1, <2>2 DEF OpTypes, Op, File, Blocks, elsewhere, deviceVars
  <2>8. MachineInv'
    BY <2>1, <2>3 DEF RecoveryInv, OpInv, MachineInv, elsewhere, agentVars
  <2>9. manifest' # NoFile /\ manifest'.machine = op'.seen /\ Len(manifest'.raw) = Size[op'.seen]
    BY <2>1, <2>3 DEF RecoveryInv, OpInv, WriteInv, elsewhere, fileVars
  <2>10. CaptureInv' /\ WriteInv'
    BY <2>3, <2>6, <2>9 DEF CaptureInv, WriteInv
  <2> QED
    BY <2>1, <2>3, <2>7, <2>8, <2>10, OpOnly
<1> QED
  BY <1>1, <1>2

LEMMA WriteHashedStep == ASSUME RecoveryInv, WriteHashed PROVE RecoveryInv'
  BY EndedStep, RefuseStep DEF WriteHashed, End, elsewhere

-----------------------------------------------------------------------------
(* Recording a boot.                                                       *)
LEMMA RecordCreateStep == ASSUME RecoveryInv, RecordCreate PROVE RecoveryInv'
<1>1. CASE ~(Unblocked /\ ~scratch)
  BY <1>1, RefuseStep DEF RecordCreate
<1>2. CASE Unblocked /\ ~scratch
  <2>1. /\ op.pc = "record" /\ scratch' = TRUE
        /\ op' = [op EXCEPT !.pc = "record_replace", !.boot = Boot, !.got = Recorded]
        /\ UNCHANGED <<up, boots, history, deviceVars, fileVars, bench, damages>>
    BY <1>2 DEF RecordCreate, At
  <2>2. op \in Op(Seq(Blocks)) /\ Blocks' = Blocks
    BY <2>1 DEF RecoveryInv, TypeOK, OpTypes, Blocks, deviceVars
  <2>3. AgentTypes /\ HistoryInv
    BY DEF RecoveryInv, TypeOK, OpInv
  <2>4. up /\ (history = NoFile \/ history.machine = Machine)
    BY <1>2 DEF Unblocked, Inspects, Reachable, HistoryLoads
  <2>5. Boot \in DOMAIN boots /\ boots[Boot] = Machine /\ Boot \in Nat
    BY <2>3, <2>4, RunningBoot
  <2>6. RecordedBoots \in Seq(Nat) /\ OneMachine(RecordedBoots, Machine)
    <3>1. CASE history = NoFile
      BY <3>1, EmptySeq DEF RecordedBoots, OneMachine, IsInjective
    <3>2. CASE history # NoFile
      BY <2>3, <2>4, <3>2 DEF RecordedBoots, AgentTypes, HistoryInv
    <3> QED
      BY <3>1, <3>2
  <2>7. Recorded \in Seq(Nat) /\ OneMachine(Recorded, Machine)
    BY <2>3, <2>5, <2>6, RecordedIsHonest DEF Recorded, AgentTypes
  <2>8. op'.pc = "record_replace" /\ op'.boot = Boot /\ op'.got = Recorded /\ op' \in Op(Seq(Nat))
    BY <2>1, <2>2, <2>5, <2>7 DEF Op
  <2>9. OpTypes'
    BY <2>2, <2>8 DEF OpTypes, Op, File
  <2>10. AgentTypes'
    BY <2>1, <2>3 DEF AgentTypes
  <2>11. TypeOK'
    BY <2>1, <2>9, <2>10, TypesStay DEF RecoveryInv, TypeOK, deviceVars
  <2>12. HistoryInv'
    BY <2>1, <2>3, <2>5, <2>7, <2>8 DEF HistoryInv, OneMachine
  <2>13. MachineInv' /\ CaptureInv' /\ WriteInv' /\ BenchInv'
    BY <2>8 DEF MachineInv, CaptureInv, WriteInv, BenchInv
  <2>14. ManifestIsTheMachine'
    BY <2>1 DEF RecoveryInv, ManifestIsTheMachine, fileVars, deviceVars
  <2> QED
    BY <2>11, <2>12, <2>13, <2>14 DEF RecoveryInv, OpInv
<1> QED
  BY <1>1, <1>2

LEMMA RecordReplaceStep == ASSUME RecoveryInv, RecordReplace PROVE RecoveryInv'
<1>1. CASE ~AgentLives
  BY <1>1, RefuseStep DEF RecordReplace
<1>2. CASE AgentLives
  <2>1. /\ op.pc = "record_replace" /\ op' = Fresh("idle")
        /\ history' = [machine |-> Machine, boots |-> op.got] /\ scratch' = FALSE
        /\ UNCHANGED <<up, boots, deviceVars, fileVars, bench, damages>>
    BY <1>2, IdleIsFresh DEF RecordReplace, At, End
  <2>2. AgentTypes /\ HistoryInv /\ op \in Op(Seq(Nat))
    BY <2>1 DEF RecoveryInv, TypeOK, OpInv, OpTypes
  <2>3. Machine \in Machines /\ boots[op.boot] = Machine
    BY <1>2, <2>2, RunningBoot DEF AgentLives
  <2>4. op.got \in Seq(Nat) /\ OneMachine(op.got, Machine)
    BY <2>1, <2>2, <2>3 DEF Op, HistoryInv
  <2>5. op'.pc = "idle" /\ OpTypes'
    BY <2>1, FreshOp
  <2>6. AgentTypes'
    BY <2>1, <2>2, <2>3, <2>4 DEF AgentTypes
  <2>7. TypeOK'
    BY <2>1, <2>5, <2>6, TypesStay DEF RecoveryInv, TypeOK, deviceVars
  <2>8. HistoryInv'
    BY <2>1, <2>4, <2>5 DEF HistoryInv, OneMachine
  <2>9. MachineInv' /\ CaptureInv' /\ WriteInv' /\ BenchInv'
    BY <2>5, QuietOp DEF BenchInv
  <2>10. ManifestIsTheMachine'
    BY <2>1 DEF RecoveryInv, ManifestIsTheMachine, fileVars, deviceVars
  <2> QED
    BY <2>7, <2>8, <2>9, <2>10 DEF RecoveryInv, OpInv
<1> QED
  BY <1>1, <1>2

-----------------------------------------------------------------------------
(* The filesystem check.                                                   *)
beside == <<agentVars, deviceVars, fileVars, damages>>

LEMMA OnTheBench ==
    ASSUME RecoveryInv, UNCHANGED beside, op'.pc \in Checking, OpTypes', BenchTypes', BenchInv'
    PROVE  RecoveryInv'
<1>1. TypeOK'
  BY TypesStay DEF RecoveryInv, TypeOK, beside, deviceVars
<1>2. HistoryInv' /\ ManifestIsTheMachine'
  BY DEF RecoveryInv, OpInv, HistoryInv, OneMachine, ManifestIsTheMachine, beside, agentVars,
     deviceVars, fileVars
<1> QED
  BY <1>1, <1>2, QuietOp DEF RecoveryInv, OpInv

LEMMA BenchStepMeans ==
    ASSUME RecoveryInv, op.pc \in Checking, NEW pc \in Checking, NEW change, BenchStep(change, pc)
    PROVE  UNCHANGED beside /\ bench' = change /\ op'.pc = pc /\ OpTypes'
<1>1. op \in Op(Seq(Blocks)) /\ op' = [op EXCEPT !.pc = pc]
  BY DEF RecoveryInv, TypeOK, OpTypes, BenchStep, Go
<1>2. UNCHANGED beside /\ bench' = change
  BY DEF BenchStep, beside
<1>3. OpTypes' /\ op'.pc = pc
  BY <1>1, <1>2 DEF OpTypes, Op, File, Blocks, beside, deviceVars
<1> QED
  BY <1>2, <1>3

LEMMA BeginCheckStep == ASSUME RecoveryInv, BeginCheck PROVE RecoveryInv'
<1>1. op' = Fresh("check_raw") /\ bench' = [ClearBench EXCEPT !.temp = TRUE] /\ UNCHANGED beside
  BY DEF BeginCheck, Begin, Fresh, beside
<1>2. op'.pc = "check_raw" /\ OpTypes'
  BY <1>1, FreshOp
<1>3. BenchTypes' /\ BenchInv'
  BY <1>1, <1>2 DEF BenchTypes, BenchInv, ClearBench
<1> QED
  BY <1>1, <1>2, <1>3, OnTheBench

LEMMA BenchStepKeeps ==
    ASSUME RecoveryInv, op.pc \in Checking, NEW pc \in Checking, NEW change, BenchStep(change, pc),
           change \in [temp : {TRUE}, loop : BOOLEAN, known : BOOLEAN, mounts : SUBSET Partitions,
                       checked : SUBSET Partitions, error : BOOLEAN],
           pc # "check_raw",
           pc = "attach" => change = [ClearBench EXCEPT !.temp = TRUE],
           pc = "partitions" => change.known,
           pc = "detach" /\ ~change.error =>
               change.mounts = {} /\ change.checked = Partitions /\ change.known,
           pc = "remove" /\ ~change.error =>
               change.mounts = {} /\ change.checked = Partitions /\ ~change.known /\ ~change.loop
    PROVE  RecoveryInv'
<1>1. UNCHANGED beside /\ bench' = change /\ op'.pc = pc /\ OpTypes'
  BY BenchStepMeans
<1>2. BenchTypes' /\ BenchInv'
  BY <1>1 DEF BenchTypes, BenchInv
<1> QED
  BY <1>1, <1>2, OnTheBench

(* What the bench is at a point of the check.                              *)
LEMMA BenchAt ==
    ASSUME RecoveryInv, op.pc \in Checking
    PROVE  bench \in [temp : {TRUE}, loop : BOOLEAN, known : BOOLEAN, mounts : SUBSET Partitions,
                      checked : SUBSET Partitions, error : BOOLEAN]
  BY DEF RecoveryInv, TypeOK, BenchTypes, BenchInv

LEMMA MaterializeStep == ASSUME RecoveryInv, Materialize PROVE RecoveryInv'
<1>1. op.pc = "check_raw" /\ bench = [ClearBench EXCEPT !.temp = TRUE]
  BY DEF Materialize, At, RecoveryInv, BenchInv
<1>2. CASE BenchStep(bench, "attach")
  BY <1>1, <1>2, BenchStepKeeps, BenchAt
<1>3. CASE BenchStep(Fault(bench), "detach")
  BY <1>1, <1>3, BenchStepKeeps, BenchAt DEF Fault
<1> QED
  BY <1>2, <1>3 DEF Materialize

LEMMA AttachStep == ASSUME RecoveryInv, Attach PROVE RecoveryInv'
<1>1. op.pc = "attach"
  BY DEF Attach, At
<1>2. PICK attached \in BOOLEAN, answered \in BOOLEAN :
         LET done == [bench EXCEPT !.loop = attached, !.known = attached /\ answered]
         IN \/ attached /\ answered /\ BenchStep(done, "partitions")
            \/ BenchStep(Fault(done), "detach")
  BY DEF Attach
<1> DEFINE done == [bench EXCEPT !.loop = attached, !.known = attached /\ answered]
<1>3. CASE attached /\ answered /\ BenchStep(done, "partitions")
  BY <1>1, <1>3, BenchStepKeeps, BenchAt
<1>4. CASE BenchStep(Fault(done), "detach")
  BY <1>1, <1>4, BenchStepKeeps, BenchAt DEF Fault
<1> QED
  BY <1>2, <1>3, <1>4

LEMMA PartitionsStep ==
    ASSUME RecoveryInv, CheckFilesystem \/ Unmount \/ AllChecked PROVE RecoveryInv'
<1>1. op.pc = "partitions" /\ bench.known
  BY DEF CheckFilesystem, Unmount, AllChecked, At, RecoveryInv, BenchInv
<1>2. CASE CheckFilesystem
  <2>1. PICK p \in Partitions \ bench.checked :
           \/ BenchStep([bench EXCEPT !.mounts = {p}, !.checked = @ \cup {p}], "partitions")
           \/ \E left \in SUBSET {p} : BenchStep([Fault(bench) EXCEPT !.mounts = left], "detach")
    BY <1>2 DEF CheckFilesystem
  <2>2. CASE BenchStep([bench EXCEPT !.mounts = {p}, !.checked = @ \cup {p}], "partitions")
    BY <1>1, <2>2, BenchStepKeeps, BenchAt
  <2>3. ASSUME NEW left \in SUBSET {p}, BenchStep([Fault(bench) EXCEPT !.mounts = left], "detach")
        PROVE  RecoveryInv'
    BY <1>1, <2>3, BenchStepKeeps, BenchAt DEF Fault
  <2> QED
    BY <2>1, <2>2, <2>3
<1>3. CASE Unmount
  <2>1. CASE BenchStep([bench EXCEPT !.mounts = {}], "partitions")
    BY <1>1, <2>1, BenchStepKeeps, BenchAt
  <2>2. CASE BenchStep(Fault(bench), "detach")
    BY <1>1, <2>2, BenchStepKeeps, BenchAt DEF Fault
  <2> QED
    BY <1>3, <2>1, <2>2 DEF Unmount
<1>4. CASE AllChecked
  BY <1>1, <1>4, BenchStepKeeps, BenchAt DEF AllChecked
<1> QED
  BY <1>2, <1>3, <1>4

LEMMA DetachStep == ASSUME RecoveryInv, Detach PROVE RecoveryInv'
<1>1. /\ op.pc = "detach"
      /\ ~bench.error => bench.mounts = {} /\ bench.checked = Partitions /\ bench.known
  BY DEF Detach, At, RecoveryInv, BenchInv
<1>2. CASE bench.known /\ BenchStep([bench EXCEPT !.loop = bench.mounts # {}, !.known = FALSE], "remove")
  BY <1>1, <1>2, BenchStepKeeps, BenchAt
<1>3. CASE bench.known /\ BenchStep(Fault(bench), "remove")
  BY <1>1, <1>3, BenchStepKeeps, BenchAt DEF Fault
<1>4. CASE ~bench.known /\ BenchStep(bench, "remove")
  BY <1>1, <1>4, BenchStepKeeps, BenchAt
<1> QED
  BY <1>2, <1>3, <1>4 DEF Detach

LEMMA RemoveBenchStep == ASSUME RecoveryInv, RemoveBench PROVE RecoveryInv'
<1>1. /\ op' = Fresh("idle") /\ UNCHANGED <<agentVars, deviceVars, fileVars, damages>>
      /\ \E temp \in BOOLEAN : bench' = [bench EXCEPT !.temp = temp]
  BY IdleIsFresh DEF RemoveBench, End
<1>2. op'.pc = "idle" /\ OpTypes'
  BY <1>1, FreshOp
<1>3. BenchTypes'
  BY <1>1 DEF RecoveryInv, TypeOK, BenchTypes
<1>4. TypeOK'
  BY <1>1, <1>2, <1>3, TypesStay DEF RecoveryInv, TypeOK, deviceVars
<1>5. HistoryInv' /\ ManifestIsTheMachine'
  BY <1>1, <1>2 DEF RecoveryInv, OpInv, HistoryInv, OneMachine, ManifestIsTheMachine, agentVars,
     deviceVars, fileVars
<1> QED
  BY <1>2, <1>4, <1>5, QuietOp DEF RecoveryInv, OpInv, BenchInv

-----------------------------------------------------------------------------
(* The surroundings.                                                       *)
LEMMA BootStickStep ==
    ASSUME RecoveryInv, NEW m \in Machines, NEW wrong, BootStick(m, wrong) PROVE RecoveryInv'
<1>1. /\ up' = TRUE /\ boots' = Append(boots, m)
      /\ UNCHANGED <<history, scratch, deviceVars, fileVars, op, bench, damages>>
  BY DEF BootStick, laptopSide
<1>2. boots \in Seq(Machines)
  BY DEF RecoveryInv, TypeOK, AgentTypes
<1>3. /\ boots' \in Seq(Machines) /\ boots' # <<>> /\ Boot' = Boot + 1 /\ Boot \in Nat
      /\ DOMAIN boots = 1..Boot /\ DOMAIN boots' = 1..(Boot + 1)
      /\ \A b \in 1..Boot : boots'[b] = boots[b]
  BY <1>1, <1>2, AppendProperties DEF Boot
<1>4. AgentTypes'
  BY <1>1, <1>3 DEF RecoveryInv, TypeOK, AgentTypes
<1>5. TypeOK'
  BY <1>1, <1>4, TypesStay DEF RecoveryInv, TypeOK, deviceVars
<1>6. \A list, name : OneMachine(list, name) => OneMachine(list, name)'
  BY <1>3 DEF OneMachine
<1>7. HistoryInv' /\ MachineInv'
  BY <1>1, <1>3, <1>6 DEF RecoveryInv, OpInv, HistoryInv, MachineInv
<1>8. op.pc = "write_device" => op.boot \in 1..Boot
  BY <1>3 DEF RecoveryInv, OpInv, MachineInv
<1>9. CaptureInv'
  BY <1>1, TypesStay DEF RecoveryInv, OpInv, CaptureInv, Stands, ReadOff, File, deviceVars, fileVars
<1>10. WriteInv'
  <2>1. ~(op'.pc = "write_device" /\ op'.boot = Boot')
    BY <1>1, <1>3, <1>8
  <2>2. Blocks' = Blocks
    BY <1>1 DEF Blocks, deviceVars
  <2> QED
    BY <1>1, <2>1, <2>2 DEF RecoveryInv, OpInv, WriteInv, Stands, ReadOff, File, deviceVars, fileVars
<1>11. BenchInv' /\ ManifestIsTheMachine'
  BY <1>1 DEF RecoveryInv, BenchInv, ManifestIsTheMachine, deviceVars, fileVars
<1> QED
  BY <1>5, <1>7, <1>9, <1>10, <1>11 DEF RecoveryInv, OpInv

(* Everything but the running system, its gates and the counters is as it  *)
(* was.                                                                    *)
LEMMA SystemStep ==
    ASSUME RecoveryInv, up' \in BOOLEAN, up' => up,
           UNCHANGED <<boots, history, scratch, deviceVars, fileVars, op, bench, damages>>
    PROVE  RecoveryInv'
<1>1. AgentTypes'
  BY DEF RecoveryInv, TypeOK, AgentTypes
<1>2. TypeOK'
  BY <1>1, TypesStay DEF RecoveryInv, TypeOK, deviceVars
<1>3. HistoryInv' /\ MachineInv'
  BY DEF RecoveryInv, OpInv, HistoryInv, MachineInv, OneMachine
<1>4. Blocks' = Blocks
  BY DEF Blocks, deviceVars
<1>5. CaptureInv'
  BY <1>4 DEF RecoveryInv, OpInv, CaptureInv, Stands, ReadOff, File, deviceVars, fileVars
<1>6. WriteInv'
  BY <1>4 DEF RecoveryInv, OpInv, WriteInv, Stands, ReadOff, File, Boot, deviceVars, fileVars
<1>7. BenchInv' /\ ManifestIsTheMachine'
  BY DEF RecoveryInv, BenchInv, ManifestIsTheMachine, deviceVars, fileVars
<1> QED
  BY <1>2, <1>3, <1>5, <1>6, <1>7 DEF RecoveryInv, OpInv

LEMMA OutsideWriteTypes ==
    ASSUME RecoveryInv, NEW m \in Machines, NEW i \in 1..Size[m], OutsideWrite(m, i)
    PROVE  TypeOK'
<1>1. /\ version' = version + 1 /\ version \in Nat
      /\ UNCHANGED <<agentVars, fileVars, op, bench, damages>>
  BY DEF OutsideWrite, laptopSide, RecoveryInv, TypeOK, DeviceTypes
<1> DEFINE content == [emmc[m] EXCEPT ![i] = <<m, version + 1>>]
<1>2. emmc' = [emmc EXCEPT ![m] = content] /\ past' = [past EXCEPT ![m] = @ \cup {content}]
  BY DEF OutsideWrite
<1>3. Blocks \subseteq Blocks' /\ <<m, version + 1>> \in Blocks'
  BY <1>1, NewBlock
<1>4. Seq(Blocks) \subseteq Seq(Blocks')
  BY <1>3, SeqMonotonic
<1>5. File \subseteq File'
  BY <1>4 DEF File
<1>6. DeviceTypes
  BY DEF RecoveryInv, TypeOK
<1>7. \A k \in Machines : Content(k) \subseteq Content(k)'
  BY <1>3 DEF Content
<1>8. content \in Content(m)'
  BY <1>3, <1>6, <1>7, i \in 1..Size[m] DEF Content, DeviceTypes
<1> HIDE DEF content
<1>9. content \in Seq(Blocks')
  <2>1. Size[m] \in Nat /\ content \in [1..Size[m] -> Blocks']
    BY <1>8, SizeAssumption DEF Content
  <2> QED
    BY <2>1
<1>10. DeviceTypes'
  <2>1. emmc' \in [Machines -> Seq(Blocks')] /\ past' \in [Machines -> SUBSET Seq(Blocks')]
    BY <1>2, <1>4, <1>6, <1>9 DEF DeviceTypes
  <2>2. \A k \in Machines : emmc'[k] \in past'[k] /\ past'[k] \subseteq Content(k)'
    BY <1>2, <1>6, <1>7, <1>8 DEF DeviceTypes
  <2> QED
    BY <1>1, <2>1, <2>2 DEF DeviceTypes
<1>11. FileTypes'
  BY <1>1, <1>4, <1>5 DEF RecoveryInv, TypeOK, FileTypes, fileVars
<1>12. OpTypes'
  BY <1>1, <1>4, <1>5 DEF RecoveryInv, TypeOK, OpTypes, Op
<1> QED
  BY <1>1, <1>10, <1>11, <1>12, TypesStay DEF RecoveryInv, TypeOK

(* An outside write brings nothing that raw has.                           *)
LEMMA StandsStays ==
    ASSUME RecoveryInv, NEW m \in Machines, NEW i \in 1..Size[m], OutsideWrite(m, i),
           op.seen \in Machines, NEW c, NEW raw \in Seq(Blocks), Len(raw) = Size[op.seen],
           Stands(c, raw)
    PROVE  \A k \in 1..Size[op.seen] : emmc'[op.seen][k] = raw[k] => c[k] = raw[k]
<1>1. emmc' = [emmc EXCEPT ![m] = [emmc[m] EXCEPT ![i] = <<m, version + 1>>]]
      /\ version' = version + 1
  BY DEF OutsideWrite
<1>2. emmc \in [Machines -> Seq(Blocks)] /\ version \in Nat /\ emmc[m] \in Content(m)
  BY DEF RecoveryInv, TypeOK, DeviceTypes
<1>3. <<m, version + 1>> \notin Blocks
  BY <1>1, <1>2, NewBlock
<1> SUFFICES ASSUME NEW k \in 1..Size[op.seen], emmc'[op.seen][k] = raw[k] PROVE c[k] = raw[k]
  OBVIOUS
<1>4. raw[k] \in Blocks
  BY SizeAssumption
<1>5. emmc'[op.seen][k] = emmc[op.seen][k]
  BY <1>1, <1>2, <1>3, <1>4 DEF Content
<1> QED
  BY <1>5 DEF Stands

LEMMA OutsideWriteStep ==
    ASSUME RecoveryInv, NEW m \in Machines, NEW i \in 1..Size[m], OutsideWrite(m, i)
    PROVE  RecoveryInv'
<1>1. /\ version' = version + 1 /\ version \in Nat
      /\ UNCHANGED <<agentVars, fileVars, op, bench, damages>>
  BY DEF OutsideWrite, laptopSide, RecoveryInv, TypeOK, DeviceTypes
<1> DEFINE content == [emmc[m] EXCEPT ![i] = <<m, version + 1>>]
<1>2. /\ emmc' = [emmc EXCEPT ![m] = content] /\ past' = [past EXCEPT ![m] = @ \cup {content}]
      /\ held' = IF boots # <<>> /\ Machine = m THEN held \cup {content} ELSE held
  BY DEF OutsideWrite
<1>3. DeviceTypes /\ op.again \in Seq(Blocks)
  BY DEF RecoveryInv, TypeOK, OpTypes, Op
<1>4. File \subseteq File'
  <2>1. Seq(Blocks) \subseteq Seq(Blocks')
    BY <1>1, NewBlock, SeqMonotonic
  <2> QED
    BY <2>1 DEF File
<1>5. TypeOK'
  BY OutsideWriteTypes
<1>6. HistoryInv' /\ MachineInv' /\ BenchInv'
  BY <1>1 DEF RecoveryInv, OpInv, HistoryInv, MachineInv, OneMachine, BenchInv, agentVars
<1> HIDE DEF content
<1>7. held \subseteq held' /\ \A k \in Machines : past[k] \subseteq past'[k]
  BY <1>2, <1>3 DEF DeviceTypes
<1>8. ManifestIsTheMachine'
  <2>1. manifest # NoFile => manifest.machine \in Machines
    BY DEF RecoveryInv, TypeOK, FileTypes
  <2> QED
    BY <1>1, <1>7, <2>1 DEF RecoveryInv, ManifestIsTheMachine, fileVars
<1>9. op.pc \in {"hash_start", "hash"} => op.got \in Seq(Blocks) /\ Len(op.got) = Size[op.seen]
  BY DEF RecoveryInv, TypeOK, OpTypes, Op, OpInv, CaptureInv
<1>10. op.pc \in {"check_start", "check"} =>
           manifest.raw \in Seq(Blocks) /\ Len(manifest.raw) = Size[op.seen]
  BY DEF RecoveryInv, TypeOK, FileTypes, OpInv, WriteInv
<1>11. op.pc \in Capturing \cup Restoring => op.seen \in Machines
  BY DEF RecoveryInv, TypeOK, OpTypes
<1>12. CASE op.pc = "hash_start"
  <2>1. PICK c \in past[op.seen] : Stands(c, op.got)
    BY <1>12 DEF RecoveryInv, OpInv, CaptureInv
  <2>2. \A k \in 1..Size[op.seen] : emmc'[op.seen][k] = op.got[k] => c[k] = op.got[k]
    BY <1>9, <1>11, <1>12, <2>1, StandsStays
  <2>3. c \in past'[op'.seen] /\ Stands(c, op.got)'
    BY <1>1, <1>7, <1>11, <1>12, <2>1, <2>2 DEF Stands
  <2>4. manifest' = NoFile /\ Len(op'.got) = Size[op'.seen] /\ op'.pc = "hash_start"
    BY <1>1, <1>9, <1>12 DEF RecoveryInv, OpInv, CaptureInv, fileVars
  <2>5. CaptureInv' /\ WriteInv'
    BY <2>3, <2>4 DEF CaptureInv, WriteInv
  <2> QED
    BY <1>5, <1>6, <1>8, <2>5 DEF RecoveryInv, OpInv
<1>13. CASE op.pc = "hash"
  <2>1. PICK c \in past[op.seen] : Stands(c, op.got) /\ ReadOff(c, op.got)
    BY <1>13 DEF RecoveryInv, OpInv, CaptureInv
  <2>2. \A k \in 1..Size[op.seen] : emmc'[op.seen][k] = op.got[k] => c[k] = op.got[k]
    BY <1>9, <1>11, <1>13, <2>1, StandsStays
  <2>3. c \in past'[op'.seen] /\ Stands(c, op.got)' /\ ReadOff(c, op.got)'
    BY <1>1, <1>7, <1>11, <1>13, <2>1, <2>2 DEF Stands, ReadOff
  <2>4. manifest' = NoFile /\ Len(op'.got) = Size[op'.seen] /\ op'.pc = "hash"
    BY <1>1, <1>9, <1>13 DEF RecoveryInv, OpInv, CaptureInv, fileVars
  <2>5. CaptureInv' /\ WriteInv'
    BY <2>3, <2>4 DEF CaptureInv, WriteInv
  <2> QED
    BY <1>5, <1>6, <1>8, <2>5 DEF RecoveryInv, OpInv
<1>14. CASE op.pc \in {"check_start", "check"}
  <2>1. PICK c \in held \cap past[op.seen] :
           Stands(c, manifest.raw) /\ (op.pc = "check" => ReadOff(c, manifest.raw))
    BY <1>14 DEF RecoveryInv, OpInv, WriteInv
  <2>2. \A k \in 1..Size[op.seen] : emmc'[op.seen][k] = manifest.raw[k] => c[k] = manifest.raw[k]
    BY <1>10, <1>11, <1>14, <2>1, StandsStays
  <2>3. /\ c \in held' \cap past'[op'.seen] /\ Stands(c, manifest.raw)'
        /\ op.pc = "check" => ReadOff(c, manifest.raw)'
    BY <1>1, <1>7, <1>11, <1>14, <2>1, <2>2 DEF Stands, ReadOff, fileVars
  <2>4. /\ manifest' # NoFile /\ manifest'.machine = op'.seen /\ Len(manifest'.raw) = Size[op'.seen]
        /\ op'.pc = op.pc
    BY <1>1, <1>14 DEF RecoveryInv, OpInv, WriteInv, fileVars
  <2>5. CaptureInv' /\ WriteInv'
    BY <1>14, <2>3, <2>4 DEF CaptureInv, WriteInv
  <2> QED
    BY <1>5, <1>6, <1>8, <2>5 DEF RecoveryInv, OpInv
<1>15. CASE op.pc = "write_device"
  <2>1. ASSUME op.got # <<>>, op.boot = Boot PROVE emmc'[op.seen] \in held'
    <3>1. emmc[op.seen] \in held /\ op.seen \in Machines
      BY <1>11, <1>15, <2>1 DEF RecoveryInv, OpInv, WriteInv
    <3>2. boots # <<>> /\ Machine = op.seen
      BY <1>15, <2>1 DEF RecoveryInv, OpInv, MachineInv, Machine, Boot, Last
    <3> QED
      BY <1>2, <1>3, <1>7, <3>1, <3>2 DEF DeviceTypes
  <2>2. /\ manifest' # NoFile /\ manifest'.machine = op'.seen /\ Len(manifest'.raw) = Size[op'.seen]
        /\ op'.sent \in File' /\ op'.pc = "write_device"
    BY <1>1, <1>4, <1>15 DEF RecoveryInv, OpInv, WriteInv, fileVars
  <2>3. Boot' = Boot
    BY <1>1 DEF Boot, agentVars
  <2>4. CaptureInv' /\ WriteInv'
    BY <1>1, <2>1, <2>2, <2>3 DEF CaptureInv, WriteInv
  <2> QED
    BY <1>5, <1>6, <1>8, <2>4 DEF RecoveryInv, OpInv
<1>16. CASE op.pc \notin {"hash_start", "hash", "check_start", "check", "write_device"}
  <2>1. CaptureInv'
    BY <1>1, <1>4, <1>7, <1>11, <1>16 DEF RecoveryInv, OpInv, CaptureInv, fileVars
  <2>2. WriteInv'
    BY <1>1, <1>16 DEF RecoveryInv, OpInv, WriteInv, fileVars
  <2> QED
    BY <1>5, <1>6, <1>8, <2>1, <2>2 DEF RecoveryInv, OpInv
<1> QED
  BY <1>12, <1>13, <1>14, <1>15, <1>16

LEMMA DamageStep == ASSUME RecoveryInv, DamageImage PROVE RecoveryInv'
<1>1. damages' = damages + 1 /\ UNCHANGED <<agentVars, deviceVars, manifest, op, bench>>
  BY DEF DamageImage
<1>2. FileTypes /\ DeviceTypes /\ Blocks' = Blocks
  BY <1>1 DEF RecoveryInv, TypeOK, Blocks, deviceVars
<1>3. /\ partial' \in {NoFile} \cup File /\ image' \in {NoFile} \cup File
      /\ partial \in File => partial' \in File
  <2>1. CASE /\ image # NoFile /\ UNCHANGED partial
             /\ \/ image' = [image EXCEPT !.intact = FALSE]
                \/ \E m \in Machines : \E raw \in past[m] : image' = [raw |-> raw, intact |-> TRUE]
    <3>1. CASE image' = [image EXCEPT !.intact = FALSE]
      BY <1>2, <2>1, <3>1 DEF FileTypes, File
    <3>2. ASSUME NEW m \in Machines, NEW raw \in past[m], image' = [raw |-> raw, intact |-> TRUE]
          PROVE  image' \in File
      <4>1. raw \in Seq(Blocks)
        BY <1>2 DEF DeviceTypes
      <4> QED
        BY <3>2, <4>1 DEF File
    <3> QED
      BY <1>2, <2>1, <3>1, <3>2 DEF FileTypes
  <2>2. CASE partial # NoFile /\ partial' = [partial EXCEPT !.intact = FALSE] /\ UNCHANGED image
    BY <1>2, <2>2 DEF FileTypes, File
  <2> QED
    BY <2>1, <2>2 DEF DamageImage
<1>4. FileTypes' /\ damages' # 0
  BY <1>1, <1>2, <1>3 DEF FileTypes, File
<1>5. TypeOK'
  BY <1>1, <1>4, TypesStay DEF RecoveryInv, TypeOK, deviceVars
<1>6. HistoryInv' /\ MachineInv' /\ BenchInv'
  BY <1>1 DEF RecoveryInv, OpInv, HistoryInv, MachineInv, OneMachine, BenchInv, agentVars
<1>7. CaptureInv'
  BY <1>1, <1>2, <1>3, <1>4 DEF RecoveryInv, OpInv, CaptureInv, Stands, ReadOff, File, deviceVars
<1>8. WriteInv'
  BY <1>1, <1>2 DEF RecoveryInv, OpInv, WriteInv, Stands, ReadOff, File, Boot, agentVars, deviceVars
<1>9. ManifestIsTheMachine'
  BY <1>1, <1>4 DEF RecoveryInv, ManifestIsTheMachine, deviceVars
<1> QED
  BY <1>5, <1>6, <1>7, <1>8, <1>9 DEF RecoveryInv, OpInv

LEMMA CleanUpStep == ASSUME RecoveryInv, CleanUp PROVE RecoveryInv'
<1>1. /\ op.pc = "idle" /\ partial' = NoFile /\ bench' = ClearBench
      /\ image' = IF manifest = NoFile THEN NoFile ELSE image
      /\ UNCHANGED <<agentVars, deviceVars, manifest, op, damages>>
  BY DEF CleanUp, At
<1>2. FileTypes' /\ BenchTypes'
  BY <1>1 DEF RecoveryInv, TypeOK, FileTypes, BenchTypes, ClearBench, File, Blocks, deviceVars
<1>3. TypeOK'
  BY <1>1, <1>2, TypesStay DEF RecoveryInv, TypeOK, deviceVars
<1>4. HistoryInv' /\ MachineInv' /\ CaptureInv' /\ WriteInv' /\ BenchInv'
  BY <1>1 DEF RecoveryInv, OpInv, HistoryInv, MachineInv, OneMachine, CaptureInv, WriteInv, BenchInv,
     agentVars
<1>5. ManifestIsTheMachine'
  BY <1>1 DEF RecoveryInv, ManifestIsTheMachine, deviceVars
<1> QED
  BY <1>3, <1>4, <1>5 DEF RecoveryInv, OpInv

LEMMA StutterStep == ASSUME RecoveryInv, UNCHANGED vars PROVE RecoveryInv'
<1>1. up \in BOOLEAN
  BY DEF RecoveryInv, TypeOK, AgentTypes
<1> QED
  BY <1>1, SystemStep DEF vars, agentVars

LEMMA SurroundingsStep == ASSUME RecoveryInv, Surroundings PROVE RecoveryInv'
<1>1. CASE \E m \in Machines, wrong \in {{}, {"board"}, {"target"}} : BootStick(m, wrong)
  BY <1>1, BootStickStep
<1>2. CASE PowerLoss \/ Mount \/ Umount
  <2>1. /\ up' \in BOOLEAN /\ (up' => up)
        /\ UNCHANGED <<boots, history, scratch, deviceVars, fileVars, op, bench, damages>>
    BY <1>2 DEF PowerLoss, Mount, Umount, laptopSide, RecoveryInv, TypeOK, AgentTypes
  <2> QED
    BY <2>1, SystemStep
<1>3. CASE \E m \in Machines : \E i \in 1..Size[m] : OutsideWrite(m, i)
  BY <1>3, OutsideWriteStep
<1>4. CASE DamageImage \/ Kill \/ CleanUp
  BY <1>4, DamageStep, KillStep, CleanUpStep
<1> QED
  BY <1>1, <1>2, <1>3, <1>4 DEF Surroundings

LEMMA NextRecovery == RecoveryInv /\ [Next]_vars => RecoveryInv'
<1> SUFFICES ASSUME RecoveryInv, [Next]_vars PROVE RecoveryInv'
  OBVIOUS
<1>1. CASE RecordStep
  BY <1>1, BeginRecordStep, RecordCreateStep, RecordReplaceStep DEF RecordStep
<1>2. CASE CaptureStep
  BY <1>2, BeginCaptureStep, CaptureInspectStep, StreamStartStep, StreamBlockStep,
     CaptureHashStartStep, HashBlockStep, HashLostStep, CaptureHashedStep, ZstdTestStep,
     RenameImageStep, DraftManifestStep, WriteManifestStep DEF CaptureStep
<1>3. CASE WriteStep
  BY <1>3, BeginWriteStep, WriteInspectStep, WriteStartStep, WriteBlockStep, WriteEndsStep,
     WriteHashStartStep, WriteHashedStep DEF WriteStep
<1>4. CASE CheckStep
  BY <1>4, BeginCheckStep, MaterializeStep, AttachStep, PartitionsStep, DetachStep,
     RemoveBenchStep DEF CheckStep
<1>5. CASE Surroundings
  BY <1>5, SurroundingsStep
<1>6. CASE UNCHANGED vars
  BY <1>6, StutterStep
<1> QED
  BY <1>1, <1>2, <1>3, <1>4, <1>5, <1>6 DEF Next

-----------------------------------------------------------------------------
(* The two results a command may report.                                   *)
LEMMA OnlyWriteHashedRestores ==
    ASSUME [Next]_vars, outcome' = "restored", outcome # "restored"
    PROVE  WriteHashed /\ RestoredAgrees
<1>1. ~Refuse
  BY DEF Refuse, End
<1>2. WriteHashed
  BY <1>1 DEF Next, vars, RecordStep, BeginRecord, Begin, RecordCreate, RecordReplace, End, CaptureStep,
     BeginCapture, CaptureInspect, StreamStart, StartAgent, StreamBlock, CaptureHashStart, HashBlock,
     HashLost, CaptureHashed, ZstdTest, RenameImage, DraftManifest, WriteManifest, WriteStep, BeginWrite,
     WriteInspect, WriteStart, WriteBlock, WriteEnds, WriteHashStart, CheckStep, BeginCheck, Materialize,
     BenchStep, Attach, CheckFilesystem, Unmount, AllChecked, Detach, RemoveBench, Surroundings,
     BootStick, PowerLoss, Mount, Umount, OutsideWrite, DamageImage, Kill, CleanUp, laptopSide
<1> QED
  BY <1>1, <1>2 DEF WriteHashed

LEMMA OnlyRemoveBenchChecks ==
    ASSUME [Next]_vars, outcome' = "checked", outcome # "checked"
    PROVE  RemoveBench
<1>1. ~Refuse
  BY DEF Refuse, End
<1> QED
  BY <1>1 DEF Next, vars, RecordStep, BeginRecord, Begin, RecordCreate, RecordReplace, End, CaptureStep,
     BeginCapture, CaptureInspect, StreamStart, StartAgent, StreamBlock, CaptureHashStart, HashBlock,
     HashLost, CaptureHashed, ZstdTest, RenameImage, DraftManifest, WriteManifest, WriteStep, BeginWrite,
     WriteInspect, WriteStart, WriteBlock, WriteEnds, WriteHashStart, WriteHashed, CheckStep, BeginCheck,
     Materialize, BenchStep, Attach, CheckFilesystem, Unmount, AllChecked, Detach, Surroundings,
     BootStick, PowerLoss, Mount, Umount, OutsideWrite, DamageImage, Kill, CleanUp, laptopSide

LEMMA RestoredHeld ==
    ASSUME RecoveryInv, WriteHashed, RestoredAgrees
    PROVE  manifest.machine = Machine /\ manifest.raw \in held
<1>1. op.pc = "check" /\ AgentLives /\ op.again = manifest.raw
  BY DEF WriteHashed, Hashed, At, RestoredAgrees
<1>2. Machine = op.seen /\ op.seen \in Machines
  BY <1>1, Alive
<1>3. /\ manifest # NoFile /\ manifest.machine = op.seen /\ Len(manifest.raw) = Size[op.seen]
      /\ \E c \in held \cap past[op.seen] : ReadOff(c, manifest.raw)
  BY <1>1 DEF RecoveryInv, OpInv, WriteInv
<1>4. manifest.raw \in Seq(Blocks)
  BY <1>3 DEF RecoveryInv, TypeOK, FileTypes
<1>5. PICK c \in held \cap past[op.seen] : ReadOff(c, manifest.raw)
  BY <1>3
<1>6. c = manifest.raw
  BY <1>1, <1>2, <1>3, <1>4, <1>5, PassIsContent DEF RecoveryInv
<1> QED
  BY <1>2, <1>3, <1>5, <1>6

LEMMA SameBench ==
    ASSUME NEW x \in Bench, NEW y \in Bench,
           x.temp = y.temp, x.loop = y.loop, x.known = y.known, x.mounts = y.mounts,
           x.checked = y.checked, x.error = y.error
    PROVE  x = y
  OBVIOUS

LEMMA CheckedIsClean ==
    ASSUME RecoveryInv, RemoveBench, outcome' = "checked"
    PROVE  /\ bench.checked = Partitions
           /\ bench' = [ClearBench EXCEPT !.checked = Partitions]
<1> DEFINE removed == ~bench.known /\ bench.mounts = {}
           clean == [ClearBench EXCEPT !.checked = Partitions]
<1>1. /\ op.pc = "remove" /\ ~bench.error /\ bench' = [bench EXCEPT !.temp = ~removed]
  BY DEF RemoveBench, At, End
<1>2. bench.mounts = {} /\ bench.checked = Partitions /\ bench.known = FALSE /\ bench.loop = FALSE
      /\ bench.error = FALSE /\ bench \in Bench
  BY <1>1 DEF RecoveryInv, TypeOK, BenchTypes, BenchInv
<1>3. /\ bench' \in Bench /\ bench'.temp = FALSE /\ bench'.loop = FALSE /\ bench'.known = FALSE
      /\ bench'.mounts = {} /\ bench'.checked = Partitions /\ bench'.error = FALSE
  BY <1>1, <1>2
<1>4. ClearBench \in Bench /\ clean \in Bench
  <2>1. ClearBench \in Bench
    BY DEF ClearBench
  <2> QED
    BY <2>1
<1>5. /\ ClearBench.temp = FALSE /\ ClearBench.loop = FALSE /\ ClearBench.known = FALSE
      /\ ClearBench.mounts = {} /\ ClearBench.error = FALSE
  BY DEF ClearBench
<1>6. /\ clean.temp = FALSE /\ clean.loop = FALSE /\ clean.known = FALSE
      /\ clean.mounts = {} /\ clean.checked = Partitions /\ clean.error = FALSE
  BY <1>4, <1>5
<1> HIDE DEF clean
<1>7. bench' = clean
  BY <1>3, <1>4, <1>6, SameBench
<1> QED
  BY <1>2, <1>7 DEF clean

(* The parts of the invariant hold in every state.                         *)
THEOREM RecoveryInvariant == Spec => []RecoveryInv
  BY InitRecovery, NextRecovery, PTL DEF Spec

(* The boots the agent counts are different boots in the machine the       *)
(* history names.                                                          *)
THEOREM HistoryOfOneMachine == Spec => []HistoryIsHonest
<1>1. RecoveryInv => HistoryIsHonest
  BY DEF RecoveryInv, OpInv, HistoryInv, OneMachine, HistoryIsHonest, Range
<1> QED
  BY <1>1, RecoveryInvariant, PTL

(* A manifest describes what its machine's eMMC held at one time.          *)
THEOREM ManifestWasHeld == Spec => []ManifestIsTheMachine
<1>1. RecoveryInv => ManifestIsTheMachine
  BY DEF RecoveryInv
<1> QED
  BY <1>1, RecoveryInvariant, PTL

(* A restore that reports success has left the captured bytes on the       *)
(* machine they were captured from.                                        *)
THEOREM RestoreIsTrue == Spec => RestoredIsTheCapture
<1>1. RecoveryInv /\ [Next]_vars =>
        [outcome' = "restored" /\ outcome # "restored" =>
            manifest.machine = Machine /\ manifest.raw \in held]_vars
  BY OnlyWriteHashedRestores, RestoredHeld
<1> QED
  BY <1>1, RecoveryInvariant, PTL DEF Spec, RestoredIsTheCapture

(* A filesystem check that passes has looked at everything and leaves      *)
(* nothing.                                                                *)
THEOREM CheckIsComplete == Spec => CheckedLeavesNothing
<1>1. RecoveryInv /\ [Next]_vars =>
        [outcome' = "checked" /\ outcome # "checked" =>
            /\ bench.checked = Partitions
            /\ bench' = [ClearBench EXCEPT !.checked = Partitions]]_vars
  BY OnlyRemoveBenchChecks, CheckedIsClean
<1> QED
  BY <1>1, RecoveryInvariant, PTL DEF Spec, CheckedLeavesNothing
=============================================================================
