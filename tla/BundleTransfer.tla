--------------------------- MODULE BundleTransfer ---------------------------
(***************************************************************************)
(* A configuration bundle on its way from the laptop to /etc/t300.         *)
(*                                                                         *)
(* prepare_bundle (config_deploy.py) builds it on the laptop; send_bundle  *)
(* (transfer.py) sends it over the restricted SSH transport; sshd starts   *)
(* one receive_bundle process per connection, and all of them write the    *)
(* one name /var/lib/t300/incoming/config-bundle.tar; root's apply_bundle  *)
(* copies that file to a private snapshot, checks and installs the         *)
(* snapshot, and consumes the upload.  The laptop stops waiting after 120  *)
(* seconds while its receiver may go on, a session may outlive the stop of *)
(* ssh.service (the drop-in sets no KillMode), and a receiver may be       *)
(* killed or meet a failing write.                                         *)
(*                                                                         *)
(* A bundle stands for its digest.  A file is named by the receiver that   *)
(* created it, the only process that writes it: unlinking it or making     *)
(* another under its name changes nothing for who has it open.             *)
(***************************************************************************)
EXTENDS Naturals, FiniteSets

CONSTANTS
    Receivers,     \* the connections to the receiver (bounds the uploads)
    Stages,        \* staged builds; each installs its own configuration
    Initial,       \* the configuration that provisioning installed
    Ready,         \* builds with calibration_ready
    Unlocked,      \* builds with commissioning_lock: False
    NoFile, NoConfig,
    Blocks,        \* blocks of a bundle
    MaxDeploys,    \* bound: apply_bundle commands
    MaxPrepared    \* bound: bundles on the laptop

ASSUME BundleAssumption ==
    /\ Blocks \in Nat \ {0}
    /\ Ready \subseteq Stages /\ Unlocked \subseteq Stages
    /\ Initial \notin Stages

\* A configuration is a normalized tree: its modes follow from its paths and
\* it has no markers, so a build determines the configuration it becomes.
Configs == Stages \cup {Initial}

VARIABLES
    gate,        \* the transport marker exists and ssh.service is active
    installed,   \* the configuration in /etc/t300
    inventory,   \* the configuration the laptop's base inventory was taken of
    prepared,    \* the bundles built on the laptop
    slot,        \* the file under the quarantine name
    recv,        \* recv[r]: the receiver process, what it was sent and wrote
    waiting,     \* the receiver that the laptop's send_bundle waits for
    deploy,      \* the running apply_bundle
    applied,     \* history: what the last deployment installed, and over what
    deploys

laptop == <<inventory, prepared, waiting>>
printer == <<installed, deploy, applied, deploys>>
vars == <<gate, slot, recv, laptop, printer>>

Fresh == [pc |-> "none", bundle |-> NoFile, len |-> 0]
NoDeploy == [pc |-> "idle", want |-> NoFile, file |-> NoFile, pos |-> 0]

Init ==
    /\ gate = FALSE
    /\ installed = Initial /\ inventory = NoConfig /\ prepared = {}
    /\ slot = NoFile
    /\ recv = [r \in Receivers |-> Fresh]
    /\ waiting = NoFile
    /\ deploy = NoDeploy
    /\ applied = NoFile /\ deploys = 0

(***************************************************************************)
(* The laptop.                                                             *)
(***************************************************************************)
\* The operator saves the printer's configuration inventory.
TakeInventory ==
    /\ inventory # installed /\ inventory' = installed
    /\ UNCHANGED <<gate, slot, recv, prepared, waiting, printer>>

\* The lock in safety.cfg must be off exactly when calibration is done.
LockAgrees(s) == s \in Unlocked <=> s \in Ready

\* A base inventory, and a passing validation report of this very build.
ReportAgrees(s, report) == inventory # NoConfig /\ report = s

\* One archive: the tree of the build, and in its manifest the inventory it
\* was compared with.
BundleOf(s) == [new |-> s, base |-> inventory]

\* prepare_bundle.
PrepareBundle(s, report) ==
    /\ Cardinality(prepared) < MaxPrepared
    /\ ReportAgrees(s, report) /\ LockAgrees(s)
    /\ prepared' = prepared \cup {BundleOf(s)}
    /\ prepared' # prepared
    /\ UNCHANGED <<gate, slot, recv, inventory, waiting, printer>>

\* send_bundle, one at a time: the host key must be the reviewed one, so
\* only this printer's sshd answers; the receiver starts.
SendBundle(r, b) ==
    /\ gate /\ recv[r] = Fresh /\ waiting = NoFile
    /\ recv' = [recv EXCEPT ![r] = [pc |-> "header", bundle |-> b, len |-> 0]]
    /\ waiting' = r
    /\ UNCHANGED <<gate, slot, inventory, prepared, printer>>

\* The 120 seconds pass, or the connection breaks.
SendTimeout ==
    /\ waiting # NoFile /\ waiting' = NoFile
    /\ UNCHANGED <<gate, slot, recv, inventory, prepared, printer>>

(***************************************************************************)
(* The receiver.                                                           *)
(***************************************************************************)
Step(r, pc) == recv' = [recv EXCEPT ![r].pc = pc]

\* send_bundle returns or raises when its receiver ends.
Hear(r) == waiting' = IF waiting = r THEN NoFile ELSE waiting

\* The directory and the header are checked outside the try block.
CheckHeader(r) ==
    /\ recv[r].pc = "header"
    /\ \/ Step(r, "create") /\ UNCHANGED waiting
       \/ Step(r, "failed") /\ Hear(r)
    /\ UNCHANGED <<gate, slot, inventory, prepared, printer>>

\* O_CREAT | O_EXCL inside the try block: an existing file raises, and so
\* does a full or read-only disk.
Create(r) ==
    /\ recv[r].pc = "create"
    /\ \/ slot = NoFile /\ slot' = r /\ Step(r, "write")
       \/ slot' = slot /\ Step(r, "unlink")
    /\ UNCHANGED <<gate, laptop, printer>>

WriteBlock(r) ==
    /\ recv[r].pc = "write" /\ recv[r].len < Blocks
    /\ recv' = [recv EXCEPT ![r].len = @ + 1]
    /\ UNCHANGED <<gate, slot, laptop, printer>>

\* The input ends early, or a write or the fsync fails.
WriteFails(r) ==
    /\ recv[r].pc = "write" /\ Step(r, "unlink")
    /\ UNCHANGED <<gate, slot, laptop, printer>>

\* The declared size and digest agree with what was read.
Verifies(r) ==
    /\ recv[r].pc = "write" /\ recv[r].len = Blocks
    /\ Step(r, "answer")
    /\ UNCHANGED <<gate, slot, laptop, printer>>

\* The response; with the laptop gone, writing it may still succeed.
Answer(r) ==
    /\ recv[r].pc = "answer"
    /\ \/ Step(r, "done") /\ Hear(r)
       \/ Step(r, "unlink") /\ UNCHANGED waiting
    /\ UNCHANGED <<gate, slot, inventory, prepared, printer>>

\* A variant that only closes the file.
CloseOnly(r) ==
    /\ recv[r].pc = "unlink"
    /\ Step(r, "failed") /\ Hear(r)
    /\ UNCHANGED <<gate, slot, inventory, prepared, printer>>

\* The handler of every exception unlinks the name, whosever file it is.
Unlink(r) ==
    /\ recv[r].pc = "unlink"
    /\ slot' = NoFile
    /\ Step(r, "failed") /\ Hear(r)
    /\ UNCHANGED <<gate, inventory, prepared, printer>>

\* Killed, or cut off by a power loss: the handler does not run.  An unlink
\* that itself raises ends the receiver in the same state.
ReceiverKilled(r) ==
    /\ recv[r].pc \in {"header", "create", "write", "answer", "unlink"}
    /\ Step(r, "dead") /\ Hear(r)
    /\ UNCHANGED <<gate, slot, inventory, prepared, printer>>

(***************************************************************************)
(* The printer's owner.                                                    *)
(***************************************************************************)
\* transport_enable and transport_disable.
TransportEnable ==
    /\ ~gate /\ gate' = TRUE
    /\ UNCHANGED <<slot, recv, laptop, printer>>
TransportDisable ==
    /\ gate /\ gate' = FALSE
    /\ UNCHANGED <<slot, recv, laptop, printer>>

Deploying(pc) == deploy.pc = pc
DeployStep(d) == deploy' = d /\ UNCHANGED <<gate, recv, laptop, installed, applied, deploys>>

\* apply_bundle of the quarantined file, for the reviewed digest.
BeginApply(want) ==
    /\ Deploying("idle") /\ slot # NoFile /\ deploys < MaxDeploys
    /\ deploy' = [pc |-> "copy", want |-> want, file |-> slot, pos |-> 0]
    /\ deploys' = deploys + 1
    /\ UNCHANGED <<gate, slot, recv, laptop, installed, applied>>

\* _extract_verified_bundle copies the open file as far as it now goes.
CopyBlock ==
    /\ Deploying("copy") /\ deploy.pos < recv[deploy.file].len
    /\ DeployStep([deploy EXCEPT !.pos = @ + 1]) /\ UNCHANGED slot

\* What a snapshot holds once the copy reached the end of the file.
Snapshot == [bundle |-> recv[deploy.file].bundle, len |-> deploy.pos]
SnapshotAgrees == Snapshot = [bundle |-> deploy.want, len |-> Blocks]

\* A variant that opens the file again after its digest was compared.
ExtractAgain ==
    /\ Deploying("copy") /\ deploy.pos = recv[deploy.file].len
    /\ DeployStep(IF SnapshotAgrees /\ slot # NoFile
                  THEN [deploy EXCEPT !.pc = "gates", !.file = slot] ELSE NoDeploy)
    /\ UNCHANGED slot

\* The digest of the snapshot against the reviewed one, and the extraction
\* of that snapshot.
Extract ==
    /\ Deploying("copy") /\ deploy.pos = recv[deploy.file].len
    /\ DeployStep(IF SnapshotAgrees THEN [deploy EXCEPT !.pc = "gates"] ELSE NoDeploy)
    /\ UNCHANGED slot

BaseAgrees == Snapshot.bundle.base = installed

\* The idle evidence names the installed configuration; evidence older than
\* ten minutes is none.
EvidenceAgrees(evidence) == evidence = installed

\* The gates of apply_bundle: the base, an idle printer, a closed transport.
CheckGates(evidence) ==
    /\ Deploying("gates")
    /\ DeployStep(IF BaseAgrees /\ ~gate /\ EvidenceAgrees(evidence)
                  THEN [deploy EXCEPT !.pc = "install"] ELSE NoDeploy)
    /\ UNCHANGED slot

\* The transaction (module ConfigDeploy) completes or fails as a whole.
Install ==
    /\ Deploying("install")
    /\ \/ /\ installed' = Snapshot.bundle.new
          /\ applied' = [snapshot |-> Snapshot, want |-> deploy.want, over |-> installed]
          /\ deploy' = [deploy EXCEPT !.pc = "consume"]
       \/ deploy' = NoDeploy /\ UNCHANGED <<installed, applied>>
    /\ UNCHANGED <<gate, slot, recv, laptop, deploys>>

\* _consume_verified_quarantine: the file now under the name is hashed and
\* compared; the name is then unlinked.
ConsumeCheck ==
    /\ Deploying("consume")
    /\ DeployStep(IF slot # NoFile /\ recv[slot].len = Blocks /\ recv[slot].bundle = deploy.want
                  THEN [deploy EXCEPT !.pc = "consume_unlink"] ELSE NoDeploy)
    /\ UNCHANGED slot

ConsumeUnlink ==
    /\ Deploying("consume_unlink")
    /\ slot' = NoFile /\ DeployStep(NoDeploy)

ApplyKilled ==
    /\ ~Deploying("idle") /\ DeployStep(NoDeploy) /\ UNCHANGED slot

Receive(r) ==
    \/ CheckHeader(r) \/ Create(r) \/ WriteBlock(r) \/ WriteFails(r)
    \/ Verifies(r) \/ Answer(r) \/ Unlink(r)

Next ==
    \/ TakeInventory
    \/ \E s, report \in Stages : PrepareBundle(s, report)
    \/ \E r \in Receivers : \/ \E b \in prepared : SendBundle(r, b)
                            \/ Receive(r) \/ ReceiverKilled(r)
    \/ SendTimeout \/ TransportEnable \/ TransportDisable
    \/ \E b \in prepared : BeginApply(b)
    \/ CopyBlock \/ Extract
    \/ \E evidence \in Configs \cup {NoConfig} : CheckGates(evidence)
    \/ Install \/ ConsumeCheck \/ ConsumeUnlink \/ ApplyKilled

Spec == Init /\ [][Next]_vars

-----------------------------------------------------------------------------
(***************************************************************************)
(* Properties.                                                             *)
(***************************************************************************)
\* What a deployment installed is the complete bundle whose digest was
\* reviewed, prepared for the configuration that it replaced, and unlocked
\* only if calibrated: although receivers may write, unlink and replace the
\* quarantined file while it is read (config_deploy.py:326).
AppliedIsReviewed ==
    applied # NoFile =>
        /\ applied.snapshot = [bundle |-> applied.want, len |-> Blocks]
        /\ applied.snapshot.bundle.base = applied.over
        /\ applied.want.new \in Unlocked => applied.want.new \in Ready

\* A file under the quarantine name is complete, or its receiver still runs
\* or was killed: no refusal, failed write or lost connection leaves a part
\* of a bundle there (transfer.py:185).
LeftoversAreComplete ==
    slot # NoFile =>
        \/ recv[slot].pc \in {"write", "answer", "unlink", "dead"}
        \/ recv[slot].pc = "done" /\ recv[slot].len = Blocks

\* tests/test_transfer.py:60 expects of a receiver that answers
\* "quarantined" that the bytes it was sent are under the quarantine name.
AnsweredIsQuarantined ==
    [][\A r \in Receivers :
        recv[r].pc = "answer" /\ recv'[r].pc = "done" => slot = r /\ recv[r].len = Blocks]_vars

=============================================================================
