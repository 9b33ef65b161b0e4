------------------------ MODULE BundleTransferProofs ------------------------
(***************************************************************************)
(* Proofs about the way of a bundle to /etc/t300, for any number of        *)
(* receivers, builds, uploads and deployments, and bundles of any length.  *)
(***************************************************************************)
EXTENDS BundleTransfer, TLAPS

Bundle == [new : Stages, base : Configs]
ReceiverPoints == {"none", "header", "create", "write", "answer", "unlink",
                   "done", "failed", "dead"}
DeployPoints == {"idle", "copy", "gates", "install", "consume", "consume_unlink"}

TypeOK ==
    /\ installed \in Configs
    /\ inventory \in Configs \cup {NoConfig}
    /\ prepared \subseteq Bundle
    /\ slot \in Receivers \cup {NoFile}
    /\ recv \in [Receivers -> [pc : ReceiverPoints, bundle : Bundle \cup {NoFile}, len : 0..Blocks]]
    /\ deploy \in [pc : DeployPoints, want : Bundle \cup {NoFile},
                   file : Receivers \cup {NoFile}, pos : 0..Blocks]

(* An answer is given of a complete file only.                             *)
AnswersAreComplete == \A r \in Receivers : recv[r].pc = "answer" => recv[r].len = Blocks

(* prepare_bundle never built an unlocked bundle without calibration.      *)
PreparedAgree == \A b \in prepared : LockAgrees(b.new)

(* apply_bundle reads a file some receiver has made, for a prepared bundle.*)
Reading ==
    ~Deploying("idle") =>
        /\ deploy.file \in Receivers /\ recv[deploy.file].pc # "none"
        /\ deploy.want \in prepared

(* From the digest comparison to the installation the snapshot is the      *)
(* reviewed bundle; from the gates on, it fits what is installed.          *)
Agreed ==
    /\ deploy.pc \in {"gates", "install"} => SnapshotAgrees
    /\ Deploying("install") => BaseAgrees

TransferInv ==
    /\ TypeOK /\ AnswersAreComplete /\ PreparedAgree /\ Reading /\ Agreed
    /\ LeftoversAreComplete /\ AppliedIsReviewed

USE DEF ReceiverPoints, DeployPoints

-----------------------------------------------------------------------------
LEMMA InitTransfer == Init => TransferInv
<1> SUFFICES ASSUME Init PROVE TransferInv
  OBVIOUS
<1>1. TypeOK
  BY BundleAssumption DEF Init, TypeOK, Fresh, NoDeploy, Configs
<1> QED
  BY <1>1 DEF Init, TransferInv, AnswersAreComplete, PreparedAgree, Reading, Agreed, Deploying,
     NoDeploy, Fresh, LeftoversAreComplete, AppliedIsReviewed

(* What the parts about apply_bundle and the laptop are about stays, and   *)
(* no receiver is sent another bundle or goes back to its beginning.       *)
LEMMA DeployUntouched ==
    ASSUME TransferInv, UNCHANGED <<installed, deploy, applied, prepared>>,
           \A r \in Receivers : recv[r].pc # "none" =>
               recv'[r].bundle = recv[r].bundle /\ recv'[r].pc # "none"
    PROVE  (PreparedAgree /\ Reading /\ Agreed /\ AppliedIsReviewed)'
<1>1. PreparedAgree' /\ AppliedIsReviewed' /\ Reading'
  BY DEF TransferInv, PreparedAgree, AppliedIsReviewed, Reading, Deploying
<1>2. ~Deploying("idle") => Snapshot' = Snapshot
  BY DEF TransferInv, Reading, Snapshot
<1>3. Agreed'
  BY <1>2 DEF TransferInv, Agreed, Deploying, SnapshotAgrees, BaseAgrees
<1> QED
  BY <1>1, <1>3

(* The laptop and the transport's gate.                                    *)
LEMMA LaptopStep ==
    ASSUME TransferInv,
           \/ TakeInventory \/ SendTimeout \/ TransportEnable \/ TransportDisable
           \/ \E s, report \in Stages : PrepareBundle(s, report)
    PROVE  TransferInv'
<1>1. UNCHANGED <<slot, recv, installed, deploy, applied>>
  BY DEF TakeInventory, SendTimeout, TransportEnable, TransportDisable, PrepareBundle, laptop, printer
<1>2. AnswersAreComplete' /\ LeftoversAreComplete'
  BY <1>1 DEF TransferInv, AnswersAreComplete, LeftoversAreComplete
<1>3. CASE UNCHANGED prepared
  <2>1. TypeOK'
    BY <1>1, <1>3 DEF TransferInv, TypeOK, TakeInventory, SendTimeout, TransportEnable,
       TransportDisable, PrepareBundle, laptop, printer
  <2> QED
    BY <1>1, <1>2, <1>3, <2>1, DeployUntouched DEF TransferInv
<1>4. ASSUME NEW s \in Stages, NEW report \in Stages, PrepareBundle(s, report)
      PROVE  TransferInv'
  <2>1. prepared' = prepared \cup {BundleOf(s)} /\ LockAgrees(s) /\ inventory' = inventory
        /\ inventory # NoConfig
    BY <1>4 DEF PrepareBundle, ReportAgrees
  <2>2. BundleOf(s) \in Bundle /\ BundleOf(s).new = s
    BY <2>1 DEF TransferInv, TypeOK, BundleOf, Bundle
  <2>3. TypeOK' /\ PreparedAgree'
    BY <1>1, <2>1, <2>2 DEF TransferInv, TypeOK, PreparedAgree, LockAgrees
  <2>4. Reading' /\ Agreed' /\ AppliedIsReviewed'
    BY <1>1, <2>1 DEF TransferInv, Reading, Agreed, AppliedIsReviewed, Deploying, SnapshotAgrees,
       BaseAgrees, Snapshot
  <2> QED
    BY <1>2, <2>3, <2>4 DEF TransferInv
<1> QED
  BY <1>3, <1>4 DEF TakeInventory, SendTimeout, TransportEnable, TransportDisable, laptop

(* A receiver starts.                                                      *)
LEMMA SendStep ==
    ASSUME TransferInv, NEW r \in Receivers, NEW b \in prepared, SendBundle(r, b)
    PROVE  TransferInv'
<1>1. /\ recv[r].pc = "none" /\ recv'[r] = [pc |-> "header", bundle |-> b, len |-> 0]
      /\ \A q \in Receivers : q # r => recv'[q] = recv[q]
      /\ UNCHANGED <<slot, installed, inventory, prepared, deploy, applied>>
  BY DEF SendBundle, TransferInv, TypeOK, Fresh, printer
<1>2. TypeOK'
  BY <1>1, BundleAssumption DEF SendBundle, TransferInv, TypeOK
<1>3. AnswersAreComplete' /\ LeftoversAreComplete'
  BY <1>1 DEF TransferInv, TypeOK, AnswersAreComplete, LeftoversAreComplete
<1> QED
  BY <1>1, <1>2, <1>3, DeployUntouched DEF TransferInv

(* A step of a receiver, whatever the others have under the name.          *)
LEMMA ReceiveStep ==
    ASSUME TransferInv, NEW r \in Receivers, Receive(r) \/ ReceiverKilled(r)
    PROVE  TransferInv'
<1> USE DEF Receive, CheckHeader, Create, WriteBlock, WriteFails, Verifies, Answer, Unlink,
            ReceiverKilled, Step, laptop, printer
<1>1. /\ recv[r].pc # "none" /\ recv'[r].pc # "none" /\ recv'[r].bundle = recv[r].bundle
      /\ \A q \in Receivers : q # r => recv'[q] = recv[q]
      /\ UNCHANGED <<installed, inventory, prepared, deploy, applied>>
  BY DEF TransferInv, TypeOK
<1>2. TypeOK'
  BY BundleAssumption DEF TransferInv, TypeOK
<1>3. AnswersAreComplete'
  BY <1>1 DEF TransferInv, TypeOK, AnswersAreComplete
<1>4. LeftoversAreComplete'
  BY <1>1 DEF TransferInv, TypeOK, AnswersAreComplete, LeftoversAreComplete
<1> QED
  BY <1>1, <1>2, <1>3, <1>4, DeployUntouched DEF TransferInv

(* A step of apply_bundle: it reads the receivers' files and writes none.  *)
LEMMA ApplyStep ==
    ASSUME TransferInv,
           \/ \E b \in prepared : BeginApply(b)
           \/ CopyBlock \/ Extract \/ \E evidence \in Configs \cup {NoConfig} : CheckGates(evidence)
           \/ Install \/ ConsumeCheck \/ ConsumeUnlink \/ ApplyKilled
    PROVE  TransferInv'
<1> USE DEF BeginApply, CopyBlock, Extract, CheckGates, Install, ConsumeCheck, ConsumeUnlink,
            ApplyKilled, DeployStep, Deploying, laptop, printer
<1>1. UNCHANGED <<recv, prepared, inventory>> /\ slot' \in {slot, NoFile}
  OBVIOUS
<1>2. AnswersAreComplete' /\ LeftoversAreComplete' /\ PreparedAgree'
  BY <1>1 DEF TransferInv, AnswersAreComplete, LeftoversAreComplete, PreparedAgree
<1>3. TypeOK'
  <2>1. deploy' \in [pc : DeployPoints, want : Bundle \cup {NoFile},
                    file : Receivers \cup {NoFile}, pos : 0..Blocks]
    <3>1. CASE \E b \in prepared : BeginApply(b)
      BY <3>1, BundleAssumption DEF TransferInv, TypeOK
    <3>2. CASE CopyBlock
      BY <3>2, BundleAssumption DEF TransferInv, TypeOK, Reading
    <3>3. CASE deploy'.pc \in DeployPoints /\ deploy' = [deploy EXCEPT !.pc = deploy'.pc]
      BY <3>3 DEF TransferInv, TypeOK
    <3>4. CASE deploy' = NoDeploy
      BY <3>4, BundleAssumption DEF NoDeploy
    <3> QED
      BY <3>1, <3>2, <3>3, <3>4 DEF TransferInv, TypeOK
  <2>2. installed' \in Configs
    BY DEF TransferInv, TypeOK, Reading, Agreed, SnapshotAgrees, Snapshot, Bundle, Configs
  <2> QED
    BY <1>1, <2>1, <2>2 DEF TransferInv, TypeOK
<1>4. Reading'
  BY <1>1 DEF TransferInv, TypeOK, Reading, LeftoversAreComplete, NoDeploy
<1>5. Agreed'
  BY <1>1 DEF TransferInv, TypeOK, Agreed, SnapshotAgrees, BaseAgrees, Snapshot, NoDeploy
<1>6. AppliedIsReviewed'
  BY DEF TransferInv, Reading, Agreed, PreparedAgree, LockAgrees, SnapshotAgrees, BaseAgrees,
     Snapshot, AppliedIsReviewed
<1> QED
  BY <1>2, <1>3, <1>4, <1>5, <1>6 DEF TransferInv

-----------------------------------------------------------------------------
(* The inductive invariant: whoever else writes, unlinks or replaces the   *)
(* quarantined file, apply_bundle works on one file and one prepared       *)
(* bundle from its first read to the installation.                         *)
THEOREM TransferInvariant == Spec => []TransferInv
<1>1. TransferInv /\ [Next]_vars => TransferInv'
  <2> SUFFICES ASSUME TransferInv, [Next]_vars PROVE TransferInv'
    OBVIOUS
  <2>1. CASE UNCHANGED vars
    BY <2>1 DEF vars, laptop, printer, TransferInv, TypeOK, AnswersAreComplete, PreparedAgree,
       Reading, Agreed, LeftoversAreComplete, AppliedIsReviewed, Deploying, SnapshotAgrees,
       BaseAgrees, Snapshot
  <2>2. CASE Next
    BY <2>2, LaptopStep, SendStep, ReceiveStep, ApplyStep DEF Next
  <2> QED
    BY <2>1, <2>2
<1> QED
  BY InitTransfer, <1>1, PTL DEF Spec

(* What a deployment installed is the complete bundle whose digest was     *)
(* reviewed, prepared for the configuration it replaced, and unlocked only *)
(* if calibrated.                                                          *)
THEOREM OnlyReviewedIsApplied == Spec => []AppliedIsReviewed
<1>1. TransferInv => AppliedIsReviewed
  BY DEF TransferInv
<1> QED
  BY <1>1, TransferInvariant, PTL

(* No refusal, failed write or lost connection leaves a part of a bundle   *)
(* under the quarantine name.                                              *)
THEOREM NoPartIsLeft == Spec => []LeftoversAreComplete
<1>1. TransferInv => LeftoversAreComplete
  BY DEF TransferInv
<1> QED
  BY <1>1, TransferInvariant, PTL
=============================================================================
