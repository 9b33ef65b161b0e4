-------------------------- MODULE AdmissionProofs --------------------------
(***************************************************************************)
(* Proofs about Admission for any set of paths and contents, any policies  *)
(* and any bounds.                                                         *)
(***************************************************************************)
EXTENDS Admission, TLAPS

USE AdmissionAssumption DEF Versions, Fingerprints, DaemonPoints, Booting, JobPoints,
    OpenPoints, Present, Empty, Forget, EndJob, NextPath, NoRequest, Settle,
    revoke_all, revoke_relative, prune_unreferenced_spool, policy_unchanged,
    HashThenParse, AdmitRaises, CopySource, Accepted, RecordPolicyHash, JobRecord,
    Matches, nlink, Stale, uploads, process, dicts, source, disk, klipper

VisitFrame ==
    UNCHANGED <<uploads, policy_file, crashes, process, spool, temp, linked, klipper>>

KlipperFrame ==
    UNCHANGED <<uploads, policy_file, pc, crashes, process, dicts, todo, source, disk>>

(* The initial states satisfy the inductive invariant.                     *)
LEMMA InitIInv == Init => IInv
<1> SUFFICES ASSUME Init PROVE IInv OBVIOUS
<1>1. FlagTypes BY DEF Init, FlagTypes
<1>2. DataTypes BY DEF Init, DataTypes
<1>3. Fresh BY DEF Init, Fresh
<1>4. Versioned BY DEF Init, Versioned
<1>5. JobBound BY DEF Init, JobBound
<1>6. Staged BY DEF Init, Staged
<1>7. Judged BY DEF Init, Judged
<1>8. SettledUploadIsBound BY DEF Init, SettledUploadIsBound
<1>9. RestIsClean BY DEF Init, RestIsClean
<1>10. LoadBound BY DEF Init, LoadBound
<1> QED BY <1>1, <1>2, <1>3, <1>4, <1>5, <1>6, <1>7, <1>8, <1>9, <1>10 DEF IInv, TypeOK

(* Upload preserves the inductive invariant. *)
LEMMA UploadStep ==
    ASSUME IInv, NEW p \in Paths, NEW c \in Contents, Upload(p, c)
    PROVE  IInv'
<1>1. FlagTypes' BY DEF IInv, TypeOK, FlagTypes, Upload
<1>2. DataTypes' BY DEF IInv, TypeOK, DataTypes, Upload
<1>3. Fresh' BY DEF IInv, TypeOK, DataTypes, Upload, Fresh
<1>4. Versioned' BY DEF IInv, TypeOK, DataTypes, Upload, Versioned
<1>5. JobBound' BY DEF IInv, TypeOK, DataTypes, Upload, JobBound, Fresh
<1>6. Staged' BY DEF IInv, TypeOK, DataTypes, Upload, Staged
<1>7. Judged' BY DEF IInv, TypeOK, DataTypes, Upload, Judged
<1>8. SettledUploadIsBound' BY DEF IInv, TypeOK, DataTypes, Upload, SettledUploadIsBound, Fresh, Approval
<1>9. RestIsClean' BY DEF IInv, TypeOK, DataTypes, Upload, RestIsClean
<1>10. LoadBound' BY DEF IInv, TypeOK, DataTypes, Upload, LoadBound
<1> QED BY <1>1, <1>2, <1>3, <1>4, <1>5, <1>6, <1>7, <1>8, <1>9, <1>10 DEF IInv, TypeOK

(* Overwrite preserves the inductive invariant. *)
LEMMA OverwriteStep ==
    ASSUME IInv, NEW p \in Paths, NEW c \in Contents, Overwrite(p, c)
    PROVE  IInv'
<1>1. FlagTypes' BY DEF IInv, TypeOK, FlagTypes, Overwrite
<1>2. DataTypes' BY DEF IInv, TypeOK, DataTypes, Overwrite
<1>3. Fresh' BY SMTT(30) DEF IInv, TypeOK, DataTypes, Overwrite, Fresh
<1>4. Versioned' BY DEF IInv, TypeOK, DataTypes, Overwrite, Versioned
<1>5. JobBound' BY DEF IInv, TypeOK, DataTypes, Overwrite, JobBound, Fresh
<1>6. Staged' BY DEF IInv, TypeOK, DataTypes, Overwrite, Staged
<1>7. Judged' BY DEF IInv, TypeOK, DataTypes, Overwrite, Judged
<1>8. SettledUploadIsBound' BY DEF IInv, TypeOK, DataTypes, Overwrite, SettledUploadIsBound, Fresh, Approval
<1>9. RestIsClean' BY DEF IInv, TypeOK, DataTypes, Overwrite, RestIsClean
<1>10. LoadBound' BY DEF IInv, TypeOK, DataTypes, Overwrite, LoadBound
<1> QED BY <1>1, <1>2, <1>3, <1>4, <1>5, <1>6, <1>7, <1>8, <1>9, <1>10 DEF IInv, TypeOK

(* Delete preserves the inductive invariant. *)
LEMMA DeleteStep ==
    ASSUME IInv, NEW p \in Paths, Delete(p)
    PROVE  IInv'
<1>1. FlagTypes' BY DEF IInv, TypeOK, FlagTypes, Delete
<1>2. DataTypes' BY DEF IInv, TypeOK, DataTypes, Delete
<1>3. Fresh' BY DEF IInv, TypeOK, DataTypes, Delete, Fresh
<1>4. Versioned' BY DEF IInv, TypeOK, DataTypes, Delete, Versioned
<1>5. JobBound' BY DEF IInv, TypeOK, DataTypes, Delete, JobBound
<1>6. Staged' BY DEF IInv, TypeOK, DataTypes, Delete, Staged
<1>7. Judged' BY DEF IInv, TypeOK, DataTypes, Delete, Judged
<1>8. SettledUploadIsBound' BY DEF IInv, TypeOK, DataTypes, Delete, SettledUploadIsBound
<1>9. RestIsClean' BY DEF IInv, TypeOK, DataTypes, Delete, RestIsClean
<1>10. LoadBound' BY DEF IInv, TypeOK, DataTypes, Delete, LoadBound
<1> QED BY <1>1, <1>2, <1>3, <1>4, <1>5, <1>6, <1>7, <1>8, <1>9, <1>10 DEF IInv, TypeOK

(* InstallPolicy preserves the inductive invariant. *)
LEMMA InstallPolicyStep ==
    ASSUME IInv, InstallPolicy
    PROVE  IInv'
<1>1. FlagTypes' BY DEF IInv, TypeOK, FlagTypes, InstallPolicy
<1>2. DataTypes' BY DEF IInv, TypeOK, DataTypes, InstallPolicy
<1>3. Fresh' BY DEF IInv, TypeOK, DataTypes, InstallPolicy, Fresh
<1>4. Versioned' BY DEF IInv, TypeOK, DataTypes, InstallPolicy, Versioned
<1>5. JobBound' BY DEF IInv, TypeOK, DataTypes, InstallPolicy, JobBound
<1>6. Staged' BY DEF IInv, TypeOK, DataTypes, InstallPolicy, Staged
<1>7. Judged' BY DEF IInv, TypeOK, DataTypes, InstallPolicy, Judged, Approval
<1>8. SettledUploadIsBound' BY DEF IInv, TypeOK, DataTypes, InstallPolicy, SettledUploadIsBound
<1>9. RestIsClean' BY DEF IInv, TypeOK, DataTypes, InstallPolicy, RestIsClean
<1>10. LoadBound' BY DEF IInv, TypeOK, DataTypes, InstallPolicy, LoadBound
<1> QED BY <1>1, <1>2, <1>3, <1>4, <1>5, <1>6, <1>7, <1>8, <1>9, <1>10 DEF IInv, TypeOK

(* PreflightRevoke preserves the inductive invariant. *)
LEMMA PreflightRevokeStep ==
    ASSUME IInv, PreflightRevoke
    PROVE  IInv'
<1>1. FlagTypes' BY DEF IInv, TypeOK, FlagTypes, PreflightRevoke
<1>2. DataTypes' BY DEF IInv, TypeOK, DataTypes, PreflightRevoke
<1>3. Fresh' BY DEF IInv, TypeOK, DataTypes, PreflightRevoke, Fresh
<1>4. Versioned' BY DEF IInv, TypeOK, DataTypes, PreflightRevoke, Versioned
<1>5. JobBound' BY DEF IInv, TypeOK, DataTypes, PreflightRevoke, JobBound
<1>6. Staged' BY DEF IInv, TypeOK, DataTypes, PreflightRevoke, Staged
<1>7. Judged' BY DEF IInv, TypeOK, DataTypes, PreflightRevoke, Judged
<1>8. SettledUploadIsBound' BY DEF IInv, TypeOK, DataTypes, PreflightRevoke, SettledUploadIsBound
<1>9. RestIsClean' BY DEF IInv, TypeOK, DataTypes, PreflightRevoke, RestIsClean
<1>10. LoadBound' BY DEF IInv, TypeOK, DataTypes, PreflightRevoke, LoadBound
<1> QED BY <1>1, <1>2, <1>3, <1>4, <1>5, <1>6, <1>7, <1>8, <1>9, <1>10 DEF IInv, TypeOK

(* PreflightPrune preserves the inductive invariant. *)
LEMMA PreflightPruneStep ==
    ASSUME IInv, PreflightPrune
    PROVE  IInv'
<1>1. FlagTypes' BY DEF IInv, TypeOK, FlagTypes, PreflightPrune
<1>2. DataTypes' BY DEF IInv, TypeOK, DataTypes, PreflightPrune
<1>3. Fresh' BY DEF IInv, TypeOK, DataTypes, PreflightPrune, Fresh
<1>4. Versioned' BY DEF IInv, TypeOK, DataTypes, PreflightPrune, Versioned
<1>5. JobBound' BY DEF IInv, TypeOK, DataTypes, PreflightPrune, JobBound
<1>6. Staged' BY DEF IInv, TypeOK, DataTypes, PreflightPrune, Staged
<1>7. Judged' BY DEF IInv, TypeOK, DataTypes, PreflightPrune, Judged
<1>8. SettledUploadIsBound' BY DEF IInv, TypeOK, DataTypes, PreflightPrune, SettledUploadIsBound
<1>9. RestIsClean' BY DEF IInv, TypeOK, DataTypes, PreflightPrune, RestIsClean
<1>10. LoadBound' BY DEF IInv, TypeOK, DataTypes, PreflightPrune, LoadBound
<1> QED BY <1>1, <1>2, <1>3, <1>4, <1>5, <1>6, <1>7, <1>8, <1>9, <1>10 DEF IInv, TypeOK

(* Construct preserves the inductive invariant. *)
LEMMA ConstructStep ==
    ASSUME IInv, Construct
    PROVE  IInv'
<1>1. FlagTypes' BY DEF IInv, TypeOK, FlagTypes, Construct
<1>2. DataTypes' BY DEF IInv, TypeOK, DataTypes, Construct
<1>3. Fresh' BY DEF IInv, TypeOK, DataTypes, Construct, Fresh
<1>4. Versioned' BY DEF IInv, TypeOK, DataTypes, Construct, Versioned
<1>5. JobBound' BY DEF IInv, TypeOK, DataTypes, Construct, JobBound
<1>6. Staged' BY DEF IInv, TypeOK, DataTypes, Construct, Staged
<1>7. Judged' BY DEF IInv, TypeOK, DataTypes, Construct, Judged
<1>8. SettledUploadIsBound' BY DEF IInv, TypeOK, DataTypes, Construct, SettledUploadIsBound
<1>9. RestIsClean' BY DEF IInv, TypeOK, DataTypes, Construct, RestIsClean, Judged
<1>10. LoadBound' BY DEF IInv, TypeOK, DataTypes, Construct, LoadBound
<1> QED BY <1>1, <1>2, <1>3, <1>4, <1>5, <1>6, <1>7, <1>8, <1>9, <1>10 DEF IInv, TypeOK

(* Crash preserves the inductive invariant. *)
LEMMA CrashStep ==
    ASSUME IInv, Crash
    PROVE  IInv'
<1>1. FlagTypes' BY DEF IInv, TypeOK, FlagTypes, Crash
<1>2. DataTypes' BY DEF IInv, TypeOK, DataTypes, Crash
<1>3. Fresh' BY DEF IInv, TypeOK, DataTypes, Crash, Fresh
<1>4. Versioned' BY DEF IInv, TypeOK, DataTypes, Crash, Versioned
<1>5. JobBound' BY DEF IInv, TypeOK, DataTypes, Crash, JobBound
<1>6. Staged' BY DEF IInv, TypeOK, DataTypes, Crash, Staged
<1>7. Judged' BY DEF IInv, TypeOK, DataTypes, Crash, Judged
<1>8. SettledUploadIsBound' BY DEF IInv, TypeOK, DataTypes, Crash, SettledUploadIsBound
<1>9. RestIsClean' BY DEF IInv, TypeOK, DataTypes, Crash, RestIsClean
<1>10. LoadBound' BY DEF IInv, TypeOK, DataTypes, Crash, LoadBound
<1> QED BY <1>1, <1>2, <1>3, <1>4, <1>5, <1>6, <1>7, <1>8, <1>9, <1>10 DEF IInv, TypeOK

(* ScanStart preserves the inductive invariant. *)
LEMMA ScanStartStep ==
    ASSUME IInv, ScanStart
    PROVE  IInv'
<1>1. FlagTypes' BY DEF IInv, TypeOK, FlagTypes, ScanStart
<1>2. DataTypes' BY DEF IInv, TypeOK, DataTypes, ScanStart
<1>3. Fresh' BY DEF IInv, TypeOK, DataTypes, ScanStart, Fresh
<1>4. Versioned' BY DEF IInv, TypeOK, DataTypes, ScanStart, Versioned
<1>5. JobBound' BY DEF IInv, TypeOK, DataTypes, ScanStart, JobBound
<1>6. Staged' BY DEF IInv, TypeOK, DataTypes, ScanStart, Staged
<1>7. Judged' BY DEF IInv, TypeOK, DataTypes, ScanStart, Judged
<1>8. SettledUploadIsBound' BY DEF IInv, TypeOK, DataTypes, ScanStart, SettledUploadIsBound
<1>9. RestIsClean' BY DEF IInv, TypeOK, DataTypes, ScanStart, RestIsClean
<1>10. LoadBound' BY DEF IInv, TypeOK, DataTypes, ScanStart, LoadBound
<1> QED BY <1>1, <1>2, <1>3, <1>4, <1>5, <1>6, <1>7, <1>8, <1>9, <1>10 DEF IInv, TypeOK

(* ScanList preserves the inductive invariant. *)
LEMMA ScanListStep ==
    ASSUME IInv, ScanList
    PROVE  IInv'
<1>1. FlagTypes' BY DEF IInv, TypeOK, FlagTypes, ScanList
<1> USE DEF IInv, TypeOK, DataTypes
<1>a. /\ approvals' \subseteq approvals
      /\ spool' \subseteq spool
      /\ temp' = NoContent
      /\ pc' \in DaemonPoints
      /\ todo' \subseteq Paths
  BY DEF ScanList, prune_unreferenced_spool, revoke_all, Present, DaemonPoints
<1>b. observed' \in [Paths -> Fingerprints] /\ processed' \in [Paths -> Fingerprints]
  <2>1. 0 \in Fingerprints BY AdmissionAssumption DEF Fingerprints
  <2> QED BY <2>1 DEF ScanList, dicts
<1>c. UNCHANGED <<uploads, policy_file, crashes, process, source, klipper>> BY DEF ScanList
<1>2. DataTypes'
  BY <1>a, <1>b, <1>c DEF uploads, process, source, klipper
<1>3. Fresh' BY DEF IInv, TypeOK, DataTypes, ScanList, Fresh
<1>4. Versioned' BY DEF IInv, TypeOK, DataTypes, ScanList, Versioned
<1>5. JobBound' BY DEF IInv, TypeOK, DataTypes, ScanList, JobBound
<1>6. Staged' BY DEF IInv, TypeOK, DataTypes, ScanList, Staged
<1>7. Judged' BY DEF IInv, TypeOK, DataTypes, ScanList, Judged
<1>8. SettledUploadIsBound' BY DEF IInv, TypeOK, DataTypes, ScanList, SettledUploadIsBound
<1>9. RestIsClean' BY DEF IInv, TypeOK, DataTypes, ScanList, RestIsClean
<1>10. LoadBound' BY DEF IInv, TypeOK, DataTypes, ScanList, LoadBound
<1> QED BY <1>1, <1>2, <1>3, <1>4, <1>5, <1>6, <1>7, <1>8, <1>9, <1>10 DEF IInv, TypeOK

(* VisitGone preserves the inductive invariant. *)
LEMMA VisitGoneStep ==
    ASSUME IInv, NEW p \in todo, pc = "walk", VisitFrame, VisitGone(p)
    PROVE  IInv'
<1>1. FlagTypes' BY DEF IInv, TypeOK, FlagTypes, VisitGone, VisitFrame
<1>2. DataTypes' BY DEF IInv, TypeOK, DataTypes, VisitGone, VisitFrame
<1>3. Fresh' BY DEF IInv, TypeOK, DataTypes, VisitGone, Fresh, VisitFrame
<1>4. Versioned' BY DEF IInv, TypeOK, DataTypes, VisitGone, Versioned, VisitFrame
<1>5. JobBound' BY DEF IInv, TypeOK, DataTypes, VisitGone, JobBound, VisitFrame
<1>6. Staged' BY DEF IInv, TypeOK, DataTypes, VisitGone, Staged, VisitFrame
<1>7. Judged' BY DEF IInv, TypeOK, DataTypes, VisitGone, Judged, VisitFrame
<1>8. SettledUploadIsBound' BY DEF IInv, TypeOK, DataTypes, VisitGone, SettledUploadIsBound, VisitFrame
<1>9. RestIsClean' BY DEF IInv, TypeOK, DataTypes, VisitGone, RestIsClean, VisitFrame
<1>10. LoadBound' BY DEF IInv, TypeOK, DataTypes, VisitGone, LoadBound, VisitFrame
<1> QED BY <1>1, <1>2, <1>3, <1>4, <1>5, <1>6, <1>7, <1>8, <1>9, <1>10 DEF IInv, TypeOK

(* VisitNew preserves the inductive invariant. *)
LEMMA VisitNewStep ==
    ASSUME IInv, NEW p \in todo, pc = "walk", VisitFrame, VisitNew(p)
    PROVE  IInv'
<1>1. FlagTypes' BY DEF IInv, TypeOK, FlagTypes, VisitNew, VisitFrame
<1>2. DataTypes' BY DEF IInv, TypeOK, DataTypes, VisitNew, VisitFrame
<1>3. Fresh' BY DEF IInv, TypeOK, DataTypes, VisitNew, Fresh, VisitFrame
<1>4. Versioned' BY DEF IInv, TypeOK, DataTypes, VisitNew, Versioned, VisitFrame
<1>5. JobBound' BY DEF IInv, TypeOK, DataTypes, VisitNew, JobBound, VisitFrame
<1>6. Staged' BY DEF IInv, TypeOK, DataTypes, VisitNew, Staged, VisitFrame
<1>7. Judged' BY DEF IInv, TypeOK, DataTypes, VisitNew, Judged, VisitFrame
<1>8. SettledUploadIsBound' BY DEF IInv, TypeOK, DataTypes, VisitNew, SettledUploadIsBound, VisitFrame
<1>9. RestIsClean' BY DEF IInv, TypeOK, DataTypes, VisitNew, RestIsClean, VisitFrame
<1>10. LoadBound' BY DEF IInv, TypeOK, DataTypes, VisitNew, LoadBound, VisitFrame
<1> QED BY <1>1, <1>2, <1>3, <1>4, <1>5, <1>6, <1>7, <1>8, <1>9, <1>10 DEF IInv, TypeOK

(* VisitProcessed preserves the inductive invariant. *)
LEMMA VisitProcessedStep ==
    ASSUME IInv, NEW p \in todo, pc = "walk", VisitFrame, VisitProcessed(p)
    PROVE  IInv'
<1>1. FlagTypes' BY DEF IInv, TypeOK, FlagTypes, VisitProcessed, VisitFrame
<1>2. DataTypes' BY DEF IInv, TypeOK, DataTypes, VisitProcessed, VisitFrame
<1>3. Fresh' BY DEF IInv, TypeOK, DataTypes, VisitProcessed, Fresh, VisitFrame
<1>4. Versioned' BY DEF IInv, TypeOK, DataTypes, VisitProcessed, Versioned, VisitFrame
<1>5. JobBound' BY DEF IInv, TypeOK, DataTypes, VisitProcessed, JobBound, VisitFrame
<1>6. Staged' BY DEF IInv, TypeOK, DataTypes, VisitProcessed, Staged, VisitFrame
<1>7. Judged' BY DEF IInv, TypeOK, DataTypes, VisitProcessed, Judged, VisitFrame
<1>8. SettledUploadIsBound' BY DEF IInv, TypeOK, DataTypes, VisitProcessed, SettledUploadIsBound, VisitFrame
<1>9. RestIsClean' BY DEF IInv, TypeOK, DataTypes, VisitProcessed, RestIsClean, VisitFrame
<1>10. LoadBound' BY DEF IInv, TypeOK, DataTypes, VisitProcessed, LoadBound, VisitFrame
<1> QED BY <1>1, <1>2, <1>3, <1>4, <1>5, <1>6, <1>7, <1>8, <1>9, <1>10 DEF IInv, TypeOK

(* VisitStable preserves the inductive invariant. *)
LEMMA VisitStableStep ==
    ASSUME IInv, NEW p \in todo, pc = "walk", VisitFrame, VisitStable(p)
    PROVE  IInv'
<1>1. FlagTypes' BY DEF IInv, TypeOK, FlagTypes, VisitStable, VisitFrame
<1>2. DataTypes' BY DEF IInv, TypeOK, DataTypes, VisitStable, VisitFrame
<1>3. Fresh' BY DEF IInv, TypeOK, DataTypes, VisitStable, Fresh, VisitFrame
<1>4. Versioned' BY DEF IInv, TypeOK, DataTypes, VisitStable, Versioned, VisitFrame
<1>5. JobBound' BY DEF IInv, TypeOK, DataTypes, VisitStable, JobBound, VisitFrame
<1>6. Staged' BY DEF IInv, TypeOK, DataTypes, VisitStable, Staged, VisitFrame
<1>7. Judged' BY DEF IInv, TypeOK, DataTypes, VisitStable, Judged, VisitFrame
<1>8. SettledUploadIsBound' BY DEF IInv, TypeOK, DataTypes, VisitStable, SettledUploadIsBound, VisitFrame
<1>9. RestIsClean' BY DEF IInv, TypeOK, DataTypes, VisitStable, RestIsClean, VisitFrame
<1>10. LoadBound' BY DEF IInv, TypeOK, DataTypes, VisitStable, LoadBound, VisitFrame
<1> QED BY <1>1, <1>2, <1>3, <1>4, <1>5, <1>6, <1>7, <1>8, <1>9, <1>10 DEF IInv, TypeOK

(* WalkDone preserves the inductive invariant. *)
LEMMA WalkDoneStep ==
    ASSUME IInv, WalkDone
    PROVE  IInv'
<1>1. FlagTypes' BY DEF IInv, TypeOK, FlagTypes, WalkDone
<1>2. DataTypes' BY DEF IInv, TypeOK, DataTypes, WalkDone
<1>3. Fresh' BY DEF IInv, TypeOK, DataTypes, WalkDone, Fresh
<1>4. Versioned' BY DEF IInv, TypeOK, DataTypes, WalkDone, Versioned
<1>5. JobBound' BY DEF IInv, TypeOK, DataTypes, WalkDone, JobBound
<1>6. Staged' BY DEF IInv, TypeOK, DataTypes, WalkDone, Staged
<1>7. Judged' BY DEF IInv, TypeOK, DataTypes, WalkDone, Judged
<1>8. SettledUploadIsBound' BY DEF IInv, TypeOK, DataTypes, WalkDone, SettledUploadIsBound
<1>9. RestIsClean' BY DEF IInv, TypeOK, DataTypes, WalkDone, RestIsClean
<1>10. LoadBound' BY DEF IInv, TypeOK, DataTypes, WalkDone, LoadBound
<1> QED BY <1>1, <1>2, <1>3, <1>4, <1>5, <1>6, <1>7, <1>8, <1>9, <1>10 DEF IInv, TypeOK

(* Finish preserves the inductive invariant. *)
LEMMA FinishStep ==
    ASSUME IInv, Finish
    PROVE  IInv'
<1>1. FlagTypes' BY DEF IInv, TypeOK, FlagTypes, Finish
<1>2. DataTypes' BY DEF IInv, TypeOK, DataTypes, Finish
<1>3. Fresh' BY DEF IInv, TypeOK, DataTypes, Finish, Fresh
<1>4. Versioned' BY DEF IInv, TypeOK, DataTypes, Finish, Versioned
<1>5. JobBound' BY DEF IInv, TypeOK, DataTypes, Finish, JobBound
<1>6. Staged' BY DEF IInv, TypeOK, DataTypes, Finish, Staged
<1>7. Judged' BY DEF IInv, TypeOK, DataTypes, Finish, Judged
<1>8. SettledUploadIsBound' BY DEF IInv, TypeOK, DataTypes, Finish, SettledUploadIsBound
<1>9. RestIsClean' BY DEF IInv, TypeOK, DataTypes, Finish, RestIsClean, Judged
<1>10. LoadBound' BY DEF IInv, TypeOK, DataTypes, Finish, LoadBound
<1> QED BY <1>1, <1>2, <1>3, <1>4, <1>5, <1>6, <1>7, <1>8, <1>9, <1>10 DEF IInv, TypeOK

(* OpenSource preserves the inductive invariant. *)
LEMMA OpenSourceStep ==
    ASSUME IInv, OpenSource
    PROVE  IInv'
<1>1. FlagTypes' BY DEF IInv, TypeOK, FlagTypes, OpenSource
<1>2. DataTypes' BY DEF IInv, TypeOK, DataTypes, OpenSource, JobBound
<1>3. Fresh' BY DEF IInv, TypeOK, DataTypes, OpenSource, Fresh
<1>4. Versioned' BY DEF IInv, TypeOK, DataTypes, OpenSource, Versioned
<1>5. JobBound' BY DEF IInv, TypeOK, DataTypes, OpenSource, JobBound
<1>6. Staged' BY DEF IInv, TypeOK, DataTypes, OpenSource, Staged
<1>7. Judged' BY DEF IInv, TypeOK, DataTypes, OpenSource, Judged
<1>8. SettledUploadIsBound' BY DEF IInv, TypeOK, DataTypes, OpenSource, SettledUploadIsBound
<1>9. RestIsClean' BY DEF IInv, TypeOK, DataTypes, OpenSource, RestIsClean
<1>10. LoadBound' BY DEF IInv, TypeOK, DataTypes, OpenSource, LoadBound
<1> QED BY <1>1, <1>2, <1>3, <1>4, <1>5, <1>6, <1>7, <1>8, <1>9, <1>10 DEF IInv, TypeOK

(* Copy preserves the inductive invariant. *)
LEMMA CopyStep ==
    ASSUME IInv, Copy
    PROVE  IInv'
<1>1. FlagTypes' BY DEF IInv, TypeOK, FlagTypes, Copy
<1>2. DataTypes' BY DEF IInv, TypeOK, DataTypes, Copy
<1>3. Fresh' BY DEF IInv, TypeOK, DataTypes, Copy, Fresh
<1>4. Versioned' BY DEF IInv, TypeOK, DataTypes, Copy, Versioned
<1>5. JobBound' BY DEF IInv, TypeOK, DataTypes, Copy, JobBound
<1>6. Staged' BY DEF IInv, TypeOK, DataTypes, Copy, Staged
<1>7. Judged' BY DEF IInv, TypeOK, DataTypes, Copy, Judged
<1>8. SettledUploadIsBound' BY DEF IInv, TypeOK, DataTypes, Copy, SettledUploadIsBound
<1>9. RestIsClean' BY DEF IInv, TypeOK, DataTypes, Copy, RestIsClean
<1>10. LoadBound' BY DEF IInv, TypeOK, DataTypes, Copy, LoadBound
<1> QED BY <1>1, <1>2, <1>3, <1>4, <1>5, <1>6, <1>7, <1>8, <1>9, <1>10 DEF IInv, TypeOK

(* Scan preserves the inductive invariant. *)
LEMMA ScanStep ==
    ASSUME IInv, Scan
    PROVE  IInv'
<1>1. FlagTypes' BY DEF IInv, TypeOK, FlagTypes, Scan
<1>2. DataTypes' BY DEF IInv, TypeOK, DataTypes, Scan
<1>3. Fresh' BY DEF IInv, TypeOK, DataTypes, Scan, Fresh
<1>4. Versioned' BY DEF IInv, TypeOK, DataTypes, Scan, Versioned
<1>5. JobBound' BY DEF IInv, TypeOK, DataTypes, Scan, JobBound
<1>6. Staged' BY DEF IInv, TypeOK, DataTypes, Scan, Staged, JobBound, Versioned
<1>7. Judged' BY DEF IInv, TypeOK, DataTypes, Scan, Judged
<1>8. SettledUploadIsBound' BY DEF IInv, TypeOK, DataTypes, Scan, SettledUploadIsBound
<1>9. RestIsClean' BY DEF IInv, TypeOK, DataTypes, Scan, RestIsClean
<1>10. LoadBound' BY DEF IInv, TypeOK, DataTypes, Scan, LoadBound
<1> QED BY <1>1, <1>2, <1>3, <1>4, <1>5, <1>6, <1>7, <1>8, <1>9, <1>10 DEF IInv, TypeOK

(* Commit preserves the inductive invariant. *)
LEMMA CommitStep ==
    ASSUME IInv, Commit
    PROVE  IInv'
<1>1. FlagTypes' BY DEF IInv, TypeOK, FlagTypes, Commit
<1>2. DataTypes' BY DEF IInv, TypeOK, DataTypes, Commit, Staged, JobBound
<1>3. Fresh' BY DEF IInv, TypeOK, DataTypes, Commit, Fresh
<1>4. Versioned' BY DEF IInv, TypeOK, DataTypes, Commit, Versioned
<1>5. JobBound' BY DEF IInv, TypeOK, DataTypes, Commit, JobBound
<1>6. Staged' BY DEF IInv, TypeOK, DataTypes, Commit, Staged, Judged, JobBound
<1>7. Judged' BY DEF IInv, TypeOK, DataTypes, Commit, Judged
<1>8. SettledUploadIsBound' BY DEF IInv, TypeOK, DataTypes, Commit, SettledUploadIsBound
<1>9. RestIsClean' BY DEF IInv, TypeOK, DataTypes, Commit, RestIsClean
<1>10. LoadBound' BY DEF IInv, TypeOK, DataTypes, Commit, LoadBound
<1> QED BY <1>1, <1>2, <1>3, <1>4, <1>5, <1>6, <1>7, <1>8, <1>9, <1>10 DEF IInv, TypeOK

(* UnlinkTemporary preserves the inductive invariant. *)
LEMMA UnlinkTemporaryStep ==
    ASSUME IInv, UnlinkTemporary
    PROVE  IInv'
<1>1. FlagTypes' BY DEF IInv, TypeOK, FlagTypes, UnlinkTemporary
<1>2. DataTypes' BY DEF IInv, TypeOK, DataTypes, UnlinkTemporary
<1>3. Fresh' BY DEF IInv, TypeOK, DataTypes, UnlinkTemporary, Fresh
<1>4. Versioned' BY DEF IInv, TypeOK, DataTypes, UnlinkTemporary, Versioned
<1>5. JobBound' BY DEF IInv, TypeOK, DataTypes, UnlinkTemporary, JobBound
<1>6. Staged' BY DEF IInv, TypeOK, DataTypes, UnlinkTemporary, Staged
<1>7. Judged' BY DEF IInv, TypeOK, DataTypes, UnlinkTemporary, Judged
<1>8. SettledUploadIsBound' BY DEF IInv, TypeOK, DataTypes, UnlinkTemporary, SettledUploadIsBound
<1>9. RestIsClean' BY DEF IInv, TypeOK, DataTypes, UnlinkTemporary, RestIsClean
<1>10. LoadBound' BY DEF IInv, TypeOK, DataTypes, UnlinkTemporary, LoadBound
<1> QED BY <1>1, <1>2, <1>3, <1>4, <1>5, <1>6, <1>7, <1>8, <1>9, <1>10 DEF IInv, TypeOK

(* Approve preserves the inductive invariant. *)
LEMMA ApproveStep ==
    ASSUME IInv, Approve
    PROVE  IInv'
<1>1. FlagTypes' BY DEF IInv, TypeOK, FlagTypes, Approve
<1>2. DataTypes' BY DEF IInv, TypeOK, DataTypes, Approve, Staged, JobBound, Approval
<1>3. Fresh' BY DEF IInv, TypeOK, DataTypes, Approve, Fresh
<1>4. Versioned' BY DEF IInv, TypeOK, DataTypes, Approve, Versioned
<1>5. JobBound' BY DEF IInv, TypeOK, DataTypes, Approve, JobBound
<1>6. Staged' BY DEF IInv, TypeOK, DataTypes, Approve, Staged
<1>7. Judged' BY DEF IInv, TypeOK, DataTypes, Approve, Judged, Staged, JobBound, Versioned, Approval
<1>8. SettledUploadIsBound' BY DEF IInv, TypeOK, DataTypes, Approve, SettledUploadIsBound, JobBound, Approval
<1>9. RestIsClean' BY DEF IInv, TypeOK, DataTypes, Approve, RestIsClean
<1>10. LoadBound' BY DEF IInv, TypeOK, DataTypes, Approve, LoadBound
<1> QED BY <1>1, <1>2, <1>3, <1>4, <1>5, <1>6, <1>7, <1>8, <1>9, <1>10 DEF IInv, TypeOK

(* Recheck preserves the inductive invariant. *)
LEMMA RecheckStep ==
    ASSUME IInv, Recheck
    PROVE  IInv'
<1>1. FlagTypes' BY DEF IInv, TypeOK, FlagTypes, Recheck
<1>2. DataTypes'
  <2>1. CASE fp[job] # seen BY <2>1 DEF IInv, TypeOK, DataTypes, Recheck, JobBound
  <2>2. CASE fp[job] = seen
    <3>1. approvals' \subseteq approvals BY <2>2 DEF Recheck
    <3>2. /\ processed' = [processed EXCEPT ![job] = seen]
          /\ observed' = observed
          BY <2>2 DEF Recheck
    <3>3. /\ pc = "recheck"
          /\ todo' = todo \ {job} /\ pc' = "walk" /\ EndJob
          /\ UNCHANGED <<uploads, policy_file, crashes, process, spool, temp, linked, klipper>>
          BY DEF Recheck
    <3> QED BY <3>1, <3>2, <3>3 DEF IInv, TypeOK, DataTypes, JobBound
  <2> QED BY <2>1, <2>2
<1>3. Fresh'
  <2>1. CASE fp[job] # seen BY <2>1 DEF IInv, TypeOK, DataTypes, Recheck, JobBound, Fresh
  <2>2. CASE fp[job] = seen
    <3>1. approvals' \subseteq approvals BY <2>2 DEF Recheck
    <3>2. /\ processed' = [processed EXCEPT ![job] = seen]
          /\ observed' = observed
          BY <2>2 DEF Recheck
    <3>3. /\ pc = "recheck"
          /\ todo' = todo \ {job} /\ pc' = "walk" /\ EndJob
          /\ UNCHANGED <<uploads, policy_file, crashes, process, spool, temp, linked, klipper>>
          BY DEF Recheck
    <3> QED BY <3>1, <3>2, <3>3 DEF IInv, TypeOK, DataTypes, JobBound, Fresh
  <2> QED BY <2>1, <2>2
<1>4. Versioned' BY DEF IInv, TypeOK, DataTypes, Recheck, Versioned
<1>5. JobBound' BY DEF IInv, TypeOK, DataTypes, Recheck, JobBound
<1>6. Staged' BY DEF IInv, TypeOK, DataTypes, Recheck, Staged
<1>7. Judged' BY DEF IInv, TypeOK, DataTypes, Recheck, Judged
<1>8. SettledUploadIsBound' BY DEF IInv, TypeOK, DataTypes, Recheck, SettledUploadIsBound, JobBound, Approval
<1>9. RestIsClean' BY DEF IInv, TypeOK, DataTypes, Recheck, RestIsClean
<1>10. LoadBound' BY DEF IInv, TypeOK, DataTypes, Recheck, LoadBound
<1> QED BY <1>1, <1>2, <1>3, <1>4, <1>5, <1>6, <1>7, <1>8, <1>9, <1>10 DEF IInv, TypeOK

(* AdmitFailed preserves the inductive invariant. *)
LEMMA AdmitFailedStep ==
    ASSUME IInv, AdmitFailed
    PROVE  IInv'
<1>1. FlagTypes' BY DEF IInv, TypeOK, FlagTypes, AdmitFailed
<1>2. DataTypes' BY DEF IInv, TypeOK, DataTypes, AdmitFailed, JobBound
<1>3. Fresh' BY DEF IInv, TypeOK, DataTypes, AdmitFailed, Fresh
<1>4. Versioned' BY DEF IInv, TypeOK, DataTypes, AdmitFailed, Versioned
<1>5. JobBound' BY DEF IInv, TypeOK, DataTypes, AdmitFailed, JobBound
<1>6. Staged' BY DEF IInv, TypeOK, DataTypes, AdmitFailed, Staged
<1>7. Judged' BY DEF IInv, TypeOK, DataTypes, AdmitFailed, Judged
<1>8. SettledUploadIsBound' BY DEF IInv, TypeOK, DataTypes, AdmitFailed, SettledUploadIsBound
<1>9. RestIsClean' BY DEF IInv, TypeOK, DataTypes, AdmitFailed, RestIsClean
<1>10. LoadBound' BY DEF IInv, TypeOK, DataTypes, AdmitFailed, LoadBound
<1> QED BY <1>1, <1>2, <1>3, <1>4, <1>5, <1>6, <1>7, <1>8, <1>9, <1>10 DEF IInv, TypeOK

(* KlipperLoadPolicy preserves the inductive invariant. *)
LEMMA KlipperLoadPolicyStep ==
    ASSUME IInv, KlipperFrame, KlipperLoadPolicy
    PROVE  IInv'
<1>1. FlagTypes' BY DEF IInv, TypeOK, FlagTypes, KlipperLoadPolicy, KlipperFrame
<1>2. DataTypes' BY DEF IInv, TypeOK, DataTypes, KlipperLoadPolicy, KlipperFrame
<1>3. Fresh' BY DEF IInv, TypeOK, DataTypes, KlipperLoadPolicy, Fresh, KlipperFrame
<1>4. Versioned' BY DEF IInv, TypeOK, DataTypes, KlipperLoadPolicy, Versioned, KlipperFrame
<1>5. JobBound' BY DEF IInv, TypeOK, DataTypes, KlipperLoadPolicy, JobBound, KlipperFrame
<1>6. Staged' BY DEF IInv, TypeOK, DataTypes, KlipperLoadPolicy, Staged, KlipperFrame
<1>7. Judged' BY DEF IInv, TypeOK, DataTypes, KlipperLoadPolicy, Judged, KlipperFrame
<1>8. SettledUploadIsBound' BY DEF IInv, TypeOK, DataTypes, KlipperLoadPolicy, SettledUploadIsBound, KlipperFrame
<1>9. RestIsClean' BY DEF IInv, TypeOK, DataTypes, KlipperLoadPolicy, RestIsClean, KlipperFrame
<1>10. LoadBound' BY DEF IInv, TypeOK, DataTypes, KlipperLoadPolicy, LoadBound, KlipperFrame
<1> QED BY <1>1, <1>2, <1>3, <1>4, <1>5, <1>6, <1>7, <1>8, <1>9, <1>10 DEF IInv, TypeOK

(* KlipperConnect preserves the inductive invariant. *)
LEMMA KlipperConnectStep ==
    ASSUME IInv, KlipperFrame, KlipperConnect
    PROVE  IInv'
<1>1. FlagTypes' BY DEF IInv, TypeOK, FlagTypes, KlipperConnect, KlipperFrame
<1>2. DataTypes' BY DEF IInv, TypeOK, DataTypes, KlipperConnect, KlipperFrame
<1>3. Fresh' BY DEF IInv, TypeOK, DataTypes, KlipperConnect, Fresh, KlipperFrame
<1>4. Versioned' BY DEF IInv, TypeOK, DataTypes, KlipperConnect, Versioned, KlipperFrame
<1>5. JobBound' BY DEF IInv, TypeOK, DataTypes, KlipperConnect, JobBound, KlipperFrame
<1>6. Staged' BY DEF IInv, TypeOK, DataTypes, KlipperConnect, Staged, KlipperFrame
<1>7. Judged' BY DEF IInv, TypeOK, DataTypes, KlipperConnect, Judged, KlipperFrame
<1>8. SettledUploadIsBound' BY DEF IInv, TypeOK, DataTypes, KlipperConnect, SettledUploadIsBound, KlipperFrame
<1>9. RestIsClean' BY DEF IInv, TypeOK, DataTypes, KlipperConnect, RestIsClean, KlipperFrame
<1>10. LoadBound' BY DEF IInv, TypeOK, DataTypes, KlipperConnect, LoadBound, KlipperFrame
<1> QED BY <1>1, <1>2, <1>3, <1>4, <1>5, <1>6, <1>7, <1>8, <1>9, <1>10 DEF IInv, TypeOK

(* KlipperExit preserves the inductive invariant. *)
LEMMA KlipperExitStep ==
    ASSUME IInv, KlipperFrame, KlipperExit
    PROVE  IInv'
<1>1. FlagTypes' BY DEF IInv, TypeOK, FlagTypes, KlipperExit, KlipperFrame
<1>2. DataTypes' BY DEF IInv, TypeOK, DataTypes, KlipperExit, KlipperFrame
<1>3. Fresh' BY DEF IInv, TypeOK, DataTypes, KlipperExit, Fresh, KlipperFrame
<1>4. Versioned' BY DEF IInv, TypeOK, DataTypes, KlipperExit, Versioned, KlipperFrame
<1>5. JobBound' BY DEF IInv, TypeOK, DataTypes, KlipperExit, JobBound, KlipperFrame
<1>6. Staged' BY DEF IInv, TypeOK, DataTypes, KlipperExit, Staged, KlipperFrame
<1>7. Judged' BY DEF IInv, TypeOK, DataTypes, KlipperExit, Judged, KlipperFrame
<1>8. SettledUploadIsBound' BY DEF IInv, TypeOK, DataTypes, KlipperExit, SettledUploadIsBound, KlipperFrame
<1>9. RestIsClean' BY DEF IInv, TypeOK, DataTypes, KlipperExit, RestIsClean, KlipperFrame
<1>10. LoadBound' BY DEF IInv, TypeOK, DataTypes, KlipperExit, LoadBound, KlipperFrame
<1> QED BY <1>1, <1>2, <1>3, <1>4, <1>5, <1>6, <1>7, <1>8, <1>9, <1>10 DEF IInv, TypeOK

(* SourceIdentity preserves the inductive invariant. *)
LEMMA SourceIdentityStep ==
    ASSUME IInv, KlipperFrame, NEW p \in Paths, SourceIdentity(p)
    PROVE  IInv'
<1>1. FlagTypes' BY DEF IInv, TypeOK, FlagTypes, SourceIdentity, KlipperFrame
<1>2. DataTypes' BY DEF IInv, TypeOK, DataTypes, SourceIdentity, KlipperFrame
<1>3. Fresh' BY DEF IInv, TypeOK, DataTypes, SourceIdentity, Fresh, KlipperFrame
<1>4. Versioned' BY DEF IInv, TypeOK, DataTypes, SourceIdentity, Versioned, KlipperFrame
<1>5. JobBound' BY DEF IInv, TypeOK, DataTypes, SourceIdentity, JobBound, KlipperFrame
<1>6. Staged' BY DEF IInv, TypeOK, DataTypes, SourceIdentity, Staged, KlipperFrame
<1>7. Judged' BY DEF IInv, TypeOK, DataTypes, SourceIdentity, Judged, KlipperFrame
<1>8. SettledUploadIsBound' BY DEF IInv, TypeOK, DataTypes, SourceIdentity, SettledUploadIsBound, KlipperFrame
<1>9. RestIsClean' BY DEF IInv, TypeOK, DataTypes, SourceIdentity, RestIsClean, KlipperFrame
<1>10. LoadBound' BY DEF IInv, TypeOK, DataTypes, SourceIdentity, LoadBound, KlipperFrame
<1> QED BY <1>1, <1>2, <1>3, <1>4, <1>5, <1>6, <1>7, <1>8, <1>9, <1>10 DEF IInv, TypeOK

(* ReadApproval preserves the inductive invariant. *)
LEMMA ReadApprovalStep ==
    ASSUME IInv, KlipperFrame, ReadApproval
    PROVE  IInv'
<1>1. FlagTypes' BY DEF IInv, TypeOK, FlagTypes, ReadApproval, KlipperFrame
<1>2. DataTypes' BY DEF IInv, TypeOK, DataTypes, ReadApproval, KlipperFrame
<1>3. Fresh' BY DEF IInv, TypeOK, DataTypes, ReadApproval, Fresh, KlipperFrame
<1>4. Versioned' BY DEF IInv, TypeOK, DataTypes, ReadApproval, Versioned, KlipperFrame
<1>5. JobBound' BY DEF IInv, TypeOK, DataTypes, ReadApproval, JobBound, KlipperFrame
<1>6. Staged' BY DEF IInv, TypeOK, DataTypes, ReadApproval, Staged, KlipperFrame
<1>7. Judged' BY DEF IInv, TypeOK, DataTypes, ReadApproval, Judged, KlipperFrame
<1>8. SettledUploadIsBound' BY DEF IInv, TypeOK, DataTypes, ReadApproval, SettledUploadIsBound, KlipperFrame
<1>9. RestIsClean' BY DEF IInv, TypeOK, DataTypes, ReadApproval, RestIsClean, KlipperFrame
<1>10. LoadBound' BY DEF IInv, TypeOK, DataTypes, ReadApproval, LoadBound, KlipperFrame, Judged, Approval
<1> QED BY <1>1, <1>2, <1>3, <1>4, <1>5, <1>6, <1>7, <1>8, <1>9, <1>10 DEF IInv, TypeOK

(* OpenSnapshot preserves the inductive invariant. *)
LEMMA OpenSnapshotStep ==
    ASSUME IInv, KlipperFrame, OpenSnapshot
    PROVE  IInv'
<1>1. FlagTypes' BY DEF IInv, TypeOK, FlagTypes, OpenSnapshot, KlipperFrame
<1>2. DataTypes' BY DEF IInv, TypeOK, DataTypes, OpenSnapshot, KlipperFrame
<1>3. Fresh' BY DEF IInv, TypeOK, DataTypes, OpenSnapshot, Fresh, KlipperFrame
<1>4. Versioned' BY DEF IInv, TypeOK, DataTypes, OpenSnapshot, Versioned, KlipperFrame
<1>5. JobBound' BY DEF IInv, TypeOK, DataTypes, OpenSnapshot, JobBound, KlipperFrame
<1>6. Staged' BY DEF IInv, TypeOK, DataTypes, OpenSnapshot, Staged, KlipperFrame
<1>7. Judged' BY DEF IInv, TypeOK, DataTypes, OpenSnapshot, Judged, KlipperFrame
<1>8. SettledUploadIsBound' BY DEF IInv, TypeOK, DataTypes, OpenSnapshot, SettledUploadIsBound, KlipperFrame
<1>9. RestIsClean' BY DEF IInv, TypeOK, DataTypes, OpenSnapshot, RestIsClean, KlipperFrame
<1>10. LoadBound' BY DEF IInv, TypeOK, DataTypes, OpenSnapshot, LoadBound, KlipperFrame
<1> QED BY <1>1, <1>2, <1>3, <1>4, <1>5, <1>6, <1>7, <1>8, <1>9, <1>10 DEF IInv, TypeOK

(* Every step, and every stuttering step, preserves the invariant.         *)
LEMMA NextIInv == IInv /\ [Next]_vars => IInv'
<1> SUFFICES ASSUME IInv, [Next]_vars PROVE IInv' OBVIOUS
<1>1. CASE Environment
  BY <1>1, UploadStep, OverwriteStep, DeleteStep, InstallPolicyStep DEF Environment
<1>2. CASE Daemon
  <2>1. CASE Visit
    <3>1. PICK p \in todo : VisitGone(p) \/ VisitNew(p) \/ VisitProcessed(p) \/ VisitStable(p)
      BY <2>1 DEF Visit
    <3>2. pc = "walk" /\ VisitFrame BY <2>1 DEF Visit, VisitFrame
    <3> QED BY <3>1, <3>2, VisitGoneStep, VisitNewStep, VisitProcessedStep, VisitStableStep
  <2> QED
    BY <1>2, <2>1, PreflightRevokeStep, PreflightPruneStep, ConstructStep, ScanStartStep,
       ScanListStep, WalkDoneStep, FinishStep, OpenSourceStep, CopyStep, ScanStep, CommitStep,
       UnlinkTemporaryStep, ApproveStep, RecheckStep, AdmitFailedStep DEF Daemon
<1>3. CASE Crash BY <1>3, CrashStep
<1>4. CASE Klipper
  <2>1. KlipperFrame BY <1>4 DEF Klipper, KlipperFrame
  <2> QED
    BY <1>4, <2>1, KlipperLoadPolicyStep, KlipperConnectStep, KlipperExitStep,
       SourceIdentityStep, ReadApprovalStep, OpenSnapshotStep DEF Klipper
<1>5. CASE UNCHANGED vars
  BY <1>5 DEF vars, IInv, TypeOK, FlagTypes, DataTypes, Fresh, Versioned, JobBound, Staged,
     Judged, SettledUploadIsBound, RestIsClean, LoadBound
<1> QED BY <1>1, <1>2, <1>3, <1>4, <1>5 DEF Next

(* The invariant the properties below follow from.                         *)
THEOREM AdmissionInvariant == Spec => []IInv
BY InitIInv, NextIInv, PTL DEF Spec

(* The state of the directories, the daemon and the loader keeps its type. *)
THEOREM AdmissionTypes == Spec => []TypeOK
<1>1. IInv => TypeOK BY DEF IInv
<1> QED BY <1>1, AdmissionInvariant, PTL

(* Whatever the daemon prunes, revokes or leaves behind in a crash, every  *)
(* approval record has its complete, singly linked snapshot.               *)
THEOREM SnapshotBehindApproval == Spec => []ApprovalHasSnapshot
<1>1. IInv => ApprovalHasSnapshot BY DEF IInv, Judged, Staged, ApprovalHasSnapshot
<1> QED BY <1>1, AdmissionInvariant, PTL

(* A path whose present file was settled has no approval of other bytes.   *)
THEOREM SettledBinding == Spec => []SettledUploadIsBound
<1>1. IInv => SettledUploadIsBound BY DEF IInv
<1> QED BY <1>1, AdmissionInvariant, PTL

(* A record that names a policy other than the one that judged the file    *)
(* never survives the daemon's next policy check.                          *)
THEOREM MismatchTransience == Spec => []MismatchIsTransient
<1>1. IInv => MismatchIsTransient
  BY DEF IInv, TypeOK, DataTypes, Approval, Judged, MismatchIsTransient
<1> QED BY <1>1, AdmissionInvariant, PTL

(* Between scans the spool holds the approved snapshots and nothing else.  *)
THEOREM CleanRest == Spec => []RestIsClean
<1>1. IInv => RestIsClean BY DEF IInv
<1> QED BY <1>1, AdmissionInvariant, PTL

(* What Klipper has open passed the policy that judged it, and Klipper's   *)
(* own when the record names it.                                           *)
THEOREM LoadSafety == Spec => []LoadedUnderItsPolicy
<1>1. IInv => LoadedUnderItsPolicy BY DEF IInv, LoadBound, LoadedUnderItsPolicy
<1> QED BY <1>1, AdmissionInvariant, PTL
=============================================================================
