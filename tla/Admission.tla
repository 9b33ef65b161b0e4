----------------------------- MODULE Admission -----------------------------
(***************************************************************************)
(* How an uploaded G-code file becomes loadable.  The admission daemon     *)
(* (t300_mainline/admission_daemon.py) polls the upload directory and runs *)
(* admit_gcode (t300_mainline/gcode_policy.py), which copies the upload    *)
(* into a protected spool, scans the copy and writes an approval record.   *)
(* Klipper's loader (mainline/klippy/extras/t300_safety.py) opens a file   *)
(* only through such a record.  The daemon, Klipper, the users of the      *)
(* upload directory and the installer of the policy file share nothing but *)
(* the file system, so their steps interleave at every system call that    *)
(* one of them can see.                                                    *)
(*                                                                         *)
(* A content stands for the bytes of a file and for their SHA-256; sizes   *)
(* follow from it.  A fingerprint (size, mtime, inode) is a number that is *)
(* fresh for every write; 0 is the absence of a file or of a dict entry.   *)
(* Rejection records are diagnostics nothing reads back; they are left out.*)
(***************************************************************************)
EXTENDS Integers, FiniteSets

CONSTANTS
    Paths,          \* file names under the G-code root with a G-code suffix
    Contents,       \* what a file can contain
    NoContent, NoPath, NoRecord, \* absent values
    MaxPolicies,    \* bound: versions of the policy file
    MaxWrites,      \* bound: writes to the upload directory
    MaxCrashes,     \* bound: deaths of the daemon
    MaxCandidates,  \* policy max_candidate_files
    MaxSpool,       \* policy max_spool_bytes, in files
    Accepts         \* Accepts[v]: the contents that pass the scan under version v

Versions == 1..MaxPolicies
Fingerprints == 0..(MaxWrites + 1)

(* An approval record.  "policy" is the policy_sha256 field; "by" is not   *)
(* in the record: it remembers the policy object the scan really used.     *)
Approval == [path : Paths, digest : Contents, policy : Versions, by : Versions]

ASSUME AdmissionAssumption ==
    /\ MaxPolicies \in Nat \ {0}
    /\ MaxWrites \in Nat
    /\ MaxCrashes \in Nat
    /\ MaxCandidates \in Nat
    /\ MaxSpool \in Nat
    /\ NoContent \notin Contents
    /\ NoPath \notin Paths
    /\ NoRecord \notin Approval
    /\ Accepts \in [Versions -> SUBSET Contents]

DaemonPoints == {"down", "preflight", "boot", "boot_policy", "sleep", "prune",
                 "walk", "open", "copy", "scan", "commit", "unlink",
                 "approve", "recheck", "failed", "finish"}

VARIABLES
    fp, content, writes,  \* the upload directory
    policy_file,          \* version of /etc/t300/gcode-policy.json
    pc, crashes,          \* the daemon's next step
    sha, policy,          \* policy_sha256 and the parsed policy of the daemon
    observed, processed,  \* the daemon's two dicts
    todo,                 \* paths scan_once has still to visit
    job, seen,            \* the path being admitted, and its fingerprint
    src, src_fp, torn,    \* the open source: content, identity, overwritten since
    report,               \* policy_sha256 of the scan report
    approvals,            \* approval records
    spool,                \* committed snapshots, by digest
    temp, linked,         \* .gcode-snapshot-* file, and whether it is linked
    kstate, kpolicy,      \* Klipper process and its policy_hash
    kpath, kdigest, kfound, \* SDCARD_PRINT_FILE in progress; kfound: its record
    loaded                \* the approval behind virtual_sd.current_file

uploads == <<fp, content, writes>>
dicts == <<observed, processed>>
process == <<sha, policy>>
source == <<job, seen, src, src_fp, torn, report>>
disk == <<approvals, spool, temp, linked>>
klipper == <<kstate, kpolicy, kpath, kdigest, kfound, loaded>>
vars == <<uploads, policy_file, pc, crashes, process, dicts, todo, source, disk, klipper>>

Present == {p \in Paths : fp[p] # 0}
Empty == [p \in Paths |-> 0]

FlagTypes == torn \in BOOLEAN /\ linked \in BOOLEAN

DataTypes ==
    /\ fp \in [Paths -> Fingerprints]
    /\ content \in [Paths -> Contents \cup {NoContent}]
    /\ \A p \in Paths : fp[p] = 0 <=> content[p] = NoContent
    /\ writes \in 1..(MaxWrites + 1)
    /\ policy_file \in Versions
    /\ pc \in DaemonPoints
    /\ crashes \in 0..MaxCrashes
    /\ sha \in Versions
    /\ policy \in Versions
    /\ observed \in [Paths -> Fingerprints]
    /\ processed \in [Paths -> Fingerprints]
    /\ todo \subseteq Paths
    /\ job \in Paths \cup {NoPath}
    /\ seen \in Fingerprints
    /\ src \in Contents \cup {NoContent}
    /\ src_fp \in Fingerprints
    /\ report \in Versions \cup {0}
    /\ approvals \subseteq Approval
    /\ spool \subseteq Contents
    /\ temp \in Contents \cup {NoContent}
    /\ kstate \in {"down", "loading", "ready"}
    /\ kpolicy \in Versions
    /\ kpath \in Paths \cup {NoPath}
    /\ kdigest \in Contents \cup {NoContent}
    /\ kfound \in Approval \cup {NoRecord}
    /\ loaded \in Approval \cup {NoRecord}

TypeOK == FlagTypes /\ DataTypes

(* The upload directory survives reboots; the spool of an earlier process  *)
(* is covered by the runs of the daemon that precede a crash.              *)
Init ==
    /\ content \in [Paths -> Contents \cup {NoContent}]
    /\ fp = [p \in Paths |-> IF content[p] = NoContent THEN 0 ELSE 1]
    /\ writes = 1
    /\ policy_file = 1
    /\ pc = "down"
    /\ crashes = 0
    /\ sha = 1
    /\ policy = 1
    /\ observed = Empty
    /\ processed = Empty
    /\ todo = {}
    /\ job = NoPath
    /\ seen = 0
    /\ src = NoContent
    /\ src_fp = 0
    /\ torn = FALSE
    /\ report = 0
    /\ approvals = {}
    /\ spool = {}
    /\ temp = NoContent
    /\ linked = FALSE
    /\ kstate = "down"
    /\ kpolicy = 1
    /\ kpath = NoPath
    /\ kdigest = NoContent
    /\ kfound = NoRecord
    /\ loaded = NoRecord

-----------------------------------------------------------------------------
(* The environment: the users of the upload directory and the installer of *)
(* the policy.                                                             *)

(* A new file is renamed over the path (Moonraker's upload): a descriptor  *)
(* the daemon holds keeps reading the old inode.                           *)
Upload(p, c) ==
    /\ writes <= MaxWrites
    /\ writes' = writes + 1
    /\ fp' = [fp EXCEPT ![p] = writes + 1]
    /\ content' = [content EXCEPT ![p] = c]
    /\ UNCHANGED <<policy_file, pc, crashes, process, dicts, todo, source, disk, klipper>>

(* A file is rewritten in place (a copy from USB): a descriptor the daemon *)
(* holds sees the change.                                                  *)
Overwrite(p, c) ==
    /\ writes <= MaxWrites
    /\ p \in Present
    /\ writes' = writes + 1
    /\ fp' = [fp EXCEPT ![p] = writes + 1]
    /\ content' = [content EXCEPT ![p] = c]
    /\ torn' = (torn \/ (pc = "copy" /\ job = p /\ src_fp = fp[p]))
    /\ UNCHANGED <<policy_file, pc, crashes, process, dicts, todo,
                   job, seen, src, src_fp, report, disk, klipper>>

Delete(p) ==
    /\ p \in Present
    /\ fp' = [fp EXCEPT ![p] = 0]
    /\ content' = [content EXCEPT ![p] = NoContent]
    /\ UNCHANGED <<writes, policy_file, pc, crashes, process, dicts, todo,
                   source, disk, klipper>>

InstallPolicy ==
    /\ policy_file < MaxPolicies
    /\ policy_file' = policy_file + 1
    /\ UNCHANGED <<uploads, pc, crashes, process, dicts, todo, source, disk, klipper>>

Environment ==
    \/ \E p \in Paths, c \in Contents : Upload(p, c) \/ Overwrite(p, c)
    \/ \E p \in Paths : Delete(p)
    \/ InstallPolicy

-----------------------------------------------------------------------------
(* Helpers of the daemon.                                                  *)

revoke_all == approvals' = {}

(* Mutant: no record matches the path to revoke.                           *)
revoke_nothing(p, keep) == approvals' = approvals

revoke_relative(p, keep) ==
    approvals' = {a \in approvals : a.path # p \/ a \in keep}

(* Mutant: partial files are left to the next admission.                   *)
prune_snapshots_only ==
    /\ spool' = {c \in spool : \E a \in approvals : a.digest = c}
    /\ UNCHANGED <<temp, linked>>

(* A partial file is deleted with everything no record refers to.          *)
prune_unreferenced_spool ==
    /\ spool' = {c \in spool : \E a \in approvals : a.digest = c}
    /\ temp' = NoContent
    /\ linked' = FALSE

Forget == observed' = Empty /\ processed' = Empty

(* Mutant: the digest is compared with what the daemon parsed.             *)
policy_assumed_unchanged == policy = sha

policy_unchanged == policy_file = sha

candidate_files_in_limit == Cardinality(Present) <= MaxCandidates

NextPath(p) == todo' = todo \ {p} /\ pc' = "walk"

(* The locals of admit_gcode and of the loop body go out of scope.         *)
EndJob ==
    /\ job' = NoPath
    /\ seen' = 0
    /\ src' = NoContent
    /\ src_fp' = 0
    /\ torn' = FALSE
    /\ report' = 0

-----------------------------------------------------------------------------
(* Starting the unit: ExecStartPre runs startup_preflight in a process of  *)
(* its own, then ExecStart constructs the daemon, which hashes the policy  *)
(* before it parses it.                                                    *)

PreflightRevoke ==
    /\ pc = "down"
    /\ revoke_all
    /\ Forget
    /\ pc' = "preflight"
    /\ UNCHANGED <<uploads, policy_file, crashes, process, todo, source, spool,
                   temp, linked, klipper>>

PreflightPrune ==
    /\ pc = "preflight"
    /\ prune_unreferenced_spool
    /\ pc' = "boot"
    /\ UNCHANGED <<uploads, policy_file, crashes, process, dicts, todo, source,
                   approvals, klipper>>

HashThenParse ==
    \/ pc = "boot" /\ sha' = policy_file /\ pc' = "boot_policy" /\ UNCHANGED policy
    \/ pc = "boot_policy" /\ policy' = policy_file /\ pc' = "sleep" /\ UNCHANGED sha

Construct ==
    /\ HashThenParse
    /\ UNCHANGED <<uploads, policy_file, crashes, dicts, todo, source, disk, klipper>>

(* The process dies at any point; what it had in memory is gone, what it   *)
(* left on disk stays until the next preflight.                            *)
Crash ==
    /\ pc # "down"
    /\ crashes < MaxCrashes
    /\ crashes' = crashes + 1
    /\ pc' = "down"
    /\ Forget
    /\ todo' = {}
    /\ EndJob
    /\ UNCHANGED <<uploads, policy_file, process, disk, klipper>>

-----------------------------------------------------------------------------
(* scan_once.                                                              *)

ScanStart ==
    /\ pc = "sleep"
    /\ \/ /\ policy_unchanged
          /\ pc' = "prune"
          /\ UNCHANGED <<dicts, approvals>>
       \/ /\ ~policy_unchanged
          /\ revoke_all
          /\ Forget
          /\ pc' = "finish"
    /\ UNCHANGED <<uploads, policy_file, crashes, process, todo, source, spool,
                   temp, linked, klipper>>

(* Prune, list the directory, drop what vanished.  A flooded directory     *)
(* revokes every approval but keeps observed and processed.                *)
Stale == {p \in Paths : observed[p] # 0 /\ p \notin Present}

ScanList ==
    /\ pc = "prune"
    /\ prune_unreferenced_spool
    /\ \/ /\ candidate_files_in_limit
          /\ approvals' = {a \in approvals : a.path \notin Stale}
          /\ observed' = [p \in Paths |-> IF p \in Stale THEN 0 ELSE observed[p]]
          /\ processed' = [p \in Paths |-> IF p \in Stale THEN 0 ELSE processed[p]]
          /\ todo' = Present
          /\ pc' = "walk"
       \/ /\ ~candidate_files_in_limit
          /\ revoke_all
          /\ pc' = "finish"
          /\ UNCHANGED <<dicts, todo>>
    /\ UNCHANGED <<uploads, policy_file, crashes, process, source, klipper>>

VisitGone(p) ==
    /\ fp[p] = 0
    /\ revoke_relative(p, {})
    /\ processed' = [processed EXCEPT ![p] = 0]
    /\ NextPath(p)
    /\ UNCHANGED <<observed, source>>

VisitNew(p) ==
    /\ fp[p] # 0
    /\ observed[p] # fp[p]
    /\ observed' = [observed EXCEPT ![p] = fp[p]]
    /\ processed' = [processed EXCEPT ![p] = 0]
    /\ NextPath(p)
    /\ UNCHANGED <<approvals, source>>

VisitProcessed(p) ==
    /\ fp[p] # 0
    /\ observed[p] = fp[p]
    /\ processed[p] = fp[p]
    /\ NextPath(p)
    /\ UNCHANGED <<approvals, dicts, source>>

VisitStable(p) ==
    /\ fp[p] # 0
    /\ observed[p] = fp[p]
    /\ processed[p] # fp[p]
    /\ job' = p
    /\ seen' = fp[p]
    /\ pc' = "open"
    /\ UNCHANGED <<approvals, dicts, todo, src, src_fp, torn, report>>

Visit ==
    /\ pc = "walk"
    /\ \E p \in todo :
          VisitGone(p) \/ VisitNew(p) \/ VisitProcessed(p) \/ VisitStable(p)
    /\ UNCHANGED <<uploads, policy_file, crashes, process, spool, temp, linked, klipper>>

WalkDone ==
    /\ pc = "walk"
    /\ todo = {}
    /\ pc' = "finish"
    /\ UNCHANGED <<uploads, policy_file, crashes, process, dicts, todo, source, disk, klipper>>

(* The last prune of scan_once, of the flood branch and of                 *)
(* _fail_closed_policy_change.                                             *)
Finish ==
    /\ pc = "finish"
    /\ prune_unreferenced_spool
    /\ pc' = "sleep"
    /\ UNCHANGED <<uploads, policy_file, crashes, process, dicts, todo, source,
                   approvals, klipper>>

-----------------------------------------------------------------------------
(* admit_gcode for the path job.                                           *)

AdmitRaises ==
    /\ pc' = "failed"
    /\ UNCHANGED <<src, src_fp, torn>>

(* The quota counts every object in the spool; the free space of the       *)
(* system is external and may fail the check at any time.                  *)
OpenSource ==
    /\ pc = "open"
    /\ \/ /\ fp[job] # 0
          /\ Cardinality(spool) + 1 <= MaxSpool
          /\ src' = content[job]
          /\ src_fp' = fp[job]
          /\ torn' = FALSE
          /\ pc' = "copy"
       \/ AdmitRaises
    /\ UNCHANGED <<uploads, policy_file, crashes, process, dicts, todo, job, seen,
                   report, disk, klipper>>

(* _snapshot_source: a source that changed under the copy raises, and its  *)
(* partial copy is removed; otherwise the copy holds what was opened.      *)
CopySource ==
    \/ /\ ~torn
       /\ temp' = src
       /\ pc' = "scan"
    \/ /\ torn
       /\ pc' = "failed"
       /\ UNCHANGED temp

Copy ==
    /\ pc = "copy"
    /\ CopySource
    /\ linked' = FALSE
    /\ UNCHANGED <<uploads, policy_file, crashes, process, dicts, todo, source,
                   approvals, spool, klipper>>

(* scan_gcode judges with the parsed policy and then hashes the policy     *)
(* FILE for the report.  A rejected copy is removed on the way out.        *)
Accepted == temp \in Accepts[policy]

RecordPolicyHash == report' = policy_file

Scan ==
    /\ pc = "scan"
    /\ RecordPolicyHash
    /\ \/ Accepted /\ pc' = "commit" /\ UNCHANGED <<temp, linked>>
       \/ ~Accepted /\ pc' = "recheck" /\ temp' = NoContent /\ linked' = FALSE
    /\ UNCHANGED <<uploads, policy_file, crashes, process, dicts, todo,
                   job, seen, src, src_fp, torn, approvals, spool, klipper>>

(* _commit_snapshot: an intact snapshot with this digest is reused, else   *)
(* the temporary file is linked under its digest and then unlinked.        *)
Commit ==
    /\ pc = "commit"
    /\ \/ /\ temp \in spool
          /\ temp' = NoContent
          /\ pc' = "approve"
          /\ UNCHANGED <<spool, linked>>
       \/ /\ temp \notin spool
          /\ spool' = spool \cup {temp}
          /\ linked' = TRUE
          /\ pc' = "unlink"
          /\ UNCHANGED temp
    /\ UNCHANGED <<uploads, policy_file, crashes, process, dicts, todo, source,
                   approvals, klipper>>

(* Mutant: a temporary file that cannot be unlinked is ignored.            *)
KeepTemporary ==
    /\ pc = "unlink"
    /\ pc' = "approve"
    /\ UNCHANGED <<uploads, policy_file, crashes, process, dicts, todo, source,
                   disk, klipper>>

UnlinkTemporary ==
    /\ pc = "unlink"
    /\ temp' = NoContent
    /\ linked' = FALSE
    /\ pc' = "approve"
    /\ UNCHANGED <<uploads, policy_file, crashes, process, dicts, todo, source,
                   approvals, spool, klipper>>

JobRecord == [path |-> job, digest |-> src, policy |-> report, by |-> policy]

(* os.replace of the record named after (path, digest).                    *)
Approve ==
    /\ pc = "approve"
    /\ approvals' = {a \in approvals : a.path # job \/ a.digest # src} \cup {JobRecord}
    /\ pc' = "recheck"
    /\ UNCHANGED <<uploads, policy_file, crashes, process, dicts, todo, source, spool,
                   temp, linked, klipper>>

(* Mutant: the path is visited again on the next scan.                     *)
LeaveUnsettled == UNCHANGED processed

Settle == processed' = [processed EXCEPT ![job] = seen]

(* Back in scan_once: the verdict counts only if the path is still the     *)
(* file that was visited.  If not, the path is merely forgotten.           *)
Recheck ==
    /\ pc = "recheck"
    /\ \/ /\ fp[job] # seen
          /\ observed' = [observed EXCEPT ![job] = 0]
          /\ UNCHANGED <<processed, approvals>>
       \/ /\ fp[job] = seen
          /\ revoke_relative(job, IF src \in Accepts[policy] THEN {JobRecord} ELSE {})
          /\ Settle
          /\ UNCHANGED observed
    /\ NextPath(job)
    /\ EndJob
    /\ UNCHANGED <<uploads, policy_file, crashes, process, spool, temp, linked, klipper>>

(* The exception handler: any OSError or PolicyError settles the path.     *)
AdmitFailed ==
    /\ pc = "failed"
    /\ revoke_relative(job, {})
    /\ Settle
    /\ NextPath(job)
    /\ EndJob
    /\ UNCHANGED <<uploads, policy_file, crashes, process, observed, spool, temp,
                   linked, klipper>>

Daemon ==
    \/ PreflightRevoke \/ PreflightPrune \/ Construct
    \/ ScanStart \/ ScanList \/ Visit \/ WalkDone \/ Finish
    \/ OpenSource \/ Copy \/ Scan \/ Commit \/ UnlinkTemporary \/ Approve
    \/ Recheck \/ AdmitFailed

-----------------------------------------------------------------------------
(* Klipper.                                                                *)

NoRequest == kpath' = NoPath /\ kdigest' = NoContent /\ kfound' = NoRecord

(* __init__ reads the policy, _handle_connect refuses one that changed     *)
(* since, and any configured limit beyond it (a configuration error).      *)
KlipperLoadPolicy ==
    /\ kstate = "down"
    /\ kstate' = "loading"
    /\ kpolicy' = policy_file
    /\ UNCHANGED <<kpath, kdigest, kfound, loaded>>

KlipperConnect ==
    /\ kstate = "loading"
    /\ \/ policy_file = kpolicy /\ kstate' = "ready"
       \/ kstate' = "down"
    /\ UNCHANGED <<kpolicy, kpath, kdigest, kfound, loaded>>

KlipperExit ==
    /\ kstate # "down"
    /\ kstate' = "down"
    /\ NoRequest
    /\ loaded' = NoRecord
    /\ UNCHANGED kpolicy

(* _source_identity: a hash of one unchanging inode.                       *)
SourceIdentity(p) ==
    /\ kstate = "ready"
    /\ kpath = NoPath
    /\ p \in Present
    /\ kpath' = p
    /\ kdigest' = content[p]
    /\ loaded' = NoRecord
    /\ UNCHANGED <<kstate, kpolicy, kfound>>

(* Mutant: the record's policy_sha256 is not compared.                     *)
MatchesAnyPolicy(a) == a.path = kpath /\ a.digest = kdigest

Matches(a) == a.path = kpath /\ a.digest = kdigest /\ a.policy = kpolicy

ReadApproval ==
    /\ kpath # NoPath
    /\ kfound = NoRecord
    /\ \/ /\ \E a \in approvals : Matches(a) /\ kfound' = a
          /\ UNCHANGED <<kpath, kdigest>>
       \/ /\ \A a \in approvals : ~Matches(a)
          /\ NoRequest
    /\ UNCHANGED <<kstate, kpolicy, loaded>>

nlink(c) == IF linked /\ temp = c THEN 2 ELSE 1

(* The snapshot is opened once and read through that descriptor: pruning   *)
(* it later does not change what is printed.                               *)
OpenSnapshot ==
    /\ kfound # NoRecord
    /\ \/ /\ kdigest \in spool
          /\ nlink(kdigest) = 1
          /\ loaded' = kfound
       \/ /\ kdigest \notin spool \/ nlink(kdigest) # 1
          /\ UNCHANGED loaded
    /\ NoRequest
    /\ UNCHANGED <<kstate, kpolicy>>

Klipper ==
    /\ \/ KlipperLoadPolicy \/ KlipperConnect \/ KlipperExit
       \/ \E p \in Paths : SourceIdentity(p)
       \/ ReadApproval \/ OpenSnapshot
    /\ UNCHANGED <<uploads, policy_file, pc, crashes, process, dicts, todo, source, disk>>

Next == Environment \/ Daemon \/ Crash \/ Klipper

Spec == Init /\ [][Next]_vars

(* systemd restarts the unit on failure and the daemon's loop never stops  *)
(* by itself; nothing obliges the users, the installer or Klipper.         *)
FairSpec == Spec /\ WF_vars(Daemon)

-----------------------------------------------------------------------------
(* Properties.                                                             *)

(* Prune order, shared snapshots and crash points: whatever the daemon     *)
(* does, a record in the approval directory has its snapshot in the spool, *)
(* complete and with the single link the loader insists on.                *)
ApprovalHasSnapshot ==
    \A a \in approvals : a.digest \in spool /\ nlink(a.digest) = 1

(* A path the daemon has settled carries no approval of bytes that are no  *)
(* longer there: every change seen by the polling loop took the old        *)
(* records away, also one that raced the copy or the scan.                 *)
SettledUploadIsBound ==
    \A a \in approvals :
        a.path \in Present /\ processed[a.path] = fp[a.path] => a.digest = content[a.path]

(* A record whose policy_sha256 is not the policy that judged the file     *)
(* (the policy file changed between the check at the start of scan_once    *)
(* and the hash at the end of the scan) exists only while the daemon's own *)
(* policy_sha256 is out of date, so the next scan_once revokes it.         *)
MismatchIsTransient ==
    \A a \in approvals : a.by = a.policy \/ pc = "down" \/ policy_file # sha

(* Between two scans the spool holds exactly the approved snapshots and no *)
(* partial file: the quota counts nothing that cannot be printed.          *)
RestIsClean ==
    pc = "sleep" => /\ spool = {a.digest : a \in approvals}
                    /\ temp = NoContent

(* What Klipper prints passed the scan of the policy that judged it, and,  *)
(* when the record names that policy, the policy Klipper enforces.         *)
LoadedUnderItsPolicy ==
    loaded # NoRecord =>
        /\ loaded.digest \in Accepts[loaded.by]
        /\ loaded.by = loaded.policy => loaded.digest \in Accepts[kpolicy]

(* The inductive invariant behind these five.  Every fingerprint in use    *)
(* was written (Fresh); a daemon that passed the policy check judges with  *)
(* the policy it hashed (Versioned); what is between open and recheck      *)
(* belongs to the file that was visited (JobBound); the temporary file and *)
(* the spool agree with the step (Staged); a record says who judged it     *)
(* (Judged); Klipper's request and open file match its policy (LoadBound). *)
Booting == {"down", "preflight", "boot", "boot_policy"}
JobPoints == {"open", "copy", "scan", "commit", "unlink", "approve", "recheck", "failed"}
OpenPoints == JobPoints \ {"open", "failed"}

Fresh ==
    /\ \A p \in Paths : fp[p] <= writes /\ processed[p] <= writes
    /\ seen <= writes

Versioned ==
    /\ sha <= policy_file
    /\ policy <= policy_file
    /\ pc \notin Booting => sha <= policy
    /\ pc \in JobPoints \cup {"prune", "walk"} => policy = sha

JobBound ==
    pc \in JobPoints =>
        /\ job \in Paths
        /\ seen # 0
        /\ fp[job] # 0 => processed[job] # fp[job]
        /\ pc \in OpenPoints => src \in Contents /\ (fp[job] = seen => content[job] = src)

Staged ==
    /\ pc \in {"scan", "commit", "unlink"} => temp = src
    /\ pc \in {"commit", "unlink", "approve"} =>
          src \in Accepts[policy] /\ report \in Versions /\ policy <= report
    /\ report <= policy_file
    /\ pc \in {"unlink", "approve"} => src \in spool
    /\ linked => /\ pc \in {"unlink", "down", "preflight"}
                 /\ \A a \in approvals : a.digest # temp

Judged ==
    /\ \A a \in approvals :
          /\ a.digest \in spool
          /\ a.digest \in Accepts[a.by]
          /\ a.by <= a.policy
          /\ a.policy <= policy_file
          /\ pc # "down" => a.by = sha
    /\ pc \in Booting \ {"down"} => approvals = {}
    /\ pc \in {"boot", "boot_policy"} => spool = {} /\ temp = NoContent

LoadBound ==
    /\ kstate # "ready" => kpath = NoPath /\ kfound = NoRecord /\ loaded = NoRecord
    /\ kfound # NoRecord => kfound.digest \in Accepts[kfound.by] /\ kfound.policy = kpolicy
    /\ loaded # NoRecord => loaded.digest \in Accepts[loaded.by] /\ loaded.policy = kpolicy

IInv ==
    /\ TypeOK
    /\ Fresh
    /\ Versioned
    /\ JobBound
    /\ Staged
    /\ Judged
    /\ SettledUploadIsBound
    /\ RestIsClean
    /\ LoadBound

(* After a policy change no record of another policy survives for ever:    *)
(* the daemon fails closed until it is restarted.                          *)
StaleApprovalsVanish ==
    []<>(\A a \in approvals : a.by = policy_file /\ a.policy = policy_file)

(* Once the uploads rest, every one of them is settled, unless the daemon  *)
(* has failed closed: the policy changed under it, or there are too many   *)
(* files.                                                                  *)
UploadsSettle ==
    <>[](processed = fp \/ policy_file # sha \/ ~candidate_files_in_limit)

(* REFUTED.  The migration guide says the approval is tied to the policy   *)
(* hash and that a policy change invalidates it: then what is loaded       *)
(* always passes Klipper's own policy.  A policy installed while a file is *)
(* being scanned is recorded as the policy that accepted it.               *)
LoadedUnderKlippersPolicy == loaded # NoRecord => loaded.digest \in Accepts[kpolicy]
=============================================================================
