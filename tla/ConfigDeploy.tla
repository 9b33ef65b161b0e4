---------------------------- MODULE ConfigDeploy ----------------------------
(***************************************************************************)
(* The configuration transaction of t300_mainline/config_deploy.py.        *)
(* apply_bundle replaces the whole tree /etc/t300 (the configuration and   *)
(* the commissioning markers inside it) by exchanging two directories, and *)
(* undoes the exchange when a later step fails.  Every step may fail and   *)
(* the process may die between any two of them.                            *)
(*                                                                         *)
(* A configuration stands for its digest.  A marker holds the digest it    *)
(* was written under (config_sha256) and the configuration named by the    *)
(* evidence whose hash it records.  The candidate image never changes      *)
(* under a running controller, so candidate_sha256 is left out.            *)
(***************************************************************************)
EXTENDS Integers

CONSTANTS
    Configs,        \* configurations, by config_sha256
    NoConfig,       \* no digest recorded
    NoTree,         \* the directory does not exist
    InitialConfig,  \* what provisioning installed
    Unlocked        \* the ones with commissioning_lock: False

ASSUME ConfigAssumption ==
    /\ InitialConfig \in Configs \ Unlocked
    /\ Unlocked \subseteq Configs
    /\ NoConfig \notin Configs

Gates == {"host", "storage", "production", "maintenance", "transport", "release"}
States == {"absent", "testing", "validated", "enabled", "armed", "started", "armed-once"}
Marker == [state : States, cfg : Configs \cup {NoConfig}, evidence : Configs \cup {NoConfig}]
Absent == [state |-> "absent", cfg |-> NoConfig, evidence |-> NoConfig]
Tree == [cfg : Configs, mark : [Gates -> Marker]]

ASSUME TreeAssumption == NoTree \notin Tree

DeployPoints == {"idle", "backup", "build", "exchange", "verify", "rename",
                 "complete", "failed", "cleanup"}
Places == {"none", "sibling", "previous"}

VARIABLES
    tree,       \* /etc/t300
    sibling,    \* /etc/.t300-next-<pid> of the running transaction
    previous,   \* /etc/.t300-previous-<base>, by base configuration
    stale,      \* trees other processes left under their own .t300-next-<pid>
    journal,    \* config-deploy-journal.json
    dpc,        \* next step of apply_bundle
    base, target,       \* current_digest and new_digest
    partner, retained,  \* rollback_partner; retained_previous or failed_candidate
    rollback,   \* what the exception handler will note in the journal
    edited,     \* history: the tree was edited by hand since the last apply
    interrupted,    \* history: Ctrl-C arrived between two statements
    replaced    \* history: the trees an exchange took away from /etc/t300

locals == <<base, target, partner, retained, rollback>>
trees == <<tree, sibling, previous, stale>>
notes == <<edited, interrupted>>
deploy_vars == <<trees, journal, dpc, locals, notes, replaced>>

Rollbacks == {"none", "complete", "FAILED"}
Journal == [status : {"none", "in-progress", "complete", "failed"},
            new : Configs \cup {NoConfig}, base : Configs \cup {NoConfig},
            rollback : Rollbacks]

DeployTypeOK ==
    /\ tree \in Tree
    /\ sibling \in Tree \cup {NoTree}
    /\ previous \in [Configs -> Tree \cup {NoTree}]
    /\ stale \subseteq Tree
    /\ journal \in Journal
    /\ dpc \in DeployPoints
    /\ base \in Configs \cup {NoConfig}
    /\ target \in Configs \cup {NoConfig}
    /\ partner \in Places
    /\ retained \in Places
    /\ rollback \in Rollbacks
    /\ edited \in BOOLEAN
    /\ interrupted \in BOOLEAN
    /\ replaced \subseteq Tree

EndTransaction ==
    /\ dpc' = "idle"
    /\ base' = NoConfig
    /\ target' = NoConfig
    /\ partner' = "none"
    /\ retained' = "none"
    /\ rollback' = "none"

DeployInit ==
    /\ tree = [cfg |-> InitialConfig, mark |-> [g \in Gates |-> Absent]]
    /\ sibling = NoTree
    /\ previous = [c \in Configs |-> NoTree]
    /\ stale = {}
    /\ journal = [status |-> "none", new |-> NoConfig, base |-> NoConfig, rollback |-> "none"]
    /\ dpc = "idle"
    /\ base = NoConfig
    /\ target = NoConfig
    /\ partner = "none"
    /\ retained = "none"
    /\ rollback = "none"
    /\ edited = FALSE
    /\ interrupted = FALSE
    /\ replaced = {}

-----------------------------------------------------------------------------
(* The steps of apply_bundle.                                              *)

(* The bundle names the installed configuration as its base, and nobody    *)
(* holds a maintenance or transfer authorization.  The tree that will be   *)
(* set aside needs a free name.                                            *)
Apply(new) ==
    /\ dpc = "idle"
    /\ tree.mark["maintenance"].state = "absent"
    /\ tree.mark["transport"].state = "absent"
    /\ previous[tree.cfg] = NoTree
    /\ base' = tree.cfg
    /\ target' = new
    /\ journal' = [status |-> "in-progress", new |-> new, base |-> tree.cfg,
                   rollback |-> "none"]
    /\ dpc' = "backup"
    /\ edited' = FALSE
    /\ UNCHANGED <<trees, partner, retained, rollback, interrupted, replaced>>

(* A KeyboardInterrupt between two statements leaves what the first one    *)
(* did and skips the second one.                                           *)
Interrupt == dpc' = "failed" /\ interrupted' = TRUE

(* Any step may raise.                                                     *)
Raise == dpc' = "failed" /\ UNCHANGED <<trees, journal, locals, interrupted, replaced>>

Backup ==
    /\ dpc = "backup"
    /\ \/ /\ tree.cfg = base
          /\ dpc' = "build"
          /\ UNCHANGED <<trees, journal, locals, interrupted, replaced>>
       \/ Raise
    /\ UNCHANGED edited

(* Mutant: every marker is rebound with the storage marker.                *)
RebindEveryMarker(mark) ==
    [g \in Gates |-> IF mark[g].state = "absent" THEN mark[g]
                                                ELSE [mark[g] EXCEPT !.cfg = target]]

(* Host, production, transfer and release approvals do not survive a       *)
(* deployment; the storage marker is rebound to the new configuration.     *)
update_next_markers(mark) ==
    [g \in Gates |->
        CASE g \in {"host", "production", "transport", "release"} -> Absent
          [] g = "storage" /\ mark[g].state # "absent" -> [mark[g] EXCEPT !.cfg = target]
          [] OTHER -> mark[g]]

(* The next tree is complete before its digest is compared.                *)
BuildNext ==
    /\ dpc = "build"
    /\ sibling' = [cfg |-> target, mark |-> update_next_markers(tree.mark)]
    /\ dpc' \in {"exchange", "failed"}
    /\ UNCHANGED <<tree, previous, stale, journal, locals, notes, replaced>>

(* What an interrupt skips here is the assignment of rollback_partner.     *)
Exchange ==
    /\ dpc = "exchange"
    /\ \/ /\ tree' = sibling
          /\ sibling' = tree
          /\ replaced' = replaced \cup {tree}
          /\ \/ partner' = "sibling" /\ dpc' = "verify" /\ UNCHANGED interrupted
             \/ Interrupt /\ UNCHANGED partner
          /\ UNCHANGED <<previous, stale, journal, base, target, retained, rollback>>
       \/ Raise
    /\ UNCHANGED edited

Verify ==
    /\ dpc = "verify"
    /\ \/ /\ tree.cfg = target
          /\ dpc' = "rename"
          /\ UNCHANGED <<trees, journal, locals, interrupted, replaced>>
       \/ Raise
    /\ UNCHANGED edited

(* The old tree gets its name; if that fails it stays under the other one. *)
RenamePrevious ==
    /\ dpc = "rename"
    /\ \/ /\ previous' = [previous EXCEPT ![base] = sibling]
          /\ sibling' = NoTree
          /\ \/ /\ partner' = "previous" /\ retained' = "previous" /\ dpc' = "complete"
                /\ UNCHANGED interrupted
             \/ Interrupt /\ UNCHANGED <<partner, retained>>
       \/ /\ retained' = "sibling"
          /\ dpc' = "complete"
          /\ UNCHANGED <<previous, sibling, partner, interrupted>>
    /\ UNCHANGED <<tree, stale, journal, base, target, rollback, edited, replaced>>

(* Mutant: the old tree is removed once the journal is complete.           *)
DropSibling == stale' = stale /\ sibling' = NoTree

(* The sibling directory outlives the process when it is preserved.        *)
KeepSibling == stale' = stale \cup ({sibling} \ {NoTree}) /\ sibling' = NoTree

(* Consuming the uploaded bundle and noting it in the journal come last    *)
(* and change neither the trees nor the journal's verdict.                 *)
Complete ==
    /\ dpc = "complete"
    /\ \/ /\ journal' = [journal EXCEPT !.status = "complete"]
          /\ \/ KeepSibling /\ EndTransaction /\ UNCHANGED interrupted
             \/ /\ Interrupt
                /\ partner' \in {partner, "none"}
                /\ UNCHANGED <<sibling, stale, base, target, retained, rollback>>
          /\ UNCHANGED <<tree, previous, replaced>>
       \/ Raise
    /\ UNCHANGED edited

-----------------------------------------------------------------------------
(* The exception handler and the finally clause.                           *)

(* Mutant: only a tree that was not renamed yet is exchanged back.         *)
SwapUnrenamed ==
    /\ partner = "sibling" => sibling # NoTree
    /\ tree' = IF partner = "sibling" THEN sibling ELSE tree
    /\ sibling' = IF partner = "sibling" THEN tree ELSE sibling
    /\ UNCHANGED previous

SwapPartner ==
    \/ /\ partner = "sibling"
       /\ sibling # NoTree
       /\ tree' = sibling
       /\ sibling' = tree
       /\ UNCHANGED previous
    \/ /\ partner = "previous"
       /\ tree' = previous[base]
       /\ previous' = [previous EXCEPT ![base] = tree]
       /\ UNCHANGED sibling

(* rollback_partner None: nothing to exchange.  Otherwise exchange back,   *)
(* or give up.                                                             *)
Rollback ==
    /\ dpc = "failed"
    /\ \/ partner = "none" /\ UNCHANGED <<tree, sibling, previous, locals, interrupted, replaced>>
       \/ /\ partner # "none"
          /\ SwapPartner
          /\ replaced' = replaced \ {tree'}
          /\ \/ /\ rollback' = "complete" /\ retained' = partner /\ partner' = "none"
                /\ UNCHANGED interrupted
             \/ /\ rollback' = "FAILED" /\ interrupted' = TRUE
                /\ UNCHANGED <<partner, retained>>
          /\ UNCHANGED <<base, target>>
       \/ /\ partner # "none"
          /\ rollback' = "FAILED"
          /\ UNCHANGED <<tree, sibling, previous, base, target, partner, retained,
                         interrupted, replaced>>
    /\ dpc' = "cleanup"
    /\ UNCHANGED <<stale, journal, edited>>

Preserved == retained = "sibling" \/ partner = "sibling"

(* The journal is written if it can be; what is not preserved is removed.  *)
Cleanup ==
    /\ dpc = "cleanup"
    /\ journal' \in {journal, [journal EXCEPT !.status = "failed", !.rollback = rollback]}
    /\ \/ Preserved /\ KeepSibling
       \/ ~Preserved /\ sibling' = NoTree /\ UNCHANGED stale
    /\ EndTransaction
    /\ UNCHANGED <<tree, previous, notes, replaced>>

(* The process dies: its sibling directory stays under a name no later     *)
(* process uses.                                                           *)
DeployDies ==
    /\ KeepSibling
    /\ EndTransaction
    /\ UNCHANGED <<tree, previous, journal, notes, replaced>>

DeployStep ==
    \/ Backup \/ BuildNext \/ Exchange \/ Verify \/ RenamePrevious \/ Complete
    \/ Rollback \/ Cleanup

-----------------------------------------------------------------------------
(* What else changes the tree: a commissioning command or a unit's gate    *)
(* writes one marker while no transaction runs, and root edits a file.     *)
WriteMarker(g, m) ==
    /\ dpc = "idle"
    /\ tree' = [tree EXCEPT !.mark[g] = m]
    /\ UNCHANGED <<sibling, previous, stale, journal, dpc, locals, notes, replaced>>

HandEdit(c) ==
    /\ tree' = [tree EXCEPT !.cfg = c]
    /\ edited' = TRUE
    /\ UNCHANGED <<sibling, previous, stale, journal, dpc, locals, interrupted, replaced>>

DeployNext ==
    \/ \E c \in Configs : Apply(c) \/ HandEdit(c)
    \/ DeployStep
    \/ dpc # "idle" /\ DeployDies
    \/ \E g \in Gates, m \in Marker : WriteMarker(g, m)

DeploySpec == DeployInit /\ [][DeployNext]_deploy_vars

-----------------------------------------------------------------------------
(* Properties.                                                             *)

(* Whatever step fails, whatever the rollback meets and wherever the       *)
(* process dies, a tree that was taken away from /etc/t300 is still on     *)
(* disk: in the sibling, under its previous name, or left behind.  An      *)
(* interrupt before rollback_partner is assigned is the exception: the     *)
(* finally clause then removes the old tree.                               *)
OnDisk(t) == t = sibling \/ t \in stale \/ \E c \in Configs : t = previous[c]
ReplacedTreeIsKept == ~interrupted => \A t \in replaced : OnDisk(t)

(* The journal's verdict is about the installed configuration: complete    *)
(* means the new one is live, failed means the old one is, unless the      *)
(* journal itself asks for manual recovery.  An interrupt is the exception *)
(* here too: the handler then writes failed over a deployment that is live.*)
JournalTellsTheTruth ==
    dpc = "idle" /\ ~edited /\ ~interrupted =>
        /\ journal.status = "complete" => tree.cfg = journal.new
        /\ journal.status = "failed" /\ journal.rollback # "FAILED" => tree.cfg = journal.base

(* What a deployment promises, without its steps: see TreeStore.           *)
Store == INSTANCE TreeStore WITH
    installed <- tree,
    kept <- {t \in replaced : OnDisk(t)},
    busy <- dpc # "idle",
    intact <- ~interrupted,
    Initial <- [cfg |-> InitialConfig, mark |-> [g \in Gates |-> Absent]],
    Revoked <- {"host", "production", "transport", "release"},
    Rebound <- {"storage"}
StoreSpec == Store!Spec
=============================================================================
