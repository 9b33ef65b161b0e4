------------------------ MODULE CommissioningProofs ------------------------
(***************************************************************************)
(* Proofs about the configuration transaction, and then about the system   *)
(* composed of it, the commissioning controller and the units it gates:    *)
(* for any number of configurations, commands, deployments, authorizations *)
(* and mishaps, any markers the environment writes, and whatever units the *)
(* owner starts by hand.                                                   *)
(*                                                                         *)
(* JournalTellsTheTruth and ReplacedTreeIsKept need that no interrupt      *)
(* arrives between two statements of apply_bundle, and ConfigDeploy says   *)
(* what happens otherwise; that the transaction implements TreeStore holds *)
(* with any interrupts.                                                    *)
(***************************************************************************)
EXTENDS Commissioning, TLAPS

-----------------------------------------------------------------------------
(* The configuration transaction by itself (ConfigDeploy).                 *)

(* Where the handler finds the tree it exchanges back.                     *)
Holder == IF partner = "sibling" THEN sibling ELSE previous[base]

Resting ==
    dpc = "idle" => partner = "none" /\ retained = "none" /\ rollback = "none" /\ sibling = NoTree

Running ==
    dpc # "idle" =>
        /\ base \in Configs /\ target \in Configs
        /\ journal.status = "in-progress" /\ journal.base = base /\ journal.new = target

BeforeExchange ==
    dpc \in {"backup", "build", "exchange"} =>
        /\ partner = "none" /\ retained = "none" /\ rollback = "none"
        /\ previous[base] = NoTree
        /\ tree.cfg = base \/ edited
        /\ dpc = "exchange" => sibling \in Tree /\ sibling.cfg = target

AfterExchange ==
    dpc \in {"verify", "rename", "complete"} =>
        /\ rollback = "none"
        /\ partner # "none"
        /\ dpc # "complete" => partner = "sibling" /\ retained = "none" /\ previous[base] = NoTree
        /\ dpc = "complete" => (partner = "sibling" => retained = "sibling")
        /\ tree.cfg = target \/ edited

Held ==
    /\ partner # "none" => Holder \in Tree /\ (Holder.cfg = base \/ edited)
    /\ partner = "previous" => sibling = NoTree

Undoing ==
    /\ dpc = "failed" => rollback = "none" /\ (partner = "none" => tree.cfg = base \/ edited)
    /\ dpc = "cleanup" /\ rollback # "FAILED" => tree.cfg = base \/ edited

(* A replaced tree in the sibling directory is one the finally clause      *)
(* preserves.                                                              *)
Kept ==
    \A t \in replaced :
        \/ Preserved /\ t = sibling
        \/ t \in stale
        \/ \E c \in Configs : t = previous[c]

DInv ==
    /\ DeployTypeOK /\ Resting /\ Running /\ BeforeExchange /\ AfterExchange
    /\ Held /\ Undoing /\ Kept /\ JournalTellsTheTruth

USE DEF DeployPoints, Places, Rollbacks, notes

-----------------------------------------------------------------------------
(* The marker table of the next tree is a marker table.                    *)
LEMMA NextMarkersType ==
    ASSUME NEW mark \in [Gates -> Marker], target \in Configs
    PROVE  update_next_markers(mark) \in [Gates -> Marker]
<1>1. Absent \in Marker
  BY DEF Absent, Marker, States
<1>2. \A g \in Gates : [mark[g] EXCEPT !.cfg = target] \in Marker
  BY DEF Marker
<1> QED
  BY <1>1, <1>2 DEF update_next_markers

(* The provisioned tree, before any transaction.                           *)
LEMMA InitDInv == DeployInit => DInv
<1> SUFFICES ASSUME DeployInit PROVE DInv
  OBVIOUS
<1>1. Absent \in Marker
  BY DEF Absent, Marker, States
<1>2. tree \in Tree
  BY <1>1, ConfigAssumption DEF DeployInit, Tree
<1>3. journal \in Journal
  BY DEF DeployInit, Journal
<1> QED
  BY <1>2, <1>3 DEF DeployInit, DInv, DeployTypeOK, Resting, Running, BeforeExchange,
     AfterExchange, Held, Undoing, Kept, JournalTellsTheTruth

(* The checks passed and the journal is written.                           *)
LEMMA ApplyDInv ==
    ASSUME DInv, NEW c \in Configs, Apply(c)
    PROVE  DInv'
<1>1. /\ tree.cfg \in Configs
      /\ journal' \in Journal /\ journal'.status = "in-progress"
      /\ journal'.base = tree.cfg /\ journal'.new = c
  BY DEF DInv, DeployTypeOK, Tree, Apply, Journal
<1>2. DeployTypeOK' /\ Resting' /\ Running' /\ BeforeExchange' /\ AfterExchange' /\ Held' /\ Undoing'
  BY <1>1 DEF DInv, Apply, trees, DeployTypeOK, Resting, Running, BeforeExchange, AfterExchange,
     Held, Holder, Undoing
<1>3. Kept' /\ JournalTellsTheTruth'
  BY <1>1 DEF DInv, Apply, trees, Resting, Kept, Preserved, JournalTellsTheTruth
<1> QED
  BY <1>2, <1>3 DEF DInv

(* A step raises before it changes anything.                               *)
LEMMA RaiseDInv ==
    ASSUME DInv, Raise, UNCHANGED edited, dpc \in {"backup", "exchange", "verify", "complete"}
    PROVE  DInv'
<1>1. DeployTypeOK' /\ Resting' /\ Running' /\ BeforeExchange' /\ AfterExchange' /\ Held' /\ Undoing'
  BY DEF DInv, Raise, trees, locals, DeployTypeOK, Resting, Running, BeforeExchange, AfterExchange,
     Held, Holder, Undoing
<1>2. Kept' /\ JournalTellsTheTruth'
  BY DEF DInv, Raise, trees, locals, Kept, Preserved, JournalTellsTheTruth
<1> QED
  BY <1>1, <1>2 DEF DInv

(* Backup and Verify only compare digests.                                 *)
LEMMA CompareDInv ==
    ASSUME DInv, Backup \/ Verify
    PROVE  DInv'
<1>1. CASE Raise /\ UNCHANGED edited
  BY <1>1, RaiseDInv DEF Backup, Verify
<1>2. CASE /\ \/ dpc = "backup" /\ dpc' = "build"
              \/ dpc = "verify" /\ dpc' = "rename"
           /\ UNCHANGED <<trees, journal, locals, replaced, notes>>
  <2>1. DeployTypeOK' /\ Resting' /\ Running' /\ BeforeExchange' /\ AfterExchange' /\ Held' /\ Undoing'
    BY <1>2 DEF DInv, trees, locals, DeployTypeOK, Resting, Running, BeforeExchange, AfterExchange,
       Held, Holder, Undoing
  <2>2. Kept' /\ JournalTellsTheTruth'
    BY <1>2 DEF DInv, trees, locals, Kept, Preserved, JournalTellsTheTruth
  <2> QED
    BY <2>1, <2>2 DEF DInv
<1> QED
  BY <1>1, <1>2 DEF Backup, Verify

(* The next tree is built beside the installed one.                        *)
LEMMA BuildDInv ==
    ASSUME DInv, BuildNext
    PROVE  DInv'
<1>1. target \in Configs /\ tree.mark \in [Gates -> Marker]
  BY DEF DInv, Running, BuildNext, DeployTypeOK, Tree
<1>2. sibling' \in Tree /\ sibling'.cfg = target
  BY <1>1, NextMarkersType DEF BuildNext, Tree
<1>3. DeployTypeOK' /\ Resting' /\ Running' /\ BeforeExchange' /\ AfterExchange' /\ Held' /\ Undoing'
  BY <1>2 DEF DInv, BuildNext, locals, DeployTypeOK, Resting, Running, BeforeExchange,
     AfterExchange, Held, Holder, Undoing
<1>4. Kept' /\ JournalTellsTheTruth'
  BY DEF DInv, BuildNext, locals, BeforeExchange, Kept, Preserved, JournalTellsTheTruth
<1> QED
  BY <1>3, <1>4 DEF DInv

(* The two directories change places.                                      *)
LEMMA ExchangeDInv ==
    ASSUME ~interrupted', DInv, Exchange
    PROVE  DInv'
<1>1. CASE Raise /\ UNCHANGED edited
  BY <1>1, RaiseDInv DEF Exchange
<1>2. CASE /\ tree' = sibling /\ sibling' = tree /\ replaced' = replaced \cup {tree}
           /\ partner' = "sibling" /\ dpc' = "verify"
           /\ UNCHANGED <<previous, stale, journal, base, target, retained, rollback, notes>>
  <2>1. dpc = "exchange" /\ sibling \in Tree /\ sibling.cfg = target
    BY DEF Exchange, DInv, BeforeExchange
  <2>2. DeployTypeOK' /\ Resting' /\ Running' /\ BeforeExchange' /\ AfterExchange' /\ Held' /\ Undoing'
    BY <1>2, <2>1 DEF DInv, DeployTypeOK, Resting, Running, BeforeExchange, AfterExchange,
       Held, Holder, Undoing
  <2>3. Kept' /\ JournalTellsTheTruth'
    BY <1>2, <2>1 DEF DInv, BeforeExchange, Kept, Preserved, JournalTellsTheTruth
  <2> QED
    BY <2>2, <2>3 DEF DInv
<1> QED
  BY <1>1, <1>2 DEF Exchange, Interrupt

(* The old tree gets its permanent name, or stays in the sibling.          *)
LEMMA RenameDInv ==
    ASSUME ~interrupted', DInv, RenamePrevious
    PROVE  DInv'
<1>1. /\ dpc = "rename" /\ base \in Configs /\ partner = "sibling"
      /\ previous[base] = NoTree /\ sibling \in Tree
      /\ sibling.cfg = base \/ edited
  BY DEF DInv, RenamePrevious, Running, AfterExchange, Held, Holder
<1>2. CASE /\ previous' = [previous EXCEPT ![base] = sibling] /\ sibling' = NoTree
           /\ partner' = "previous" /\ retained' = "previous" /\ dpc' = "complete"
           /\ UNCHANGED interrupted
  <2>1. previous' \in [Configs -> Tree \cup {NoTree}] /\ previous'[base] = sibling
    BY <1>1, <1>2 DEF DInv, DeployTypeOK
  <2>2. DeployTypeOK' /\ Resting' /\ Running' /\ BeforeExchange' /\ AfterExchange' /\ Held' /\ Undoing'
    BY <1>1, <1>2, <2>1 DEF DInv, RenamePrevious, DeployTypeOK, Resting, Running, BeforeExchange,
       AfterExchange, Held, Holder, Undoing
  <2>3. ASSUME NEW t \in replaced
        PROVE  t \in stale \/ \E c \in Configs : t = previous'[c]
    <3>1. CASE t = sibling
      BY <1>1, <2>1, <3>1
    <3>2. ASSUME NEW c \in Configs, t = previous[c], t # NoTree
          PROVE  t = previous'[c]
      BY <1>1, <1>2, <3>2 DEF DInv, DeployTypeOK
    <3>3. t # NoTree
      BY TreeAssumption DEF DInv, DeployTypeOK
    <3> QED
      BY <3>1, <3>2, <3>3 DEF DInv, Kept
  <2>4. Kept' /\ JournalTellsTheTruth'
    BY <1>2, <2>3 DEF RenamePrevious, Kept, JournalTellsTheTruth
  <2> QED
    BY <2>2, <2>4 DEF DInv
<1>3. CASE /\ retained' = "sibling" /\ dpc' = "complete"
           /\ UNCHANGED <<previous, sibling, partner, interrupted>>
  <2>1. DeployTypeOK' /\ Resting' /\ Running' /\ BeforeExchange' /\ AfterExchange' /\ Held' /\ Undoing'
    BY <1>1, <1>3 DEF DInv, RenamePrevious, DeployTypeOK, Resting, Running, BeforeExchange,
       AfterExchange, Held, Holder, Undoing
  <2>2. Kept' /\ JournalTellsTheTruth'
    BY <1>1, <1>3 DEF DInv, RenamePrevious, Kept, Preserved, JournalTellsTheTruth
  <2> QED
    BY <2>1, <2>2 DEF DInv
<1> QED
  BY <1>2, <1>3 DEF RenamePrevious, Interrupt

(* What every end of a transaction establishes by itself.                  *)
LEMMA EndedDInv ==
    ASSUME DeployTypeOK', EndTransaction, sibling' = NoTree, Kept', JournalTellsTheTruth'
    PROVE  DInv'
BY DEF EndTransaction, DInv, Resting, Running, BeforeExchange, AfterExchange, Held, Undoing

(* The journal is completed.                                               *)
LEMMA CompleteDInv ==
    ASSUME ~interrupted', DInv, Complete
    PROVE  DInv'
<1>1. CASE Raise /\ UNCHANGED edited
  BY <1>1, RaiseDInv DEF Complete
<1>2. CASE /\ journal' = [journal EXCEPT !.status = "complete"] /\ KeepSibling
           /\ EndTransaction /\ UNCHANGED <<tree, previous, replaced, notes>>
  <2>1. /\ journal' \in Journal /\ journal'.status = "complete" /\ journal'.new = target
        /\ tree.cfg = target \/ edited
    BY <1>2 DEF DInv, DeployTypeOK, Journal, Complete, Running, AfterExchange
  <2>2. DeployTypeOK'
    BY <1>2, <2>1 DEF DInv, DeployTypeOK, KeepSibling, EndTransaction
  <2>3. Kept'
    <3>1. \A t \in replaced : t # NoTree
      BY TreeAssumption DEF DInv, DeployTypeOK
    <3> QED
      BY <1>2, <3>1 DEF DInv, Kept, KeepSibling
  <2>4. JournalTellsTheTruth'
    BY <1>2, <2>1 DEF JournalTellsTheTruth
  <2> QED
    BY <1>2, <2>2, <2>3, <2>4, EndedDInv DEF KeepSibling
<1> QED
  BY <1>1, <1>2 DEF Complete, Interrupt

(* The handler exchanges the trees back, or gives up.                      *)
LEMMA RollbackDInv ==
    ASSUME ~interrupted', DInv, Rollback
    PROVE  DInv'
<1>1. /\ dpc = "failed" /\ dpc' = "cleanup" /\ base \in Configs
      /\ UNCHANGED <<stale, journal, edited, base, target>>
  BY DEF Rollback, DInv, Running, locals
<1>2. \A t \in replaced : t # NoTree
  BY TreeAssumption DEF DInv, DeployTypeOK
<1>3. CASE partner = "none" /\ UNCHANGED <<tree, sibling, previous, locals, replaced, interrupted>>
  <2>1. DeployTypeOK' /\ Resting' /\ Running' /\ BeforeExchange' /\ AfterExchange' /\ Held' /\ Undoing'
    BY <1>1, <1>3 DEF DInv, locals, DeployTypeOK, Resting, Running, BeforeExchange, AfterExchange,
       Held, Undoing
  <2>2. Kept' /\ JournalTellsTheTruth'
    BY <1>1, <1>3 DEF DInv, locals, Kept, Preserved, JournalTellsTheTruth
  <2> QED
    BY <2>1, <2>2 DEF DInv
<1>4. CASE /\ partner # "none" /\ SwapPartner /\ replaced' = replaced \ {tree'}
           /\ rollback' = "complete" /\ retained' = partner /\ partner' = "none"
           /\ UNCHANGED interrupted
  <2>1. Holder \in Tree /\ (Holder.cfg = base \/ edited) /\ tree' = Holder
    BY <1>4 DEF DInv, Held, Holder, SwapPartner
  <2>2. /\ sibling' \in Tree \cup {NoTree}
        /\ previous' \in [Configs -> Tree \cup {NoTree}]
    BY <1>1, <1>4 DEF DInv, DeployTypeOK, SwapPartner
  <2>3. DeployTypeOK' /\ Resting' /\ Running' /\ BeforeExchange' /\ AfterExchange' /\ Held' /\ Undoing'
    BY <1>1, <1>4, <2>1, <2>2 DEF DInv, DeployTypeOK, Resting, Running, BeforeExchange,
       AfterExchange, Held, Undoing
  <2>4. ASSUME NEW t \in replaced, t # tree', t \notin stale
        PROVE  \E c \in Configs : t = previous'[c]
    <3>1. CASE partner = "sibling"
      BY <1>4, <2>4, <3>1 DEF DInv, Kept, SwapPartner
    <3>2. CASE partner = "previous"
      <4>1. t # sibling
        BY <1>2, <3>2 DEF DInv, Held
      <4>2. t # previous[base]
        BY <2>1, <2>4, <3>2 DEF Holder
      <4> QED
        BY <1>1, <1>4, <2>4, <3>2, <4>1, <4>2 DEF DInv, DeployTypeOK, Kept, SwapPartner
    <3> QED
      BY <1>4, <3>1, <3>2 DEF SwapPartner
  <2>5. Kept' /\ JournalTellsTheTruth'
    BY <1>1, <1>4, <2>4 DEF Kept, JournalTellsTheTruth
  <2> QED
    BY <2>3, <2>5 DEF DInv
<1>5. CASE /\ partner # "none" /\ rollback' = "FAILED"
           /\ UNCHANGED <<tree, sibling, previous, partner, retained, replaced, interrupted>>
  <2>1. DeployTypeOK' /\ Resting' /\ Running' /\ BeforeExchange' /\ AfterExchange' /\ Held' /\ Undoing'
    BY <1>1, <1>5 DEF DInv, DeployTypeOK, Resting, Running, BeforeExchange, AfterExchange,
       Held, Holder, Undoing
  <2>2. Kept' /\ JournalTellsTheTruth'
    BY <1>1, <1>5 DEF DInv, Kept, Preserved, JournalTellsTheTruth
  <2> QED
    BY <2>1, <2>2 DEF DInv
<1> QED
  BY <1>3, <1>4, <1>5 DEF Rollback

(* The journal records the failure and the sibling is cleaned up.          *)
LEMMA CleanupDInv ==
    ASSUME DInv, Cleanup
    PROVE  DInv'
<1>1. /\ journal' \in Journal
      /\ journal'.status \in {"in-progress", "failed"}
      /\ journal'.status = "failed" => journal'.rollback = rollback
      /\ journal'.base = base
  BY DEF DInv, DeployTypeOK, Journal, Cleanup, Running
<1>2. DeployTypeOK'
  BY <1>1 DEF DInv, DeployTypeOK, Cleanup, KeepSibling, EndTransaction
<1>3. Kept'
  <2>1. \A t \in replaced : t # NoTree
    BY TreeAssumption DEF DInv, DeployTypeOK
  <2> QED
    BY <2>1 DEF DInv, Kept, Cleanup, KeepSibling
<1>4. JournalTellsTheTruth'
  BY <1>1 DEF DInv, Undoing, Cleanup, JournalTellsTheTruth
<1> QED
  BY <1>2, <1>3, <1>4, EndedDInv DEF Cleanup, KeepSibling

(* The process dies between two steps.                                     *)
LEMMA DiesDInv ==
    ASSUME DInv, dpc # "idle", DeployDies
    PROVE  DInv'
<1>1. DeployTypeOK'
  BY DEF DInv, DeployTypeOK, DeployDies, KeepSibling, EndTransaction
<1>2. Kept'
  <2>1. \A t \in replaced : t # NoTree
    BY TreeAssumption DEF DInv, DeployTypeOK
  <2> QED
    BY <2>1 DEF DInv, Kept, DeployDies, KeepSibling
<1>3. JournalTellsTheTruth'
  BY DEF DInv, Running, DeployDies, JournalTellsTheTruth
<1> QED
  BY <1>1, <1>2, <1>3, EndedDInv DEF DeployDies, KeepSibling

(* The environment changes the installed tree and nothing else.            *)
LEMMA EnvironmentDInv ==
    ASSUME DInv, tree' \in Tree,
           (dpc = "idle" /\ tree'.cfg = tree.cfg /\ edited' = edited) \/ edited' = TRUE,
           UNCHANGED <<sibling, previous, stale, journal, dpc, locals, replaced, interrupted>>
    PROVE  DInv'
<1>1. DeployTypeOK' /\ Resting' /\ Running' /\ BeforeExchange' /\ AfterExchange' /\ Held' /\ Undoing'
  BY DEF DInv, locals, DeployTypeOK, Resting, Running, BeforeExchange, AfterExchange, Held,
     Holder, Undoing
<1>2. Kept' /\ JournalTellsTheTruth'
  BY DEF DInv, locals, Kept, Preserved, JournalTellsTheTruth
<1> QED
  BY <1>1, <1>2 DEF DInv

(* A command or a gate writes a marker.                                    *)
LEMMA WriteMarkerDInv ==
    ASSUME DInv, NEW g \in Gates, NEW m \in Marker, WriteMarker(g, m)
    PROVE  DInv'
<1>1. tree' \in Tree /\ tree'.cfg = tree.cfg
  BY DEF DInv, DeployTypeOK, Tree, WriteMarker
<1> QED
  BY <1>1, EnvironmentDInv DEF WriteMarker

(* Root edits the configuration.                                           *)
LEMMA HandEditDInv ==
    ASSUME DInv, NEW c \in Configs, HandEdit(c)
    PROVE  DInv'
<1>1. tree' \in Tree
  BY DEF DInv, DeployTypeOK, Tree, HandEdit
<1> QED
  BY <1>1, EnvironmentDInv DEF HandEdit

-----------------------------------------------------------------------------
(* Every step of apply_bundle, of its handler and of its environment.      *)
LEMMA NextDInv ==
    ASSUME ~interrupted', DInv, [DeployNext]_deploy_vars
    PROVE  DInv'
<1>1. CASE UNCHANGED deploy_vars
  <2>1. DeployTypeOK' /\ Resting' /\ Running' /\ BeforeExchange' /\ AfterExchange' /\ Held' /\ Undoing'
    BY <1>1 DEF DInv, deploy_vars, trees, locals, DeployTypeOK, Resting, Running, BeforeExchange,
       AfterExchange, Held, Holder, Undoing
  <2>2. Kept' /\ JournalTellsTheTruth'
    BY <1>1 DEF DInv, deploy_vars, trees, locals, Kept, Preserved, JournalTellsTheTruth
  <2> QED
    BY <2>1, <2>2 DEF DInv
<1>2. CASE \E c \in Configs : Apply(c) \/ HandEdit(c)
  BY <1>2, ApplyDInv, HandEditDInv
<1>3. CASE DeployStep
  BY <1>3, CompareDInv, BuildDInv, ExchangeDInv, RenameDInv, CompleteDInv, RollbackDInv,
     CleanupDInv DEF DeployStep
<1>4. CASE dpc # "idle" /\ DeployDies
  BY <1>4, DiesDInv
<1>5. CASE \E g \in Gates, m \in Marker : WriteMarker(g, m)
  BY <1>5, WriteMarkerDInv
<1> QED
  BY <1>1, <1>2, <1>3, <1>4, <1>5 DEF DeployNext

(* An interrupt is never forgotten.                                        *)
LEMMA InterruptStays ==
    ASSUME interrupted, [DeployNext]_deploy_vars
    PROVE  interrupted'
<1>1. CASE UNCHANGED deploy_vars
  BY <1>1 DEF deploy_vars
<1>2. CASE \E c \in Configs : Apply(c) \/ HandEdit(c)
  BY <1>2 DEF Apply, HandEdit
<1>3. CASE DeployStep
  BY <1>3 DEF DeployStep, Backup, BuildNext, Exchange, Verify, RenamePrevious, Complete,
     Rollback, Cleanup, Raise, Interrupt
<1>4. CASE dpc # "idle" /\ DeployDies
  BY <1>4 DEF DeployDies
<1>5. CASE \E g \in Gates, m \in Marker : WriteMarker(g, m)
  BY <1>5 DEF WriteMarker
<1> QED
  BY <1>1, <1>2, <1>3, <1>4, <1>5 DEF DeployNext

(* The inductive invariant of apply_bundle: what the handler will find     *)
(* where it looks, at every step, as long as no statement is interrupted.  *)
THEOREM DeployInvariant == DeploySpec => [](~interrupted => DInv)
<1>1. DeployInit => (~interrupted => DInv)
  BY InitDInv
<1>2. (~interrupted => DInv) /\ [DeployNext]_deploy_vars => (~interrupted => DInv)'
  BY NextDInv, InterruptStays
<1> QED
  BY <1>1, <1>2, PTL DEF DeploySpec

(* Whatever fails and wherever the process dies, a tree that apply_bundle  *)
(* took away from /etc/t300 is still on disk.                              *)
THEOREM OldTreeSurvives == DeploySpec => []ReplacedTreeIsKept
<1>1. (~interrupted => DInv) => ReplacedTreeIsKept
  BY DEF DInv, Kept, ReplacedTreeIsKept, OnDisk
<1> QED
  BY <1>1, DeployInvariant, PTL

(* The verdict in the deployment journal, which release_arm relies on, is  *)
(* about the configuration that is installed.                              *)
THEOREM JournalIsTrue == DeploySpec => []JournalTellsTheTruth
<1>1. (~interrupted => DInv) => JournalTellsTheTruth
  BY DEF DInv, JournalTellsTheTruth
<1> QED
  BY <1>1, DeployInvariant, PTL

-----------------------------------------------------------------------------
(***************************************************************************)
(* The configuration transaction implements TreeStore, whatever interrupts *)
(* arrive.                                                                 *)
(***************************************************************************)

(* What is true at every step, interrupted or not: the tree that goes in   *)
(* is the one that was built, and what the handler exchanges back, when it *)
(* finds it, is a tree an exchange took out.                               *)
Built == [cfg |-> target, mark |-> update_next_markers(tree.mark)]

Points ==
    /\ dpc = "idle" => partner = "none" /\ sibling = NoTree
    /\ dpc # "idle" => base \in Configs /\ target \in Configs
    /\ dpc \in {"backup", "build", "exchange"} => partner = "none"
    /\ dpc = "exchange" => sibling = Built
    /\ dpc \in {"verify", "rename"} => partner = "sibling" /\ sibling \in Tree

Undoable ==
    dpc \in {"verify", "rename", "complete", "failed"} =>
        /\ partner = "sibling" /\ sibling # NoTree => sibling \in replaced
        /\ partner = "previous" => previous[base] \in replaced

WInv == DeployTypeOK /\ Points /\ Undoable

(* The tree that goes in is a tree.                                        *)
LEMMA BuiltType ==
    ASSUME DeployTypeOK, target \in Configs
    PROVE  Built \in Tree
<1>1. tree.mark \in [Gates -> Marker]
  BY DEF DeployTypeOK, Tree
<1> QED
  BY <1>1, NextMarkersType DEF Built, Tree

LEMMA InitWInv == DeployInit => WInv
<1> SUFFICES ASSUME DeployInit PROVE WInv
  OBVIOUS
<1>1. DeployTypeOK
  BY InitDInv DEF DInv
<1> QED
  BY <1>1 DEF DeployInit, WInv, Points, Undoable

(* A step that raises, and every step that only looks.                     *)
LEMMA LookWInv ==
    ASSUME WInv, UNCHANGED <<trees, journal, locals, replaced>>,
           edited' \in BOOLEAN, interrupted' \in BOOLEAN,
           \/ dpc \in {"backup", "exchange", "verify", "complete"} /\ dpc' = "failed"
           \/ dpc = "backup" /\ dpc' = "build"
           \/ dpc = "verify" /\ dpc' = "rename"
           \/ dpc' = dpc
    PROVE  WInv'
<1>1. DeployTypeOK'
  BY DEF WInv, DeployTypeOK, trees, locals
<1>2. Points' /\ Undoable'
  BY DEF WInv, Points, Undoable, Built, update_next_markers, trees, locals
<1> QED
  BY <1>1, <1>2 DEF WInv

LEMMA ApplyWInv ==
    ASSUME WInv, NEW c \in Configs, Apply(c)
    PROVE  WInv'
<1>1. /\ tree.cfg \in Configs
      /\ journal' \in Journal
  BY DEF WInv, DeployTypeOK, Tree, Apply, Journal
<1> QED
  BY <1>1 DEF WInv, DeployTypeOK, Points, Undoable, Apply, trees

LEMMA BuildWInv ==
    ASSUME WInv, BuildNext
    PROVE  WInv'
<1>1. sibling' = Built /\ Built' = Built /\ target \in Configs
  BY DEF WInv, Points, BuildNext, Built, locals, update_next_markers
<1>2. Built \in Tree
  BY <1>1, BuiltType DEF WInv
<1>3. DeployTypeOK'
  BY <1>1, <1>2 DEF WInv, DeployTypeOK, BuildNext, locals
<1> QED
  BY <1>1, <1>3 DEF WInv, Points, Undoable, BuildNext, locals

LEMMA ExchangeWInv ==
    ASSUME WInv, Exchange
    PROVE  WInv'
<1>1. CASE Raise /\ UNCHANGED edited
  BY <1>1, LookWInv DEF Raise, Exchange, WInv, DeployTypeOK
<1>2. CASE /\ tree' = sibling /\ sibling' = tree /\ replaced' = replaced \cup {tree}
           /\ \/ partner' = "sibling" /\ dpc' = "verify" /\ UNCHANGED interrupted
              \/ Interrupt /\ UNCHANGED partner
           /\ UNCHANGED <<previous, stale, journal, base, target, retained, rollback, edited>>
  <2>1. dpc = "exchange" /\ sibling = Built /\ target \in Configs /\ base \in Configs
    BY DEF Exchange, WInv, Points
  <2>2. sibling \in Tree /\ tree \in Tree
    BY <2>1, BuiltType DEF WInv, DeployTypeOK
  <2>3. DeployTypeOK'
    BY <1>2, <2>2 DEF WInv, DeployTypeOK, Interrupt
  <2> QED
    BY <1>2, <2>1, <2>2, <2>3 DEF WInv, Points, Undoable, Interrupt
<1> QED
  BY <1>1, <1>2 DEF Exchange

LEMMA RenameWInv ==
    ASSUME WInv, RenamePrevious
    PROVE  WInv'
<1>1. /\ dpc = "rename" /\ base \in Configs /\ target \in Configs
      /\ partner = "sibling" /\ sibling \in Tree /\ sibling \in replaced
  BY TreeAssumption DEF WInv, Points, Undoable, RenamePrevious
<1>2. CASE /\ previous' = [previous EXCEPT ![base] = sibling]
           /\ sibling' = NoTree
           /\ \/ /\ partner' = "previous" /\ retained' = "previous" /\ dpc' = "complete"
                 /\ UNCHANGED interrupted
              \/ Interrupt /\ UNCHANGED <<partner, retained>>
  <2>1. previous' \in [Configs -> Tree \cup {NoTree}] /\ previous'[base] = sibling
    BY <1>1, <1>2 DEF WInv, DeployTypeOK
  <2>2. DeployTypeOK'
    BY <1>2, <2>1 DEF WInv, DeployTypeOK, RenamePrevious, Interrupt
  <2> QED
    BY <1>1, <1>2, <2>1, <2>2 DEF WInv, Points, Undoable, RenamePrevious, Interrupt
<1>3. CASE /\ retained' = "sibling"
           /\ dpc' = "complete"
           /\ UNCHANGED <<previous, sibling, partner, interrupted>>
  <2>1. DeployTypeOK'
    BY <1>3 DEF WInv, DeployTypeOK, RenamePrevious
  <2> QED
    BY <1>1, <1>3, <2>1 DEF WInv, Points, Undoable, RenamePrevious
<1> QED
  BY <1>2, <1>3 DEF RenamePrevious

(* Every end of a transaction.                                             *)
LEMMA EndedWInv ==
    ASSUME DeployTypeOK', EndTransaction, sibling' = NoTree
    PROVE  WInv'
BY DEF EndTransaction, WInv, Points, Undoable

LEMMA CompleteWInv ==
    ASSUME WInv, Complete
    PROVE  WInv'
<1>1. CASE Raise /\ UNCHANGED edited
  BY <1>1, LookWInv DEF Raise, Complete, WInv, DeployTypeOK
<1>2. ASSUME journal' = [journal EXCEPT !.status = "complete"]
      PROVE  journal' \in Journal
  BY <1>2 DEF WInv, DeployTypeOK, Journal
<1>3. CASE /\ journal' = [journal EXCEPT !.status = "complete"]
           /\ KeepSibling /\ EndTransaction
           /\ UNCHANGED <<tree, previous, replaced, notes>>
  <2>1. DeployTypeOK'
    BY <1>2, <1>3 DEF WInv, DeployTypeOK, KeepSibling, EndTransaction
  <2> QED
    BY <1>3, <2>1, EndedWInv DEF KeepSibling
<1>4. CASE /\ journal' = [journal EXCEPT !.status = "complete"]
           /\ Interrupt
           /\ partner' \in {partner, "none"}
           /\ UNCHANGED <<tree, previous, sibling, stale, base, target, retained, rollback,
                          edited, replaced>>
  <2>1. DeployTypeOK'
    BY <1>2, <1>4 DEF WInv, DeployTypeOK, Interrupt
  <2> QED
    BY <1>4, <2>1 DEF WInv, Points, Undoable, Complete, Interrupt
<1> QED
  BY <1>1, <1>3, <1>4 DEF Complete

LEMMA RollbackWInv ==
    ASSUME WInv, Rollback
    PROVE  WInv'
<1>1. /\ dpc = "failed" /\ dpc' = "cleanup" /\ base \in Configs /\ target \in Configs
      /\ UNCHANGED <<stale, journal, edited, base, target>>
  BY DEF Rollback, WInv, Points, locals
<1>2. interrupted' \in BOOLEAN /\ rollback' \in Rollbacks /\ partner' \in Places
      /\ retained' \in Places /\ replaced' \subseteq Tree
  BY DEF Rollback, WInv, DeployTypeOK, locals
<1>3. /\ tree' \in Tree
      /\ sibling' \in Tree \cup {NoTree}
      /\ previous' \in [Configs -> Tree \cup {NoTree}]
  <2>1. CASE UNCHANGED <<tree, sibling, previous>>
    BY <2>1 DEF WInv, DeployTypeOK
  <2>2. CASE SwapPartner
    <3>1. partner = "sibling" /\ sibling # NoTree => sibling \in Tree
      BY DEF WInv, DeployTypeOK
    <3>2. partner = "previous" => previous[base] \in Tree
      BY <1>1 DEF WInv, DeployTypeOK, Undoable
    <3> QED
      BY <1>1, <2>2, <3>1, <3>2 DEF WInv, DeployTypeOK, SwapPartner
  <2> QED
    BY <2>1, <2>2 DEF Rollback
<1>4. DeployTypeOK'
  BY <1>1, <1>2, <1>3 DEF WInv, DeployTypeOK
<1> QED
  BY <1>1, <1>4 DEF WInv, Points, Undoable

LEMMA CleanupWInv ==
    ASSUME WInv, Cleanup
    PROVE  WInv'
<1>1. journal' \in Journal
  BY DEF WInv, DeployTypeOK, Journal, Cleanup
<1>2. DeployTypeOK'
  BY <1>1 DEF WInv, DeployTypeOK, Cleanup, KeepSibling, EndTransaction
<1> QED
  BY <1>2, EndedWInv DEF Cleanup, KeepSibling

LEMMA DiesWInv ==
    ASSUME WInv, DeployDies
    PROVE  WInv'
<1>1. DeployTypeOK'
  BY DEF WInv, DeployTypeOK, DeployDies, KeepSibling, EndTransaction
<1> QED
  BY <1>1, EndedWInv DEF DeployDies, KeepSibling

(* One marker is written while nothing runs, or the configuration edited.  *)
LEMMA WriteMarkerWInv ==
    ASSUME WInv, NEW g \in Gates, NEW m \in Marker, WriteMarker(g, m)
    PROVE  WInv'
<1>1. tree' \in Tree
  BY DEF WInv, DeployTypeOK, Tree, WriteMarker
<1> QED
  BY <1>1 DEF WInv, DeployTypeOK, Points, Undoable, WriteMarker, locals

LEMMA HandEditWInv ==
    ASSUME WInv, NEW c \in Configs, HandEdit(c)
    PROVE  WInv'
<1>1. tree' \in Tree /\ tree'.mark = tree.mark
  BY DEF WInv, DeployTypeOK, Tree, HandEdit
<1>2. Built' = Built
  BY <1>1 DEF Built, update_next_markers, HandEdit, locals
<1> QED
  BY <1>1, <1>2 DEF WInv, DeployTypeOK, Points, Undoable, HandEdit, locals

LEMMA NextWInv ==
    ASSUME WInv, [DeployNext]_deploy_vars
    PROVE  WInv'
<1>1. CASE UNCHANGED deploy_vars
  BY <1>1, LookWInv DEF deploy_vars, WInv, DeployTypeOK
<1>2. CASE \E c \in Configs : Apply(c) \/ HandEdit(c)
  BY <1>2, ApplyWInv, HandEditWInv
<1>3. CASE Backup \/ Verify
  BY <1>3, LookWInv DEF Backup, Verify, Raise, WInv, DeployTypeOK
<1>4. CASE DeployStep
  BY <1>3, <1>4, BuildWInv, ExchangeWInv, RenameWInv, CompleteWInv, RollbackWInv, CleanupWInv
     DEF DeployStep
<1>5. CASE dpc # "idle" /\ DeployDies
  BY <1>5, DiesWInv
<1>6. CASE \E g \in Gates, m \in Marker : WriteMarker(g, m)
  BY <1>6, WriteMarkerWInv
<1> QED
  BY <1>1, <1>2, <1>4, <1>5, <1>6 DEF DeployNext
-----------------------------------------------------------------------------
(* The mapping: as long as nothing was interrupted, the kept trees of      *)
(* TreeStore are all the trees exchanges took out.                         *)
Mapped == (interrupted => interrupted') /\ (~interrupted => DInv) /\ (~interrupted' => DInv')

DiskTrees == {t \in replaced : OnDisk(t)}

LEMMA AllOnDisk == ASSUME DInv PROVE DiskTrees = replaced
BY DEF DInv, Kept, OnDisk, DiskTrees

LEMMA AllOnDiskNext == ASSUME DInv' PROVE DiskTrees' = replaced'
BY DEF DInv, Kept, OnDisk, DiskTrees

(* What the transaction takes out and puts back is what TreeStore keeps.   *)
LEMMA KeepsSame ==
    ASSUME Mapped, ~interrupted' => replaced' = replaced
    PROVE  Store!Keeps(DiskTrees)
BY AllOnDisk, AllOnDiskNext DEF Mapped, Store!Keeps, DiskTrees

LEMMA KeepsMore ==
    ASSUME Mapped, ~interrupted' => replaced' = replaced \cup {tree}
    PROVE  Store!Keeps(DiskTrees \cup {tree})
BY AllOnDisk, AllOnDiskNext DEF Mapped, Store!Keeps, DiskTrees

LEMMA KeepsLess ==
    ASSUME Mapped, ~interrupted' => replaced' = replaced \ {tree'}
    PROVE  Store!Keeps(DiskTrees \ {tree'})
BY AllOnDisk, AllOnDiskNext DEF Mapped, Store!Keeps, DiskTrees

(* Steps inside a transaction that leave the installed tree alone.         *)
LEMMA WorkStep ==
    ASSUME Mapped, dpc # "idle", dpc' # "idle", UNCHANGED tree, ~interrupted' => replaced' = replaced
    PROVE  Store!Next
<1>1. Store!Work
  BY KeepsSame DEF Store!Work, DiskTrees
<1> QED
  BY <1>1 DEF Store!Next

LEMMA EndStep ==
    ASSUME Mapped, dpc # "idle", dpc' = "idle", UNCHANGED tree, replaced' = replaced
    PROVE  Store!Next
<1>1. Store!End
  BY KeepsSame DEF Store!End, DiskTrees
<1> QED
  BY <1>1 DEF Store!Next

LEMMA ApplyStep ==
    ASSUME Mapped, NEW c \in Configs, Apply(c)
    PROVE  Store!Next
<1>1. Store!Begin
  BY KeepsSame DEF Store!Begin, DiskTrees, Apply, trees
<1> QED
  BY <1>1 DEF Store!Next

(* The exchange puts in what the markers and the target determine.         *)
LEMMA ExchangeStep ==
    ASSUME Mapped, WInv, Exchange
    PROVE  Store!Next
<1>1. CASE Raise /\ UNCHANGED edited
  BY <1>1, WorkStep DEF Raise, Exchange, trees
<1>2. CASE /\ tree' = sibling /\ replaced' = replaced \cup {tree}
           /\ dpc' \in {"verify", "failed"}
  <2>1. dpc = "exchange" /\ sibling = Built /\ target \in Configs
    BY DEF Exchange, WInv, Points
  <2>2. update_next_markers(tree.mark) = Store!Carried(tree.mark, target)
    BY DEF update_next_markers, Store!Carried, Gates
  <2>3. Store!Replace(target)
    BY <1>2, <2>1, <2>2, KeepsMore DEF Store!Replace, Built, DiskTrees
  <2> QED
    BY <2>1, <2>3 DEF Store!Next
<1> QED
  BY <1>1, <1>2 DEF Exchange, Interrupt

(* The handler puts back a tree an exchange took out.                      *)
LEMMA RollbackStep ==
    ASSUME Mapped, WInv, Rollback
    PROVE  Store!Next
<1>1. dpc = "failed" /\ dpc' = "cleanup" /\ base \in Configs
  BY DEF Rollback, WInv, Points
<1>2. CASE UNCHANGED <<tree, replaced>>
  BY <1>1, <1>2, WorkStep
<1>3. CASE SwapPartner /\ replaced' = replaced \ {tree'}
  <2>1. tree' \in DiskTrees
    BY <1>1, <1>3 DEF SwapPartner, WInv, Undoable, DiskTrees, OnDisk
  <2>2. Store!GoBack
    BY <1>1, <1>3, <2>1, KeepsLess DEF Store!GoBack, DiskTrees
  <2> QED
    BY <2>2 DEF Store!Next
<1> QED
  BY <1>2, <1>3 DEF Rollback

LEMMA WriteMarkerStep ==
    ASSUME Mapped, NEW g \in Gates, NEW m \in Marker, WriteMarker(g, m)
    PROVE  Store!Next
<1>1. Store!Mark(g, m)
  BY KeepsSame DEF Store!Mark, DiskTrees, WriteMarker
<1> QED
  BY <1>1 DEF Store!Next

LEMMA HandEditStep ==
    ASSUME Mapped, NEW c \in Configs, HandEdit(c)
    PROVE  Store!Next
<1>1. Store!Edit(c)
  BY KeepsSame DEF Store!Edit, DiskTrees, HandEdit
<1> QED
  BY <1>1 DEF Store!Next

(* Every step of the transaction is a step of TreeStore or none.           *)
LEMMA StepRefines ==
    ASSUME WInv, ~interrupted => DInv, [DeployNext]_deploy_vars
    PROVE  [Store!Next]_(Store!vars)
<1>1. Mapped
  BY NextDInv, InterruptStays DEF Mapped
<1>2. CASE UNCHANGED deploy_vars
  BY <1>2 DEF deploy_vars, trees, Store!vars, OnDisk
<1>3. CASE \E c \in Configs : Apply(c) \/ HandEdit(c)
  BY <1>1, <1>3, ApplyStep, HandEditStep
<1>4. CASE Backup \/ Verify \/ BuildNext \/ RenamePrevious
  BY <1>1, <1>4, WorkStep
     DEF Backup, Verify, BuildNext, RenamePrevious, Raise, Interrupt, trees
<1>5. CASE Complete
  BY <1>1, <1>5, WorkStep, EndStep DEF Complete, Raise, Interrupt, EndTransaction, trees
<1>6. CASE Cleanup
  BY <1>1, <1>6, EndStep DEF Cleanup, EndTransaction
<1>7. CASE dpc # "idle" /\ DeployDies
  BY <1>1, <1>7, EndStep DEF DeployDies, EndTransaction
<1>8. CASE \E g \in Gates, m \in Marker : WriteMarker(g, m)
  BY <1>1, <1>8, WriteMarkerStep
<1> QED
  BY <1>1, <1>2, <1>3, <1>4, <1>5, <1>6, <1>7, <1>8, ExchangeStep, RollbackStep
     DEF DeployNext, DeployStep

(* The variables keep their types, interrupted or not; in particular       *)
(* /etc/t300 always is a complete tree, never a missing or a mixed one.    *)
THEOREM TreeAlwaysComplete == DeploySpec => []DeployTypeOK
<1>1. DeployInit => WInv
  BY InitWInv
<1>2. WInv /\ [DeployNext]_deploy_vars => WInv'
  BY NextWInv
<1>3. WInv => DeployTypeOK
  BY DEF WInv
<1> QED
  BY <1>1, <1>2, <1>3, PTL DEF DeploySpec

(* The transaction implements what TreeStore promises: whole trees only,   *)
(* no approval carried over, nothing lost, and back means back to a tree   *)
(* that was installed before.                                              *)
THEOREM DeployImplementsStore == DeploySpec => StoreSpec
<1>1. DeployInit => Store!Init
  BY DEF DeployInit, Store!Init
<1>2. DeployInit => WInv /\ (~interrupted => DInv)
  BY InitWInv, InitDInv
<1>3. WInv /\ (~interrupted => DInv) /\ [DeployNext]_deploy_vars
        => WInv' /\ (~interrupted => DInv)'
  BY NextWInv, NextDInv, InterruptStays
<1>4. WInv /\ (~interrupted => DInv) /\ [DeployNext]_deploy_vars
        => [Store!Next]_(Store!vars)
  BY StepRefines
<1> QED
  BY <1>1, <1>2, <1>3, <1>4, PTL DEF DeploySpec, StoreSpec, Store!Spec

-----------------------------------------------------------------------------
(* The whole system (Commissioning).                                       *)

(* What the markers of a tree say to one another, installed or set aside,  *)
(* whichever configuration the tree has been edited to.                    *)
Evidenced(p) ==
    p.state # "absent" =>
        /\ p.evidence \in {NoConfig, p.cfg}
        /\ p.cfg \in Unlocked => p.evidence = p.cfg

Earned(mark) ==
    mark["release"].state = "validated" =>
        /\ mark["production"].state = "started"
        /\ mark["production"].cfg = mark["release"].cfg
        /\ mark["production"].evidence = mark["release"].cfg
        /\ mark["host"].state = "validated"
        /\ mark["host"].cfg = mark["release"].cfg

Honest(t) == Evidenced(t.mark["production"]) /\ Earned(t.mark)

Unauthorized(t) == t.mark["maintenance"].state = "absent"

SetAside == {sibling} \cup stale \cup {previous[c] : c \in Configs}

(* Whatever the next rollback brings back is honest, and holds no          *)
(* maintenance authorization.                                              *)
TreesAreHonest ==
    /\ Honest(tree)
    /\ \A t \in SetAside \ {NoTree} : Honest(t) /\ Unauthorized(t)

(* Nobody but the transaction changes the installed markers while it runs: *)
(* commands wait for it, and there is no authorization to be consumed.     *)
OneAtATime ==
    /\ cmd # "none" => dpc = "idle"
    /\ dpc # "idle" => Unauthorized(tree)

(* What a command's checks found is still so when it writes its marker.    *)
StillSo ==
    /\ cmd = "production_arm" /\ step = "write" =>
          tree.cfg \notin Unlocked /\ held.evidence = NoConfig
    /\ cmd = "release_arm" /\ step = "write" => held.evidence = tree.cfg
    /\ cmd = "production_start" => held.cfg = tree.cfg /\ Evidenced(held) /\ held.state # "absent"
    /\ GateOf(cmd) \in {"host", "production"} => tree.mark["release"].state # "validated"
    /\ cmd = "release_accept" =>
          /\ tree.mark["production"].state = "started"
          /\ tree.mark["production"].cfg = tree.cfg
          /\ tree.mark["production"].evidence = tree.cfg
          /\ tree.mark["host"].state = "validated"
          /\ tree.mark["host"].cfg = tree.cfg
    /\ cmd = "maintenance_arm" => arms < MaxArms
    /\ cmd = "maintenance_start" => step # "write"

UsedOnce == sessions + (IF exists("maintenance") THEN 1 ELSE 0) <= arms

(* Conflicts= leaves no job of Klipper or Moonraker beside one of the      *)
(* maintenance unit.                                                       *)
Alone ==
    unit["maintenance"] # "inactive" => unit["klipper"] = "inactive" /\ unit["moonraker"] = "inactive"

CInv ==
    /\ TypeOK /\ WInv /\ TreesAreHonest /\ OneAtATime /\ StillSo /\ UsedOnce /\ Alone

USE DEF Gates, States, Jobs, Commands, Steps, Units, Printer, Production

-----------------------------------------------------------------------------
(* Every step of the controller, of systemd and of the owner is, for the   *)
(* trees and the journal, a step of ConfigDeploy or none.                  *)
LEMMA WritesOneMarker ==
    ASSUME CInv, NEW g \in Gates, NEW m \in Marker, SetMarker(g, m), dpc = "idle"
    PROVE  DeployNext /\ UNCHANGED <<dpc, sibling, previous, stale>>
           /\ tree' = [tree EXCEPT !.mark[g] = m]
           /\ tree'.cfg = tree.cfg
           /\ \A h \in Gates : tree'.mark[h] = IF h = g THEN m ELSE tree.mark[h]
<1>1. WriteMarker(g, m)
  BY DEF SetMarker, WriteMarker
<1>2. tree \in Tree
  BY DEF CInv, WInv, DeployTypeOK
<1> QED
  BY <1>1, <1>2 DEF DeployNext, WriteMarker, Tree

LEMMA GateOfType == \A c : GateOf(c) \in Gates
BY DEF GateOf

LEMMA BoundType ==
    ASSUME CInv
    PROVE  /\ tree.cfg \in Configs
           /\ Bound(held) \in Marker /\ Bound(held).state = held.state
           /\ Bound(held).evidence = held.evidence
           /\ Bound(held).cfg = IF cmd \in {"host_test_accept", "production_start"} THEN held.cfg
                                ELSE tree.cfg
           /\ [held EXCEPT !.state = "armed"] \in Marker /\ Absent \in Marker
BY DEF CInv, TypeOK, WInv, DeployTypeOK, Tree, Marker, Bound, Absent

LEMMA CommandWritesMarker ==
    ASSUME CInv, CommandWrites \/ CommandRevokes
    PROVE  \E m \in Marker :
              /\ SetMarker(GateOf(cmd), m) /\ dpc = "idle" /\ cmd # "none"
              /\ CommandWrites => m = Bound(held)
              /\ CommandRevokes => \/ m = Absent
                                   \/ cmd = "production_start" /\ m = [held EXCEPT !.state = "armed"]
BY BoundType DEF CInv, TypeOK, OneAtATime, CommandWrites, CommandRevokes, GateOf

LEMMA ConsumesMarker ==
    ASSUME CInv, consume_maintenance_marker
    PROVE  \/ UNCHANGED deploy_vars
           \/ /\ SetMarker("maintenance", Absent) /\ Absent \in Marker
              /\ dpc = "idle" /\ tree.mark["maintenance"].state = "armed-once"
BY BoundType DEF CInv, OneAtATime, Unauthorized, consume_maintenance_marker, unlink_maintenance_marker,
   read_marker

LEMMA Implements ==
    ASSUME CInv, [Next]_vars
    PROVE  [DeployNext]_deploy_vars
<1>1. CASE UNCHANGED vars
  BY <1>1 DEF vars
<1>2. CASE Check
  BY <1>2 DEF Check, Begin, host_test_start, host_test_accept, host_test_abort, storage_enable,
     production_arm, release_arm, production_start, release_accept, maintenance_arm,
     maintenance_start, transport_enable, transport_disable
<1>3. CASE CommandWrites \/ CommandRevokes
  BY <1>3, CommandWritesMarker, GateOfType, WritesOneMarker
<1>4. CASE CommandStarts \/ CommandRefreshes \/ CommandSucceeds \/ CommandFails \/ CommandUndoes
  BY <1>4 DEF CommandStarts, CommandRefreshes, CommandSucceeds, CommandFails, CommandUndoes
<1>5. CASE Deploy
  BY <1>5 DEF Deploy, DeployNext
<1>6. CASE Owner
  BY <1>6 DEF Owner, OwnerStarts, OwnerStops, OwnerEdits, DeployApply, DeployNext
<1>7. CASE Disturbance
  BY <1>7 DEF Disturbance, UnitFails, CommandKilled, DeployKilled, Reboot, DeployNext
<1>8. ASSUME NEW u \in Units, Job(u) PROVE [DeployNext]_deploy_vars
  <2>1. CASE consume_maintenance_marker
    BY <2>1, ConsumesMarker, WritesOneMarker
  <2> QED
    BY <1>8, <2>1 DEF Job, RunGate, Exec, Mount
<1> QED
  BY <1>1, <1>2, <1>3, <1>4, <1>5, <1>6, <1>7, <1>8 DEF Next, CommandStep

-----------------------------------------------------------------------------
(* The trees.                                                              *)
LEMMA QuietTrees ==
    ASSUME TreesAreHonest, UNCHANGED deploy_vars
    PROVE  TreesAreHonest'
BY DEF TreesAreHonest, SetAside, Honest, Unauthorized, deploy_vars, trees

(* The tree that a deployment builds has no approval of production or      *)
(* release left, and the maintenance marker it found: none.                *)
LEMMA BuiltIsHonest ==
    ASSUME WInv, Unauthorized(tree)
    PROVE  Honest(Built) /\ Unauthorized(Built)
BY DEF Built, update_next_markers, Honest, Evidenced, Earned, Unauthorized, Absent

(* What is set aside after a step of apply_bundle was set aside or         *)
(* installed before, or is the tree it built; what is installed was.       *)
LEMMA TreesMove ==
    ASSUME WInv, dpc # "idle", DeployStep \/ DeployDies
    PROVE  /\ tree' \in {tree} \cup (SetAside \ {NoTree})
           /\ SetAside' \ {NoTree} \subseteq SetAside \cup {tree, Built}
<1>1. tree # NoTree /\ base \in Configs /\ previous \in [Configs -> Tree \cup {NoTree}]
  BY TreeAssumption DEF WInv, DeployTypeOK, Points
<1>2. CASE Backup \/ Verify
  BY <1>2 DEF Backup, Verify, Raise, trees, SetAside
<1>3. CASE BuildNext
  BY <1>3 DEF BuildNext, Built, SetAside
<1>4. CASE Exchange
  <2>1. sibling # NoTree
    BY <1>4, BuiltType, TreeAssumption DEF WInv, Points, Exchange
  <2> QED
    BY <1>4, <2>1 DEF Exchange, Raise, trees, SetAside
<1>5. CASE RenamePrevious
  BY <1>1, <1>5 DEF RenamePrevious, SetAside
<1>6. CASE Complete
  BY <1>6 DEF Complete, KeepSibling, Raise, trees, SetAside
<1>7. CASE Rollback
  <2>1. previous[base] = NoTree => partner # "previous"
    BY <1>7, TreeAssumption DEF WInv, Undoable, Rollback, DeployTypeOK
  <2> QED
    BY <1>1, <1>7, <2>1 DEF Rollback, SwapPartner, SetAside
<1>8. CASE Cleanup
  BY <1>8 DEF Cleanup, KeepSibling, SetAside
<1>9. CASE DeployDies
  BY <1>9 DEF DeployDies, KeepSibling, SetAside
<1> QED
  BY <1>2, <1>3, <1>4, <1>5, <1>6, <1>7, <1>8, <1>9 DEF DeployStep

LEMMA TransactionTrees ==
    ASSUME CInv, dpc # "idle", DeployStep \/ DeployDies
    PROVE  TreesAreHonest' /\ Unauthorized(tree)'
<1>1. WInv /\ Unauthorized(tree) /\ TreesAreHonest
  BY DEF CInv, OneAtATime
<1>2. Honest(Built) /\ Unauthorized(Built)
  BY <1>1, BuiltIsHonest
<1>3. Honest(tree') /\ Unauthorized(tree')
  BY <1>1, TreesMove DEF TreesAreHonest
<1>4. \A t \in SetAside' \ {NoTree} : Honest(t) /\ Unauthorized(t)
  BY <1>1, <1>2, TreesMove DEF TreesAreHonest
<1> QED
  BY <1>3, <1>4 DEF TreesAreHonest, Honest, Unauthorized

-----------------------------------------------------------------------------
(* The parts that follow when a step leaves the trees and the transaction  *)
(* alone, or when no command runs after it.                                *)
LEMMA QuietCInv ==
    ASSUME CInv, UNCHANGED deploy_vars, TypeOK', StillSo', UsedOnce', Alone',
           cmd' # "none" => dpc = "idle"
    PROVE  CInv'
<1>1. WInv'
  BY NextWInv DEF CInv
<1>2. TreesAreHonest'
  BY QuietTrees DEF CInv
<1>3. OneAtATime'
  BY DEF CInv, OneAtATime, Unauthorized, deploy_vars, trees
<1> QED
  BY <1>1, <1>2, <1>3 DEF CInv

LEMMA NoCommandStillSo == ASSUME cmd' = "none" PROVE StillSo'
BY DEF StillSo, GateOf

LEMMA SameUsedOnce ==
    ASSUME CInv, UNCHANGED history, exists("maintenance")' => exists("maintenance")
    PROVE  UsedOnce'
BY DEF CInv, TypeOK, UsedOnce, exists, history

(* The checks of a command, and what they found.                           *)
LEMMA CheckCInv ==
    ASSUME CInv, Check
    PROVE  CInv'
<1> USE DEF Check, host_test_start, host_test_accept, host_test_abort, storage_enable,
        production_arm, release_arm, production_start, release_accept, maintenance_arm,
        maintenance_start, transport_enable, transport_disable
<1>1. UNCHANGED <<deploy_vars, systemd, history, budgets>> /\ Idle
  BY DEF Begin
<1>2. tree \in Tree /\ Absent \in Marker
      /\ \A s \in States, e \in Configs \cup {NoConfig} : new_marker(s, e) \in Marker
  BY DEF CInv, TypeOK, DeployTypeOK, Marker, Absent, new_marker
<1>3. \A m \in Marker, s \in States : [m EXCEPT !.state = s] \in Marker
  BY DEF Marker
<1>4. \A m \in Marker : [m EXCEPT !.state = "validated", !.evidence = accepted_evidence] \in Marker
  BY <1>2 DEF Marker, accepted_evidence, Tree
<1>5. TypeOK'
  <2>1. cmd' \in Commands /\ step' \in Steps /\ step' # "none" /\ held' \in Marker
    <3>1. accepted_evidence \in Configs \cup {NoConfig} /\ NoConfig \in Configs \cup {NoConfig}
      BY <1>2 DEF Tree, accepted_evidence
    <3>2. \A g \in Gates : tree.mark[g] \in Marker
      BY <1>2 DEF Tree
    <3> DEFINE Ready == cmd' \in Commands /\ step' \in Steps /\ step' # "none" /\ held' \in Marker
    <3>3. ASSUME host_test_start \/ host_test_abort \/ storage_enable \/ transport_enable
                   \/ transport_disable \/ maintenance_start
          PROVE  Ready
      BY <1>2, <3>1, <3>3 DEF Begin, Commands, Steps, States
    <3>4. ASSUME production_arm \/ release_arm \/ release_accept \/ maintenance_arm
          PROVE  Ready
      BY <1>2, <3>1, <3>4 DEF Begin, Commands, Steps, States
    <3>5. ASSUME host_test_accept \/ production_start
          PROVE  Ready
      BY <1>3, <1>4, <3>2, <3>5 DEF Begin, Commands, Steps, States, Gates
    <3> QED
      BY <3>3, <3>4, <3>5
  <2> QED
    BY <1>1, <2>1, QuietTrees DEF CInv, TypeOK, DeployTypeOK, deploy_vars, trees, locals, notes,
       systemd, history, budgets
<1>6. StillSo'
  <2>1. UNCHANGED <<tree, arms>>
    BY <1>1 DEF deploy_vars, trees, history
  <2>2. /\ cmd' = "production_arm" => tree.cfg \notin Unlocked /\ held'.evidence = NoConfig
        /\ cmd' = "release_arm" => held'.evidence = tree.cfg
        /\ cmd' = "maintenance_arm" => arms < MaxArms
        /\ cmd' = "maintenance_start" => step' # "write"
    <3>1. cmd' = "production_arm" => production_arm
      BY DEF Begin
    <3>2. cmd' = "release_arm" => release_arm
      BY DEF Begin
    <3>3. cmd' = "maintenance_arm" => maintenance_arm
      BY DEF Begin
    <3>4. cmd' = "maintenance_start" => maintenance_start
      BY DEF Begin
    <3> HIDE DEF Check
    <3> QED
      BY <3>1, <3>2, <3>3, <3>4 DEF Begin, new_marker, accepted_evidence
  <2>3. cmd' = "production_start" => held'.cfg = tree.cfg /\ Evidenced(held)' /\ held'.state # "absent"
    <3>1. ASSUME cmd' = "production_start"
          PROVE  /\ held' = [tree.mark["production"] EXCEPT !.state = "started"]
                 /\ read_marker("production", "armed")
      BY <3>1 DEF Begin
    <3>2. tree.mark["production"] \in Marker /\ Evidenced(tree.mark["production"])
      BY <1>2 DEF CInv, TreesAreHonest, Honest, Tree
    <3> QED
      BY <3>1, <3>2 DEF Evidenced, read_marker, Marker
  <2>4. GateOf(cmd') \in {"host", "production"} => tree.mark["release"].state # "validated"
    <3>1. GateOf(cmd') \in {"host", "production"} =>
             \/ tree.mark["production"].state \in {"absent", "armed"}
             \/ tree.mark["host"].state = "testing"
      BY DEF Begin, GateOf, exists, read_marker, CanArm
    <3> QED
      BY <3>1 DEF CInv, TreesAreHonest, Honest, Earned
  <2>5. cmd' = "release_accept" =>
          /\ tree.mark["production"].state = "started"
          /\ tree.mark["production"].cfg = tree.cfg
          /\ tree.mark["production"].evidence = tree.cfg
          /\ tree.mark["host"].state = "validated"
          /\ tree.mark["host"].cfg = tree.cfg
    BY DEF Begin, read_marker, CInv, TreesAreHonest, Honest, Evidenced
  <2> QED
    BY <2>1, <2>2, <2>3, <2>4, <2>5 DEF StillSo
<1>7. UsedOnce' /\ Alone'
  BY <1>1, SameUsedOnce DEF CInv, exists, Alone, deploy_vars, trees, systemd
<1> QED
  BY <1>1, <1>5, <1>6, <1>7, QuietCInv DEF Idle

(* The start of units in one transaction, Conflicts= and Requires= applied.*)
LEMMA StartAlone ==
    ASSUME CInv, NEW U \in SUBSET Units, Start(U),
           "maintenance" \in U => U \cap {"klipper", "moonraker"} = {}
    PROVE  unit' \in [Units -> Jobs] /\ Alone'
<1>1. unit \in [Units -> Jobs] /\ Alone
  BY DEF CInv, TypeOK
<1>2. \A u \in Units : u # "storage" => (u \in Requires(U) <=> u \in U)
  BY DEF Requires
<1>3. unit' \in [Units -> Jobs]
  BY <1>1 DEF Start
<1>4. \A u \in Units :
        unit'[u] = IF u \in Requires(U) /\ unit[u] = "inactive" THEN "queued"
                   ELSE IF u \in Conflicts(U) THEN "inactive" ELSE unit[u]
  BY DEF Start
<1>5. "maintenance" \in Conflicts(U) <=> U \cap {"klipper", "moonraker"} # {}
  BY DEF Conflicts
<1>6. "maintenance" \in U => {"klipper", "moonraker"} \subseteq Conflicts(U)
  BY DEF Conflicts
<1>7. ASSUME unit'["maintenance"] # "inactive"
      PROVE  unit'["klipper"] = "inactive" /\ unit'["moonraker"] = "inactive"
  <2>1. CASE "maintenance" \in U
    BY <1>2, <1>4, <1>6, <2>1
  <2>2. CASE "maintenance" \notin U
    <3>1. unit["maintenance"] # "inactive" /\ U \cap {"klipper", "moonraker"} = {}
      BY <1>2, <1>4, <1>5, <1>7, <2>2
    <3> QED
      BY <1>1, <1>2, <1>4, <3>1 DEF Alone
  <2> QED
    BY <2>1, <2>2
<1> QED
  BY <1>3, <1>7 DEF Alone

LEMMA StopAlone ==
    ASSUME CInv, NEW U, Stop(U)
    PROVE  unit' \in [Units -> Jobs] /\ Alone'
BY DEF CInv, TypeOK, Stop, Alone

(* A unit other than maintenance, Klipper and Moonraker changes, or one of *)
(* them goes on or ends.                                                   *)
LEMMA SetUnitAlone ==
    ASSUME CInv, NEW u \in Units, NEW j \in Jobs, unit' = [unit EXCEPT ![u] = j],
           u \in {"maintenance", "klipper", "moonraker"} => unit[u] # "inactive" \/ j = "inactive"
    PROVE  unit' \in [Units -> Jobs] /\ Alone'
BY DEF CInv, TypeOK, Alone

(* The marker is written, or revoked.                                      *)
LEMMA MarkerCInv ==
    ASSUME CInv, CommandWrites \/ CommandRevokes
    PROVE  CInv'
<1>1. PICK m \in Marker :
         /\ SetMarker(GateOf(cmd), m) /\ dpc = "idle" /\ cmd # "none"
         /\ CommandWrites => m = Bound(held)
         /\ CommandRevokes => \/ m = Absent
                              \/ cmd = "production_start" /\ m = [held EXCEPT !.state = "armed"]
  BY CommandWritesMarker
<1>2. /\ DeployNext /\ UNCHANGED <<dpc, sibling, previous, stale>>
      /\ tree'.cfg = tree.cfg
      /\ \A h \in Gates : tree'.mark[h] = IF h = GateOf(cmd) THEN m ELSE tree.mark[h]
  BY <1>1, GateOfType, WritesOneMarker
<1>3. WInv'
  BY <1>2, NextWInv DEF CInv
<1>4. UNCHANGED <<systemd, sessions, budgets>>
  BY DEF CommandWrites, CommandRevokes, history
<1>5. TypeOK'
  <2>1. arms' \in 0..MaxArms
    BY CommissioningAssumption DEF CInv, TypeOK, StillSo, CommandWrites, CommandRevokes, history
  <2>2. /\ cmd' \in Commands \cup {"none"} /\ step' \in Steps /\ (cmd' = "none" <=> step' = "none")
        /\ held' \in Marker
    BY <1>1, BoundType DEF CInv, TypeOK, CommandWrites, CommandRevokes, EndCommand
  <2> QED
    BY <1>3, <1>4, <2>1, <2>2 DEF CInv, TypeOK, WInv, systemd, budgets
<1>6. TreesAreHonest'
  <2>1. Honest(tree) /\ StillSo /\ held \in Marker /\ tree.cfg \in Configs
    BY BoundType DEF CInv, TypeOK, TreesAreHonest
  <2>2. Evidenced(tree'.mark["production"])
    <3>1. CASE GateOf(cmd) # "production"
      BY <1>2, <2>1, <3>1 DEF Honest
    <3>2. CASE m = Absent
      BY <1>2, <2>1, <3>2 DEF Honest, Evidenced, Absent
    <3>3. CASE cmd = "production_start" /\ (m = held \/ m = [held EXCEPT !.state = "armed"])
      <4>1. Evidenced(held) /\ held.state # "absent"
        BY <2>1, <3>3 DEF StillSo
      <4>2. Evidenced(m)
        BY <2>1, <3>3, <4>1 DEF Evidenced, Marker
      <4> QED
        BY <1>2, <2>1, <4>2 DEF Honest
    <3>4. CASE cmd \in {"production_arm", "release_arm"} /\ CommandWrites
      <4>1. m.cfg = tree.cfg /\ m.evidence = held.evidence /\ step = "write"
        BY <1>1, <3>4, BoundType DEF CommandWrites
      <4>2. Evidenced(m)
        BY <2>1, <3>4, <4>1, ConfigAssumption DEF StillSo, Evidenced
      <4> QED
        BY <1>2, <2>1, <4>2 DEF Honest
    <3> QED
      BY <1>1, <3>1, <3>2, <3>3, <3>4 DEF GateOf, Bound
  <2>3. Earned(tree'.mark)
    <3>1. CASE GateOf(cmd) \in {"host", "production"}
      BY <1>2, <2>1, <3>1 DEF StillSo, Earned
    <3>2. CASE GateOf(cmd) = "release"
      <4>1. cmd = "release_accept"
        BY <1>1, <3>2 DEF GateOf
      <4>2. m.cfg = tree.cfg \/ m.state = "absent"
        BY <1>1, <4>1, BoundType DEF Absent
      <4> QED
        BY <1>2, <2>1, <3>2, <4>1, <4>2 DEF StillSo, Earned
    <3>3. CASE GateOf(cmd) \in {"storage", "maintenance", "transport"}
      BY <1>2, <2>1, <3>3 DEF Honest, Earned
    <3> QED
      BY <3>1, <3>2, <3>3, GateOfType
  <2> QED
    BY <1>2, <2>2, <2>3 DEF CInv, TreesAreHonest, SetAside, Honest, Unauthorized
<1>7. OneAtATime'
  BY <1>1, <1>2 DEF OneAtATime
<1>8. StillSo'
  <2>1. CASE cmd' = "none"
    BY <2>1, NoCommandStillSo
  <2>2. CASE cmd' # "none"
    <3>1. CommandWrites /\ step = "write" /\ step' = "start" /\ UNCHANGED <<cmd, held>>
          /\ cmd \notin {"release_accept", "maintenance_arm"}
      BY <2>2 DEF CommandWrites, CommandRevokes, EndCommand
    <3>2. GateOf(cmd) \in {"host", "production"} => tree'.mark["release"] = tree.mark["release"]
      BY <1>2
    <3> QED
      BY <1>2, <3>1, <3>2 DEF CInv, StillSo
  <2> QED
    BY <2>1, <2>2
<1>9. Alone'
  BY <1>4 DEF CInv, Alone, systemd
<1>10. UsedOnce'
  <2>1. CASE GateOf(cmd) # "maintenance"
    <3>1. tree'.mark["maintenance"] = tree.mark["maintenance"] /\ arms' = arms
      BY <1>2, <2>1 DEF CommandWrites, CommandRevokes, GateOf, history
    <3> QED
      BY <1>4, <3>1, SameUsedOnce DEF history, exists
  <2>2. CASE GateOf(cmd) = "maintenance"
    <3>1. CASE CommandWrites
      <4>1. cmd = "maintenance_arm" /\ arms' = arms + 1
        BY <1>1, <2>2, <3>1 DEF GateOf, CInv, StillSo, CommandWrites
      <4> QED
        BY <1>4, <4>1 DEF CInv, TypeOK, UsedOnce, exists
    <3>2. CASE CommandRevokes
      <4>1. ~exists("maintenance")' /\ arms' = arms
        BY <1>1, <1>2, <2>2, <3>2 DEF exists, Absent, CommandRevokes, history, GateOf
      <4> QED
        BY <1>4, <4>1, SameUsedOnce DEF history
    <3> QED
      BY <3>1, <3>2
  <2> QED
    BY <2>1, <2>2
<1> QED
  BY <1>3, <1>5, <1>6, <1>7, <1>8, <1>9, <1>10 DEF CInv

(* A running command that goes on, waits, fails or stops units.            *)
LEMMA CommandCInv ==
    ASSUME CInv,
           \/ CommandStarts \/ CommandRefreshes \/ CommandSucceeds \/ CommandFails \/ CommandUndoes
    PROVE  CInv'
<1> USE DEF CommandStarts, CommandRefreshes, CommandSucceeds, CommandFails, CommandUndoes
<1>1. UNCHANGED <<deploy_vars, history, budgets>> /\ step \in Steps \ {"none", "write"}
  OBVIOUS
<1>2. /\ cmd' \in {cmd, "none"} /\ step' \in Steps /\ (cmd' = "none" <=> step' = "none")
      /\ cmd' # "none" => step' # "write" /\ held' = held
      /\ held' \in {held, Absent} /\ enabled' \subseteq {"host", "storage", "production"}
  BY DEF CInv, TypeOK, EndCommand, Enables, UndoDisables, systemd
<1>3. unit' \in [Units -> Jobs] /\ Alone'
  <2>1. CASE CommandStarts
    <3>1. /\ Starts(cmd) \subseteq Units
          /\ "maintenance" \in Starts(cmd) => Starts(cmd) \cap {"klipper", "moonraker"} = {}
      BY DEF Starts
    <3> QED
      BY <2>1, <3>1, StartAlone
  <2>2. CASE CommandRefreshes
    BY <2>2, SetUnitAlone
  <2>3. CASE CommandUndoes
    BY <2>3, StopAlone
  <2>4. CASE UNCHANGED unit
    BY <2>4 DEF CInv, TypeOK, Alone
  <2> QED
    BY <2>1, <2>2, <2>3, <2>4 DEF systemd
<1>4. TypeOK'
  BY <1>1, <1>2, <1>3, BoundType DEF CInv, TypeOK, DeployTypeOK, deploy_vars, trees, locals, notes,
     history, budgets
<1>5. StillSo'
  <2>1. CASE cmd' = "none"
    BY <2>1, NoCommandStillSo
  <2>2. CASE cmd' = cmd /\ cmd # "none"
    <3>1. UNCHANGED <<tree, arms>>
      BY <1>1 DEF deploy_vars, trees, history
    <3> QED
      BY <1>2, <2>2, <3>1 DEF CInv, StillSo
  <2> QED
    BY <1>2, <2>1, <2>2
<1>6. UsedOnce'
  BY <1>1, SameUsedOnce DEF exists, deploy_vars, trees
<1>7. cmd' # "none" => dpc = "idle"
  BY <1>2 DEF CInv, OneAtATime
<1> QED
  BY <1>1, <1>3, <1>4, <1>5, <1>6, <1>7, QuietCInv

(* A step of the transaction, or its end by a kill or a power loss.        *)
LEMMA TransactionCInv ==
    ASSUME CInv, dpc # "idle", DeployStep \/ DeployDies, UNCHANGED <<history, deploys>>,
           mishaps' \in 0..MaxMishaps, cmd' = "none" /\ step' = "none" /\ held' \in {held, Absent},
           enabled' = enabled, unit' \in [Units -> Jobs], Alone'
    PROVE  CInv'
<1>1. WInv'
  BY NextWInv DEF CInv, DeployNext
<1>2. TreesAreHonest' /\ Unauthorized(tree)'
  BY TransactionTrees
<1>3. TypeOK'
  BY <1>1, BoundType DEF CInv, TypeOK, WInv, history
<1>4. OneAtATime' /\ StillSo'
  BY <1>2, NoCommandStillSo DEF OneAtATime
<1>5. UsedOnce'
  BY <1>2, SameUsedOnce DEF exists, Unauthorized
<1> QED
  BY <1>1, <1>2, <1>3, <1>4, <1>5 DEF CInv

LEMMA DeployCInv ==
    ASSUME CInv, Deploy
    PROVE  CInv'
<1>1. dpc # "idle" /\ cmd = "none" /\ step = "none"
  BY DEF CInv, TypeOK, OneAtATime, Deploy, DeployStep, Backup, BuildNext, Exchange, Verify,
     RenamePrevious, Complete, Rollback, Cleanup
<1> QED
  BY <1>1, TransactionCInv DEF Deploy, command, systemd, history, budgets, CInv, TypeOK, Alone

(* The owner starts and stops units, edits the configuration and deploys.  *)
LEMMA OwnerCInv ==
    ASSUME CInv, Owner
    PROVE  CInv'
<1>1. ASSUME NEW U \in HandStarts \cup HandStops,
             (OwnerStarts(U) /\ U \in HandStarts) \/ OwnerStops(U)
      PROVE  CInv'
  <2>1. UNCHANGED <<deploy_vars, command, enabled, history, budgets>> /\ Idle
    BY <1>1 DEF OwnerStarts, OwnerStops
  <2>2. unit' \in [Units -> Jobs] /\ Alone'
    BY <1>1, StartAlone, StopAlone, CommissioningAssumption, NoConflictingStart
       DEF OwnerStarts, OwnerStops
  <2>3. TypeOK'
    BY <2>1, <2>2 DEF CInv, TypeOK, DeployTypeOK, deploy_vars, trees, locals, notes, command,
       history, budgets
  <2>4. StillSo' /\ UsedOnce'
    BY <2>1, NoCommandStillSo, SameUsedOnce DEF Idle, command, exists, deploy_vars, trees
  <2> QED
    BY <2>1, <2>2, <2>3, <2>4, QuietCInv DEF Idle
<1>2. ASSUME NEW c \in Configs, OwnerEdits(c) \/ DeployApply(c)
      PROVE  CInv'
  <2>1. /\ cmd = "none" /\ UNCHANGED <<command, systemd, history>>
        /\ mishaps' \in 0..MaxMishaps /\ deploys' \in 0..MaxDeploys
    BY <1>2, CommissioningAssumption DEF CInv, TypeOK, OwnerEdits, DeployApply, Mishap
  <2>2. WInv'
    BY <1>2, NextWInv DEF CInv, OwnerEdits, DeployApply, DeployNext
  <2>3. tree'.mark = tree.mark /\ SetAside' = SetAside /\ (dpc' # "idle" => Unauthorized(tree))
    BY <1>2 DEF CInv, OneAtATime, WInv, DeployTypeOK, Tree, OwnerEdits, HandEdit, DeployApply, Apply,
       trees, SetAside, Unauthorized
  <2>4. TypeOK' /\ Alone'
    BY <2>1, <2>2 DEF CInv, TypeOK, WInv, Alone, command, systemd, history
  <2>5. TreesAreHonest' /\ OneAtATime' /\ StillSo'
    BY <2>1, <2>3, NoCommandStillSo DEF CInv, TreesAreHonest, Honest, Unauthorized, OneAtATime, command
  <2>6. UsedOnce'
    BY <2>1, <2>3, SameUsedOnce DEF exists
  <2> QED
    BY <2>2, <2>4, <2>5, <2>6 DEF CInv
<1> QED
  BY <1>1, <1>2 DEF Owner

(* Units fail, commands and transactions are killed, the power goes.       *)
LEMMA DisturbanceCInv ==
    ASSUME CInv, Disturbance
    PROVE  CInv'
<1>1. mishaps' \in 0..MaxMishaps /\ UNCHANGED <<deploys, enabled, history>>
  BY CommissioningAssumption DEF CInv, TypeOK, Disturbance, UnitFails, CommandKilled, DeployKilled,
     Reboot, Mishap, systemd
<1>2. ASSUME UNCHANGED deploy_vars, unit' \in [Units -> Jobs], Alone',
             UNCHANGED command \/ EndCommand
      PROVE  CInv'
  <2>1. TypeOK'
    BY <1>1, <1>2, BoundType DEF CInv, TypeOK, DeployTypeOK, deploy_vars, trees, locals, notes,
       command, EndCommand, history
  <2>2. UNCHANGED <<tree, arms>>
    BY <1>1, <1>2 DEF deploy_vars, trees, history
  <2>3. StillSo'
    BY <1>2, <2>2, NoCommandStillSo DEF CInv, StillSo, command, EndCommand
  <2>4. UsedOnce'
    BY <1>1, <2>2, SameUsedOnce DEF exists
  <2> QED
    BY <1>2, <2>1, <2>3, <2>4, QuietCInv DEF CInv, OneAtATime, command, EndCommand
<1>3. ASSUME NEW u \in Units, UnitFails(u)
      PROVE  CInv'
  <2>1. UNCHANGED <<deploy_vars, command>>
    BY <1>3 DEF UnitFails
  <2>2. unit' \in [Units -> Jobs] /\ Alone'
    BY <1>3, SetUnitAlone, StopAlone DEF UnitFails, SetUnit
  <2> QED
    BY <1>2, <2>1, <2>2
<1>4. CASE CommandKilled
  BY <1>2, <1>4 DEF CommandKilled, systemd, CInv, TypeOK, Alone
<1>5. CASE DeployKilled
  <2>1. cmd = "none" /\ step = "none"
    BY <1>5 DEF CInv, TypeOK, OneAtATime, DeployKilled
  <2> QED
    BY <1>1, <1>5, <2>1, TransactionCInv DEF DeployKilled, command, systemd, CInv, TypeOK, Alone
<1>6. CASE Reboot
  <2>1. unit' \in [Units -> Jobs] /\ unit'["maintenance"] = "inactive"
    BY <1>6 DEF Reboot, Requires, BootUnits
  <2>2. Alone'
    BY <2>1 DEF Alone
  <2> QED
    BY <1>1, <1>2, <1>6, <2>1, <2>2, TransactionCInv DEF Reboot, EndCommand
<1> QED
  BY <1>3, <1>4, <1>5, <1>6 DEF Disturbance

(* systemd works off a job; the one of the maintenance unit uses up its    *)
(* authorization.                                                          *)
LEMMA JobCInv ==
    ASSUME CInv, NEW u \in Units, Job(u)
    PROVE  CInv'
<1>1. unit' \in [Units -> Jobs] /\ Alone'
  BY SetUnitAlone DEF Job, RunGate, Exec, consume_maintenance_marker, Mount, SetUnit
<1>2. UNCHANGED <<command, enabled, arms, budgets>>
  BY DEF Job, RunGate, Exec, consume_maintenance_marker, Mount, history
<1>3. CASE UNCHANGED <<deploy_vars, sessions>>
  <2>1. TypeOK'
    BY <1>1, <1>2, <1>3 DEF CInv, TypeOK, DeployTypeOK, deploy_vars, trees, locals, notes, command,
       budgets
  <2>2. tree' = tree
    BY <1>3 DEF deploy_vars, trees
  <2>3. StillSo' /\ UsedOnce'
    BY <1>2, <1>3, <2>2, SameUsedOnce DEF CInv, StillSo, command, history, exists
  <2> QED
    BY <1>1, <1>2, <1>3, <2>1, <2>3, QuietCInv DEF CInv, OneAtATime, command
<1>4. CASE /\ consume_maintenance_marker /\ unlink_maintenance_marker
           /\ read_marker("maintenance", "armed-once") /\ sessions' = sessions + 1
  <2>1. /\ SetMarker("maintenance", Absent) /\ Absent \in Marker
        /\ dpc = "idle" /\ tree.mark["maintenance"].state = "armed-once"
    BY <1>4, BoundType DEF CInv, OneAtATime, Unauthorized, unlink_maintenance_marker, read_marker
  <2>2. /\ DeployNext /\ UNCHANGED <<dpc, sibling, previous, stale>>
        /\ tree'.cfg = tree.cfg
        /\ \A h \in Gates : tree'.mark[h] = IF h = "maintenance" THEN Absent ELSE tree.mark[h]
    BY <2>1, WritesOneMarker
  <2>3. WInv'
    BY <2>2, NextWInv DEF CInv
  <2>4. TypeOK'
    BY <1>1, <1>2, <1>4, <2>3 DEF CInv, TypeOK, WInv, command, budgets
  <2>5. TreesAreHonest'
    BY <2>2 DEF CInv, TreesAreHonest, SetAside, Honest, Earned, Unauthorized
  <2>6. OneAtATime' /\ StillSo'
    BY <1>2, <2>1, <2>2 DEF CInv, OneAtATime, StillSo, command
  <2>7. UsedOnce'
    BY <1>2, <1>4, <2>1, <2>2 DEF CInv, TypeOK, UsedOnce, exists, Absent
  <2> QED
    BY <1>1, <2>3, <2>4, <2>5, <2>6, <2>7 DEF CInv
<1> QED
  BY <1>3, <1>4 DEF Job, RunGate, Exec, consume_maintenance_marker, Mount, history

-----------------------------------------------------------------------------
(* The provisioned printer.                                                *)
LEMMA InitCInv == Init => CInv
<1> SUFFICES ASSUME Init PROVE CInv
  OBVIOUS
<1>1. WInv
  BY InitWInv DEF Init
<1>2. tree.mark = [g \in Gates |-> Absent] /\ Absent.state = "absent"
  BY DEF Init, DeployInit, Absent
<1>3. TypeOK
  BY <1>1, CommissioningAssumption DEF Init, TypeOK, WInv, Marker, Absent
<1>4. TreesAreHonest
  <2>1. SetAside \ {NoTree} = {}
    BY DEF Init, DeployInit, SetAside
  <2> QED
    BY <1>2, <2>1 DEF TreesAreHonest, Honest, Evidenced, Earned
<1>5. OneAtATime /\ StillSo /\ UsedOnce /\ Alone
  BY <1>2 DEF Init, DeployInit, OneAtATime, StillSo, GateOf, UsedOnce, exists, Alone
<1> QED
  BY <1>1, <1>3, <1>4, <1>5 DEF CInv

LEMMA NextCInv ==
    ASSUME CInv, [Next]_vars
    PROVE  CInv'
<1>1. CASE UNCHANGED vars
  <2>1. UNCHANGED <<deploy_vars, cmd, step, held, unit, enabled, arms, sessions, mishaps, deploys>>
    BY <1>1 DEF vars, command, systemd, history, budgets
  <2>2. UNCHANGED <<tree, dpc>>
    BY <2>1 DEF deploy_vars, trees
  <2>3. TypeOK'
    BY <2>1 DEF CInv, TypeOK, DeployTypeOK, deploy_vars, trees, locals, notes
  <2>4. StillSo' /\ UsedOnce' /\ Alone'
    BY <2>1, <2>2 DEF CInv, StillSo, UsedOnce, exists, Alone
  <2> QED
    BY <2>1, <2>3, <2>4, QuietCInv DEF CInv, OneAtATime
<1>2. CASE CommandStep
  BY <1>2, MarkerCInv, CommandCInv DEF CommandStep
<1> QED
  BY <1>1, <1>2, CheckCInv, DeployCInv, OwnerCInv, DisturbanceCInv, JobCInv DEF Next

(* The inductive invariant of the controller, the units and the            *)
(* transaction: every tree a rollback can bring back is as honest as the   *)
(* installed one, what a check found still holds when the marker is        *)
(* written, and nothing else writes markers while a transaction runs.      *)
THEOREM CommissioningInvariant == Spec => []CInv
BY InitCInv, NextCInv, PTL DEF Spec

(* A production marker that counts for an unlocked configuration records   *)
(* evidence for that very configuration.                                   *)
THEOREM UnlockRestsOnEvidence == Spec => []UnlockedNeedsEvidence
<1>1. CInv => UnlockedNeedsEvidence
  BY DEF CInv, TreesAreHonest, Honest, Evidenced, UnlockedNeedsEvidence, exists
<1> QED
  BY <1>1, CommissioningInvariant, PTL

(* A final release that counts rests on a started, evidence-backed release *)
(* candidate and a validated host of the same configuration.               *)
THEOREM ReleaseRestsOnBoth == Spec => []ReleaseIsEarned
<1>1. CInv => ReleaseIsEarned
  BY DEF CInv, TreesAreHonest, Honest, Earned, ReleaseIsEarned, read_marker
<1> QED
  BY <1>1, CommissioningInvariant, PTL

(* One authorization, one maintenance session, and never beside Klipper or *)
(* Moonraker.                                                              *)
THEOREM OneSessionPerAuthorization == Spec => []MaintenanceOneUse
<1>1. CInv => MaintenanceOneUse
  BY DEF CInv, UsedOnce, Alone, MaintenanceOneUse, units_inactive
<1> QED
  BY <1>1, CommissioningInvariant, PTL

(* The controller and systemd do to the trees and the journal only what    *)
(* ConfigDeploy allows their environment, and the transaction runs in it.  *)
THEOREM CommissioningIsDeploy == Spec => DeploySpec
<1>1. Init => DeployInit
  BY DEF Init
<1>2. CInv /\ [Next]_vars => [DeployNext]_deploy_vars
  BY Implements
<1> QED
  BY <1>1, <1>2, CommissioningInvariant, PTL DEF Spec, DeploySpec

(* So what is proved of the transaction alone is true of it in the whole   *)
(* system: the store's promise, the trees on disk and the journal.         *)
THEOREM SystemKeepsTheStore ==
    Spec => StoreSpec /\ []JournalTellsTheTruth /\ []ReplacedTreeIsKept
BY CommissioningIsDeploy, DeployImplementsStore, JournalIsTrue, OldTreeSurvives, PTL
=============================================================================
