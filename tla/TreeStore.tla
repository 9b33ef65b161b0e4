----------------------------- MODULE TreeStore -----------------------------
(***************************************************************************)
(* What a configuration deployment promises to whoever reads /etc/t300.    *)
(* There are no steps, names, journals or processes here: at every instant *)
(* one whole tree is installed; a deployment puts in a tree that carries   *)
(* no approval over and keeps the one it takes out; going back puts in a   *)
(* kept tree, unchanged; markers are written one at a time and never       *)
(* during a deployment.  An interrupted deployment may lose a kept tree    *)
(* and promises all the rest.                                              *)
(***************************************************************************)
CONSTANTS
    Configs, Gates, Marker, Absent,
    Initial,        \* the provisioned tree
    Revoked,        \* approvals that end with the configuration they name
    Rebound         \* the ones that are carried over to the next one

VARIABLES
    installed,      \* the tree at /etc/t300
    kept,           \* the trees deployments took out that are on disk
    busy,           \* a deployment runs
    intact          \* no deployment was interrupted so far

vars == <<installed, kept, busy, intact>>

Init == installed = Initial /\ kept = {} /\ busy = FALSE /\ intact = TRUE

(* Nothing but an interrupt makes the kept trees differ from K.            *)
Keeps(K) == intact' => intact /\ kept' = K

Begin == ~busy /\ busy' /\ UNCHANGED installed /\ Keeps(kept)

Carried(mark, c) ==
    [g \in Gates |->
        IF g \in Revoked THEN Absent
        ELSE IF g \in Rebound /\ mark[g].state # "absent" THEN [mark[g] EXCEPT !.cfg = c]
        ELSE mark[g]]

Replace(c) ==
    /\ busy
    /\ installed' = [cfg |-> c, mark |-> Carried(installed.mark, c)]
    /\ Keeps(kept \cup {installed})
    /\ UNCHANGED busy

GoBack ==
    /\ busy
    /\ installed' \in kept
    /\ Keeps(kept \ {installed'})
    /\ UNCHANGED busy

(* What else a deployment does shows here only when it is interrupted.     *)
Work == busy /\ UNCHANGED <<installed, busy>> /\ Keeps(kept)

End == busy /\ ~busy' /\ UNCHANGED installed /\ Keeps(kept)

Mark(g, m) ==
    /\ ~busy
    /\ installed' = [installed EXCEPT !.mark[g] = m]
    /\ UNCHANGED busy
    /\ Keeps(kept)

Edit(c) ==
    /\ installed' = [installed EXCEPT !.cfg = c]
    /\ UNCHANGED busy
    /\ Keeps(kept)

Next ==
    \/ Begin \/ GoBack \/ Work \/ End
    \/ \E c \in Configs : Replace(c) \/ Edit(c)
    \/ \E g \in Gates, m \in Marker : Mark(g, m)

Spec == Init /\ [][Next]_vars
=============================================================================
