----------------------------- MODULE VolumeMenu -----------------------------
(***************************************************************************)
(* What hot-plug discovery promises, without polls and handles: the menu   *)
(* shows, of each volume, some of the boot files found on it.  Volumes are *)
(* searched one at a time; a search starts from nothing shown, and what it *)
(* finds comes from the volume searched.  A volume that goes away takes    *)
(* all it shows with it, at once, and ends a search of it.                 *)
(***************************************************************************)
EXTENDS FiniteSets

CONSTANTS Volumes, Nowhere, Files

VARIABLES
    shown,      \* per volume: the files that have an entry
    turn        \* the volume that is searched, or Nowhere (no volume)

Init == shown \in [Volumes -> SUBSET Files] /\ turn = Nowhere

Begin(v) == turn = Nowhere /\ shown[v] = {} /\ turn' = v /\ UNCHANGED shown

(* Only the volume searched shows more; it keeps what it showed. *)
Offer ==
    /\ turn # Nowhere
    /\ shown' \in [Volumes -> SUBSET Files]
    /\ shown[turn] \subseteq shown'[turn]
    /\ \A v \in Volumes \ {turn} : shown'[v] = shown[v]
    /\ turn' \in {turn, Nowhere}

Withdraw(gone) ==
    /\ shown' = [v \in Volumes |-> IF v \in gone THEN {} ELSE shown[v]]
    /\ turn' = IF turn \in gone THEN Nowhere ELSE turn

Next ==
    \/ \E v \in Volumes : Begin(v)
    \/ Offer
    \/ \E gone \in SUBSET Volumes : Withdraw(gone)

Spec == Init /\ [][Next]_<<shown, turn>>
=============================================================================
