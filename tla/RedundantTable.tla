---------------------------- MODULE RedundantTable ----------------------------
(***************************************************************************)
(* What a repair promises about the copies of a partition table that would *)
(* survive a power cut.  The backup copy never changes.  The primary copy  *)
(* changes only on a medium that has a valid backup.  A repair is reported *)
(* as done only while both copies are valid and equal.                     *)
(***************************************************************************)
CONSTANTS Media, Tables, NoTable, NoMedium

VARIABLES primary,      \* per medium: the table its primary copy holds
          backup,       \* per medium: the table its backup copy holds
          restored      \* the medium reported as repaired

vars == <<primary, backup, restored>>

Copies == [Media -> Tables \cup {NoTable}]

Init == primary \in Copies /\ backup \in Copies /\ restored = NoMedium

Matching(m) == backup[m] # NoTable /\ primary[m] = backup[m]

Rewrite(m) ==
    /\ backup[m] # NoTable
    /\ restored # m
    /\ \E t \in Tables \cup {NoTable} : primary' = [primary EXCEPT ![m] = t]
    /\ UNCHANGED <<backup, restored>>

Report(m) ==
    /\ restored = NoMedium
    /\ Matching(m)
    /\ restored' = m
    /\ UNCHANGED <<primary, backup>>

Forget == /\ restored # NoMedium
          /\ restored' = NoMedium
          /\ UNCHANGED <<primary, backup>>

Next == Forget \/ \E m \in Media : Rewrite(m) \/ Report(m)

Spec == Init /\ [][Next]_vars
=============================================================================
