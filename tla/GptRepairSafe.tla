---------------------------- MODULE GptRepairSafe ----------------------------
(***************************************************************************)
(* Why the repair is safe: the inductive invariant of GptRepair and the    *)
(* mapping under which it implements RedundantTable, for disks whose       *)
(* backup header names an array behind the usable range (where every       *)
(* partitioning tool puts it; gpt_build_primary_plan does not check it).   *)
(***************************************************************************)
EXTENDS GptRepair

CONSTANTS NoTable, NoMedium

ASSUME BackupBehindPartitions ==
    \A d \in Disks : \A m \in Media :
        d[m][LastBlock] \in Header => d[m][LastBlock].ent > LastUsable

ASSUME NoValueAssumption == NoTable \notin Tables /\ NoMedium \notin Media

CacheEmpty == \A l \in LBA : cache[l] = Clean

(* A valid backup copy behind the usable range. *)
SourceCopy(disk) == ValidAt(disk, LastBlock) /\ disk[LastBlock].ent > LastUsable

BackupPlaced ==
    \A m \in Media : platter[m][LastBlock] \in Header => platter[m][LastBlock].ent > LastUsable

(* Nothing outside the primary copy is ever waiting to be written, and     *)
(* whatever waits belongs to a writable medium with a valid backup.        *)
CacheScope ==
    /\ \A l \in LBA \ PrimaryBlocks : cache[l] = Clean
    /\ ~CacheEmpty => /\ inserted = target /\ target \notin locked
                      /\ SourceCopy(platter[target])

(* A plan stays true of the medium it was built for. *)
PlanSound ==
    plan \in Header =>
        /\ platter[target][LastBlock] = plan
        /\ SourceCopy(platter[target])
        /\ target \notin locked
        /\ ~changed => inserted = target

(* The entries are flushed as planned; the header is written, and waits in *)
(* the cache, only over entries that are durable; verification starts with *)
(* nothing left in the cache.                                              *)
CommitOrder ==
    ~changed =>
        /\ pc = "flush_entries" => EntriesMatch(View, 2, plan.tbl)
        /\ pc \in {"header", "flush_header"} =>
             /\ EntriesMatch(platter[target], 2, plan.tbl)
             /\ \A l \in 2 .. ArrLen + 1 : cache[l] = Clean
        /\ pc = "verify" => CacheEmpty

Settled ==
    outcome = "success" =>
        /\ pc = "result" /\ CacheEmpty
        /\ Classify(platter[target], {}, TRUE) = "healthy"

IInv == /\ TypeOK
        /\ BackupPlaced
        /\ CacheScope
        /\ PlanSound
        /\ CommitOrder
        /\ Settled

-----------------------------------------------------------------------------
TableAt(disk, at) == IF ValidAt(disk, at) THEN disk[at].tbl ELSE NoTable

PrimaryTable == [m \in Media |-> TableAt(platter[m], 1)]
BackupTable == [m \in Media |-> TableAt(platter[m], LastBlock)]
Restored == IF outcome = "success" THEN target ELSE NoMedium

Redundant == INSTANCE RedundantTable
    WITH primary <- PrimaryTable, backup <- BackupTable, restored <- Restored

(* The repair implements RedundantTable: seen through the copies a later   *)
(* boot would accept, it never touches a backup, rewrites a primary only   *)
(* under a valid backup and reports success only while both are equal.     *)
ImplementsRedundantTable == Redundant!Spec
=============================================================================
