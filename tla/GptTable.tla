------------------------------- MODULE GptTable -------------------------------
(***************************************************************************)
(* The on-disk GUID partition table as Visor reads it: what gpt_diagnose   *)
(* accepts as a valid copy, how it classifies a disk and when it is        *)
(* willing to rebuild the primary copy from the backup.                    *)
(*                                                                         *)
(* A disk is a function from block addresses to sectors.  A sector is a    *)
(* header, one sector's worth of partition entries, or something else.     *)
(* Checksums are modelled by what they decide: a header carries the        *)
(* identity of the table whose entry array its array CRC was computed      *)
(* over, and `ok' says that its own CRC and constant fields are right.     *)
(***************************************************************************)
EXTENDS Integers

CONSTANTS
    LastBlock,      \* address of the last block of the disk
    ArrLen,         \* sectors taken by the partition entry array
    FirstUsable,    \* first block a partition may use
    LastUsable,     \* last block a partition may use
    Tables,         \* partition tables (identified by their array CRC)
    SoundTables,    \* the tables whose partitions pass gpt_check_layout
    Contents,       \* what one sector of an entry array may hold
    Image,          \* Image[t][i]: sector i of the entry array of table t
    Junk,           \* a sector that is neither a header nor an entry sector
    Protective      \* block 0 when it holds a protective MBR

LBA == 0 .. LastBlock

Header == [my : LBA, alt : LBA, ent : LBA, tbl : Tables, ok : BOOLEAN]

Sector == Header \cup Contents \cup {Junk, Protective}

Disk == [LBA -> Sector]

ASSUME GeometryAssumption ==
    /\ LastBlock \in Nat /\ ArrLen \in Nat \ {0}
    /\ FirstUsable \in Nat /\ LastUsable \in Nat
    /\ 2 + ArrLen <= FirstUsable
    /\ FirstUsable <= LastUsable
    /\ LastUsable + ArrLen + 1 <= LastBlock

ASSUME TableAssumption ==
    /\ SoundTables \subseteq Tables
    /\ Image \in [Tables -> [1 .. ArrLen -> Contents]]
    /\ \A t, u \in Tables : Image[t] = Image[u] => t = u

ASSUME SectorAssumption ==
    /\ Junk \notin Header /\ Protective \notin Header
    /\ Contents \cap Header = {}

-----------------------------------------------------------------------------
(* Blocks an entry array starting at `start' occupies. *)
ArrayBlocks(start) == start .. start + ArrLen - 1

(* The blocks a repair writes: header at block 1, entries from block 2. *)
PrimaryBlocks == 1 .. ArrLen + 1

(* gpt_parse_header: `present' means the signature was found. *)
Present(disk, bad, at) == at \notin bad /\ disk[at] \in Header

HeaderValid(disk, bad, at) ==
    /\ Present(disk, bad, at)
    /\ disk[at].ok
    /\ disk[at].my = at
    /\ disk[at].alt # 0

(* gpt_load_entries: the array lies on the disk, outside the usable range, *)
(* every sector of it reads back, and its CRC is the one in the header.    *)
ArrayPlaced(start) ==
    /\ start # 0
    /\ start + ArrLen - 1 <= LastBlock
    /\ start > LastUsable \/ start + ArrLen <= FirstUsable

EntriesMatch(disk, start, t) ==
    \A i \in 1 .. ArrLen : disk[start + i - 1] = Image[t][i]

EntriesValid(disk, bad, hdr) ==
    /\ ArrayPlaced(hdr.ent)
    /\ ArrayBlocks(hdr.ent) \cap bad = {}
    /\ EntriesMatch(disk, hdr.ent, hdr.tbl)

(* gpt_check_layout: every used entry has a GUID of its own and a range in  *)
(* the usable blocks, and no two overlap.                                  *)
LaidOut(t) == t \in SoundTables

(* One copy with header, entries and layout all valid. *)
CopyValid(disk, bad, at) ==
    /\ HeaderValid(disk, bad, at)
    /\ EntriesValid(disk, bad, disk[at])
    /\ LaidOut(disk[at].tbl)

(* gpt_compare: the two headers and arrays describe the same table. *)
CopiesAgree(disk) == disk[LastBlock].tbl = disk[1].tbl

(* gpt_diagnose with full = 0 takes a backup header that agrees with a     *)
(* valid primary as proof of the whole backup copy and skips its array.    *)
BackupAccepted(disk, bad, full) ==
    \/ CopyValid(disk, bad, LastBlock)
    \/ /\ ~full
       /\ CopyValid(disk, bad, 1)
       /\ HeaderValid(disk, bad, LastBlock)
       /\ CopiesAgree(disk)

(* Mutant: block 0 is never recognised as a protective MBR. *)
MbrNeverProtective(disk, bad) == FALSE

MbrProtective(disk, bad) == 0 \notin bad /\ disk[0] = Protective

(* gpt_classify; a copy that could not be read counts as absent. *)
Classify(disk, bad, full) ==
    LET p == CopyValid(disk, bad, 1)
        b == BackupAccepted(disk, bad, full)
        laidOutBadly(at) == /\ HeaderValid(disk, bad, at)
                            /\ EntriesValid(disk, bad, disk[at])
                            /\ ~LaidOut(disk[at].tbl)
    IN  CASE ~Present(disk, bad, 1) /\ ~Present(disk, bad, LastBlock) -> "not_gpt"
          [] p /\ b -> IF CopiesAgree(disk)
                       THEN "healthy" ELSE "copies_differ"
          [] p /\ ~b -> "backup_corrupt"
          [] ~p /\ b -> IF Present(disk, bad, 1) \/ MbrProtective(disk, bad)
                        THEN "primary_corrupt" ELSE "unsafe"
          [] OTHER -> IF laidOutBadly(1) \/ laidOutBadly(LastBlock)
                      THEN "invalid_layout" ELSE "both_corrupt"

(* gpt_build_primary_plan: only from a fully valid backup at the end of a  *)
(* disk whose primary copy is the damaged one.                             *)
Plannable(disk, bad, full) ==
    /\ Classify(disk, bad, full) = "primary_corrupt"
    /\ disk[LastBlock].alt = 1

(* Mutant: the header keeps the backup's own address. *)
NewHeaderNotRelocated(src) ==
    [my |-> src.my, alt |-> LastBlock, ent |-> 2, tbl |-> src.tbl, ok |-> src.ok]

(* The header sector the plan computes: the backup's fields, relocated. *)
NewHeader(src) == [my |-> 1, alt |-> LastBlock, ent |-> 2, tbl |-> src.tbl, ok |-> src.ok]

-----------------------------------------------------------------------------
(* What a later boot can recover from a disk when every block reads back. *)
ValidAt(disk, at) == CopyValid(disk, {}, at)

Recoverable(disk) == {at \in {1, LastBlock} : ValidAt(disk, at)}
=============================================================================
