----------------------------- MODULE MCGptRepair -----------------------------
(* A small drive for GptRepair: nine blocks, two-sector entry arrays and two *)
(* tables that share their second entry sector.                             *)
EXTENDS GptRepair, TLC

CONSTANTS T, S, t1, s1, x2, m1, m2

MCImage == [t \in {T, S} |-> IF t = T THEN <<t1, x2>> ELSE <<s1, x2>>]

Hdr(my, alt, ent, t, good) ==
    [my |-> my, alt |-> alt, ent |-> ent, tbl |-> t, ok |-> good]

(* A disk: block 0, the primary header and array, the backup array's place *)
(* and content, the backup header; block 5 is the only usable block.       *)
DiskImage(mbr, head, arr, at, barr, bhead) ==
    [l \in 0 .. 8 |->
        IF l \in at .. at + 1 THEN barr[l - at + 1]
        ELSE CASE l = 0 -> mbr
               [] l = 1 -> head
               [] l \in {2, 3} -> arr[l - 1]
               [] l = 8 -> bhead
               [] OTHER -> Junk]

Good(t) == Hdr(1, 8, 2, t, TRUE)
Torn(t) == Hdr(1, 8, 2, t, FALSE)
Backup(t, at) == Hdr(8, 1, at, t, TRUE)

(* Backup T, stored where the standard puts it, with a primary that is     *)
(* missing, torn, half overwritten, or a newer table S with a lost sector. *)
Damaged ==
    { DiskImage(mbr, head, arr, 6, MCImage[T], Backup(T, 6)) :
        mbr \in {Protective, Junk},
        head \in {Junk, Torn(T), Good(T), Good(S)},
        arr \in {<<t1, x2>>, <<Junk, x2>>, <<s1, Junk>>} }

Healthy == DiskImage(Protective, Good(S), MCImage[S], 6, MCImage[S], Backup(S, 6))
Differing == DiskImage(Protective, Good(S), MCImage[S], 6, MCImage[T], Backup(T, 6))
NoBackup == DiskImage(Protective, Good(S), MCImage[S], 6, <<Junk, x2>>, Backup(S, 6))
Foreign == DiskImage(Protective, Junk, <<s1, Junk>>, 6, MCImage[S], Backup(S, 6))

MCDisks == { m1 :> d @@ m2 :> Foreign :
               d \in Damaged \cup {Healthy, Differing, NoBackup} }

(* A disk whose backup header names an array that lies among the blocks    *)
(* before the usable range: accepted by gpt_load_entries.                  *)
Overlapping == DiskImage(Protective, Junk, <<Junk, Junk>>, 3, MCImage[T], Backup(T, 3))
MCOverlappingDisks == {m1 :> Overlapping @@ m2 :> Foreign}

MCBlocks == {6, 8}
=============================================================================
