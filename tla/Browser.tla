------------------------------ MODULE Browser ------------------------------
(* The file browser, in the graphical menu and in the recovery shell: the    *)
(* volumes it offers, the listing of a directory with its limits, failures   *)
(* and merge sort, the keys, and the overrides a picked file leaves behind.  *)
(* A path is the sequence of its directories; a name is a member of Names.   *)
EXTENDS Integers, Sequences, FiniteSets, SequencesExt

CONSTANTS
    Setups,       \* front end and machine (records, see MCBrowser)
    Names,        \* file and directory names
    Rank,         \* a name -> its place in the alphabet, case folded
    Prefix,       \* a name -> what it begins with: "initrd", "kernel", "dot", "none"
    EfiNames,     \* the names that end in .efi
    Size,         \* a name -> its length
    MaxReads, MaxEntries, NameMax, PathMax,  \* FB_*
    MaxPulls,     \* bound: volumes pulled
    None

Entry == [name : Names, dir : BOOLEAN]

ASSUME BrowserAssumption ==
    /\ Rank \in [Names -> Nat] /\ Size \in [Names -> Nat]
    /\ MaxReads \in Nat
ASSUME NoneAssumption == None \notin Entry
ASSUME SetupsAssumption ==
    \A s \in Setups :
        /\ s.handles \in Seq(Range(s.handles))
        /\ s.bootVolume \in Range(s.handles) \cup {None}
        /\ s.initial \in Seq(Names)
        /\ s.text \in BOOLEAN /\ s.cached \in BOOLEAN
        /\ s.rows \in Nat \ {0} /\ s.perRead \in Nat
        (* The directories of each volume, and what each holds. *)
        /\ Range(s.handles) \subseteq DOMAIN s.tree
        /\ \A h \in DOMAIN s.tree : \A p \in DOMAIN s.tree[h] : s.tree[h][p] \in Seq(Entry)

VARIABLES
    setup,
    pulled,      \* volumes that are gone
    fb,          \* fb_t, or None when no browser is open
    over,        \* override_kernel_path, override_volume, override_initrd_path
    loop,        \* pc, dirty (need_redraw), message (the text front end's status)
    found,       \* history: what the last fb_list read, in the order on disk,
                 \* and whether there was memory to sort it
    seen,        \* history: what is on the screen
    blind        \* history: the pick was made on a screen that was due to be drawn,
                 \* or the wheel moved the cursor and nothing was drawn
browserVars == <<setup, pulled, fb, over, loop, found, seen, blind>>

-----------------------------------------------------------------------------
(* The members of s that are in S, in their order.                           *)
Only(s, S) ==
    LET kept[i \in 0..Len(s)] ==
            IF i = 0 THEN <<>>
            ELSE IF s[i] \in S THEN Append(kept[i - 1], s[i]) ELSE kept[i - 1]
    IN  kept[Len(s)]

(* The volumes with a file system, the one Visor started from first.         *)
First(handles) ==
    LET hits == SelectInSeq(setup.handles, LAMBDA h : h \in handles)
    IN  IF hits = 0 THEN None ELSE setup.handles[hits]
BootHandle ==
    LET candidates == <<First({setup.bootVolume}),
                        First({h \in Range(setup.handles) : setup.has[h] = "conf"}),
                        First({h \in Range(setup.handles) : setup.has[h] \in {"conf", "EFI"}})>>
        i == SelectInSeq(candidates, LAMBDA c : c # None)
    IN  IF i = 0 THEN None ELSE candidates[i]
Volumes ==
    LET there == Range(setup.handles) \ pulled
        readable == Only(setup.handles, {h \in there : setup.has[h] # "nothing"})
    IN  Only(readable, {BootHandle}) \o Only(readable, there \ {BootHandle})

-----------------------------------------------------------------------------
(* What a name says of its file.                                             *)
IsEfi(n) == n \in EfiNames
IsInitrd(n) == Prefix[n] = "initrd"
IsKernel(n) == IsEfi(n) \/ Prefix[n] = "kernel"

(* fb_compare: directories first, then by name, whatever the case.           *)
Compare(a, b) ==
    IF a.dir # b.dir THEN (IF a.dir THEN "before" ELSE "after")
    ELSE IF Rank[a.name] = Rank[b.name] THEN "same"
    ELSE IF Rank[a.name] < Rank[b.name] THEN "before" ELSE "after"

(* One merge: the left run goes first on equal names.  Of the first k names  *)
(* Lefts(l, r)[k] come from the left.                                        *)
Lefts(l, r) ==
    LET step[k \in 0..Len(l) + Len(r)] ==
            IF k = 0 THEN 0
            ELSE LET i == step[k - 1]  j == k - 1 - i
                 IN  IF i < Len(l) /\ (j = Len(r) \/ Compare(l[i + 1], r[j + 1]) # "after")
                     THEN i + 1 ELSE i
    IN  step
Merge(l, r) ==
    LET lefts == Lefts(l, r)
    IN  [k \in 1..Len(l) + Len(r) |->
            IF lefts[k] > lefts[k - 1] THEN l[lefts[k]] ELSE r[k - lefts[k]]]

(* One pass over runs of width w: where there are two in a block of 2w they  *)
(* are merged.  Faulty: the last run, when it is shorter, is not.            *)
WidthFaulty(a, w) ==
    [k \in 1..Len(a) |->
        LET lo == 2 * w * ((k - 1) \div (2 * w))
        IN  IF lo + 2 * w <= Len(a)
            THEN Merge(SubSeq(a, lo + 1, lo + w), SubSeq(a, lo + w + 1, lo + 2 * w))[k - lo]
            ELSE a[k]]
Width(a, w) ==
    [k \in 1..Len(a) |->
        LET lo == 2 * w * ((k - 1) \div (2 * w))
            hi == IF lo + 2 * w > Len(a) THEN Len(a) ELSE lo + 2 * w
        IN  IF lo + w < Len(a)
            THEN Merge(SubSeq(a, lo + 1, lo + w), SubSeq(a, lo + w + 1, hi))[k - lo]
            ELSE a[k]]
(* The widths 1, 2, 4 and so on while they are less than the length.         *)
Sorted(a) ==
    LET pass[n \in 0..Len(a)] ==
            IF n = 0 THEN [width |-> 1, rows |-> a]
            ELSE LET p == pass[n - 1]
                 IN  IF p.width < Len(a)
                     THEN [width |-> 2 * p.width, rows |-> Width(p.rows, p.width)] ELSE p
    IN  pass[Len(a)].rows

(* fb_list reads a directory: one Read returns one record or several, the    *)
(* dot entries and names that are too long count as read but are not kept.   *)
(* It ends at the end, at MaxReads reads or MaxEntries names, or before, on  *)
(* an error (not marked) or without memory (marked as cut).                  *)
Kept(d) ==
    Only(d, {e \in Range(d) : /\ Prefix[e.name] # "dot"
                              /\ 0 < Size[e.name] /\ Size[e.name] < NameMax})
ReadAll(d) ==
    LET most == setup.perRead * MaxReads
        full == {k \in 1..Len(d) : Len(Kept(SubSeq(d, 1, k))) = MaxEntries}
        last == CHOOSE k \in full \cup {Len(d)} : \A j \in full \cup {Len(d)} : k <= j
    IN  IF last < most THEN last ELSE IF most < Len(d) THEN most ELSE Len(d)
Readings(d) ==
    {[names |-> Kept(SubSeq(d, 1, k)), cut |-> c] : k \in 0..ReadAll(d) - 1, c \in BOOLEAN}
    \cup {[names |-> Kept(SubSeq(d, 1, ReadAll(d))),
           cut |-> Len(Kept(SubSeq(d, 1, ReadAll(d)))) = MaxEntries]}

Directory(h, p) == IF p \in DOMAIN setup.tree[h] THEN setup.tree[h][p] ELSE None
(* Faulty: the old entries stay when the directory cannot be opened.         *)
KeepsOld(f) == f
Cleared(f) == [f EXCEPT !.list = <<>>, !.cursor = 0, !.scroll = 0, !.cut = FALSE]
Listed(f) ==
    LET h == f.vols[f.cur]  d == Directory(h, f.path)
    IN  \/ /\ h \in pulled \/ d = None
           /\ fb' = Cleared(f) /\ found' = [names |-> <<>>, sorted |-> TRUE]
        \/ /\ h \notin pulled /\ d # None
           /\ \E r \in Readings(d), memory \in BOOLEAN :
                /\ fb' = [Cleared(f) EXCEPT !.list = IF memory THEN Sorted(r.names) ELSE r.names,
                                            !.cut = r.cut]
                /\ found' = [names |-> r.names, sorted |-> memory]

-----------------------------------------------------------------------------
BrowserInit ==
    /\ setup \in Setups
    /\ pulled = {} /\ fb = None /\ seen = None /\ blind = FALSE
    /\ over = [kernel |-> None, volume |-> None, initrd |-> None]
    /\ loop = [pc |-> "closed", dirty |-> FALSE, message |-> FALSE]
    /\ found = [names |-> <<>>, sorted |-> TRUE]

(* fb_init and the first listing; the shell's `browse' may name a directory. *)
Open ==
    /\ loop.pc = "closed" /\ Volumes # <<>>
    /\ \E p \in IF setup.text THEN {<<>>, setup.initial} ELSE {<<>>} :
         Listed([vols |-> Volumes, cur |-> 1, path |-> p, list |-> <<>>, cursor |-> 0,
                 scroll |-> 0, cut |-> FALSE])
    /\ loop' = [pc |-> "draw", dirty |-> TRUE, message |-> FALSE]
    /\ seen' = None /\ blind' = FALSE
    /\ UNCHANGED <<setup, pulled, over>>

(* A volume is pulled; the browser keeps its listing.                        *)
Pull(h) ==
    /\ Cardinality(pulled) < MaxPulls /\ loop.pc # "picked"
    /\ pulled' = pulled \cup {h}
    /\ UNCHANGED <<setup, fb, over, loop, found, seen, blind>>

(* The window of rows around the cursor: browse_clamp_scroll; the panel      *)
(* clamps once more at the end of the list, and the message takes a row of   *)
(* the text front end.                                                       *)
Rows ==
    IF setup.text /\ loop.message /\ setup.rows > 1 THEN setup.rows - 1 ELSE setup.rows
Clamped(s) ==
    IF fb.cursor < s THEN fb.cursor
    ELSE IF fb.cursor >= s + Rows THEN fb.cursor - Rows + 1 ELSE s
ToEnd(s) ==
    IF ~setup.text /\ Len(fb.list) > Rows /\ s + Rows > Len(fb.list)
    THEN Len(fb.list) - Rows ELSE s
Draw ==
    /\ loop.pc = "draw"
    /\ IF loop.dirty
       THEN LET s == ToEnd(Clamped(fb.scroll))
                rows == {i \in 1..Len(fb.list) : s < i /\ i <= s + Rows}
            IN  /\ fb' = [fb EXCEPT !.scroll = s]
                /\ seen' = [volume |-> fb.vols[fb.cur], path |-> fb.path,
                            rows |-> {fb.list[i] : i \in rows},
                            marked |-> IF fb.cursor + 1 \in rows
                                       THEN fb.list[fb.cursor + 1] ELSE None]
                /\ blind' = FALSE
       ELSE UNCHANGED <<fb, seen, blind>>
    /\ loop' = [loop EXCEPT !.pc = "key", !.dirty = FALSE]
    /\ UNCHANGED <<setup, pulled, over, found>>

Moved(delta, back) ==
    IF fb.list = <<>> THEN fb
    ELSE IF back THEN [fb EXCEPT !.cursor = IF delta > @ THEN 0 ELSE @ - delta]
    ELSE [fb EXCEPT !.cursor = IF @ + delta >= Len(fb.list) THEN Len(fb.list) - 1 ELSE @ + delta]

(* The wheel, just before a key of the same pass is read.  Without a scene   *)
(* cache the panel is not drawn again.                                       *)
Wheel(back) ==
    /\ loop.pc = "key" /\ ~setup.text
    /\ fb' = Moved(1, back)
    /\ loop' = [loop EXCEPT !.dirty = @ \/ setup.cached]
    /\ blind' = (blind \/ fb' # fb)
    /\ UNCHANGED <<setup, pulled, over, found, seen>>

-----------------------------------------------------------------------------
(* The keys.                                                                 *)
Goto(dirty) == loop' = [loop EXCEPT !.pc = "draw", !.dirty = @ \/ dirty]
Fresh == loop' = [pc |-> "draw", dirty |-> TRUE, message |-> FALSE]
Cursor == IF fb.cursor < Len(fb.list) THEN fb.list[fb.cursor + 1] ELSE None
Pressed == loop.pc = "key" /\ UNCHANGED <<setup, pulled, seen>>

(* Each directory on the path is followed by a separator.                    *)
Chars(p) == FoldLeft(LAMBDA n, d : n + Size[d] + 1, 1, p)

NoKey ==
    /\ Pressed /\ Goto(FALSE) /\ UNCHANGED <<fb, over, found, blind>>

(* fb_enter, and when the path would be too long nothing.                    *)
EnterDirectory ==
    /\ Pressed /\ Cursor # None /\ Cursor.dir
    /\ UNCHANGED <<over, blind>>
    /\ IF Chars(fb.path) + Size[Cursor.name] + 2 >= PathMax
       THEN UNCHANGED <<fb, found>> /\ IF setup.text THEN Fresh ELSE Goto(FALSE)
       ELSE Listed([fb EXCEPT !.path = Append(@, Cursor.name)]) /\ Fresh

Up ==
    /\ Pressed /\ UNCHANGED <<over, blind>>
    /\ IF fb.path = <<>> THEN UNCHANGED <<fb, found>> /\ Goto(FALSE)
       ELSE Listed([fb EXCEPT !.path = Front(@)]) /\ Fresh

SwitchVolume ==
    /\ Pressed /\ UNCHANGED <<over, blind>> /\ Fresh
    /\ IF Len(fb.vols) < 2 THEN UNCHANGED <<fb, found>>
       ELSE Listed([fb EXCEPT !.cur = IF @ = Len(fb.vols) THEN 1 ELSE @ + 1, !.path = <<>>])

(* One row, a window, or to either end.                                      *)
MoveKey(delta, back) ==
    /\ Pressed /\ UNCHANGED <<over, found, blind>>
    /\ fb' = Moved(delta, back) /\ Goto(setup.text \/ fb' # fb)

(* A letter: the first row that begins with it (the names of an instance     *)
(* with one initial have one rank).                                          *)
LetterKey(n) ==
    /\ Pressed /\ ~setup.text /\ UNCHANGED <<over, found, blind>>
    /\ LET i == SelectInSeq(fb.list, LAMBDA e : Rank[e.name] = Rank[n])
       IN  fb' = IF i = 0 THEN fb ELSE [fb EXCEPT !.cursor = i - 1]
    /\ Goto(fb' # fb)

(* The first initrd listed beside the kernel.                                *)
InitrdBeside ==
    LET i == SelectInSeq(fb.list, LAMBDA e : ~e.dir /\ IsInitrd(e.name))
    IN  IF i = 0 THEN None ELSE fb.list[i]
File(e) == [path |-> fb.path, name |-> e.name]

(* fb_boot_apply.  Its refusal of a long path cannot be met: EnterDirectory  *)
(* leaves room for any name.  A kernel ends the session, and the model keeps *)
(* the listing it was picked from.                                           *)
Pick ==
    /\ Pressed /\ Cursor # None /\ ~Cursor.dir /\ UNCHANGED found
    /\ \/ /\ IsInitrd(Cursor.name)
          /\ over' = [over EXCEPT !.initrd = File(Cursor)]
          /\ fb' = IF setup.text THEN fb ELSE None
          /\ loop' = IF setup.text THEN [pc |-> "draw", dirty |-> TRUE, message |-> TRUE]
                     ELSE [loop EXCEPT !.pc = "closed"]
          /\ UNCHANGED blind
       \/ /\ ~IsInitrd(Cursor.name)
          /\ over' = [kernel |-> File(Cursor), volume |-> fb.vols[fb.cur],
                      initrd |-> IF IsKernel(Cursor.name) /\ ~IsEfi(Cursor.name)
                                    /\ InitrdBeside # None
                                 THEN File(InitrdBeside) ELSE over.initrd]
          /\ loop' = [loop EXCEPT !.pc = "picked"]
          /\ blind' = (blind \/ loop.dirty) /\ UNCHANGED fb

Close ==
    /\ Pressed /\ loop' = [loop EXCEPT !.pc = "closed"]
    /\ fb' = None /\ UNCHANGED <<over, found, blind>>

Key == \/ NoKey \/ EnterDirectory \/ Up \/ SwitchVolume \/ Pick \/ Close
       \/ \E back \in BOOLEAN, delta \in {1, Rows} : MoveKey(delta, back)
       \/ \E n \in Names : LetterKey(n)
BrowserNext ==
    \/ Open \/ Draw \/ Key
    \/ \E back \in BOOLEAN : Wheel(back)
    \/ \E h \in Range(setup.handles) : Pull(h)
BrowserSpec == BrowserInit /\ [][BrowserNext]_browserVars

-----------------------------------------------------------------------------
Goes(names, j, i) ==
    Compare(names[j], names[i]) = "before" \/ (Compare(names[j], names[i]) = "same" /\ j < i)

(* The rows are what the directory was read to hold, sorted: directories     *)
(* before files, by name, and names that differ in case only in the order    *)
(* they have on disk.  Each row has the place that counting gives it.        *)
ListingRight ==
    LET names == found.names
        place(i) == 1 + Cardinality({j \in DOMAIN names : Goes(names, j, i)})
    IN  fb # None /\ found.sorted
        => /\ Len(fb.list) = Len(names)
           /\ \A i \in DOMAIN names : fb.list[place(i)] = names[i]

(* A picked file is the one marked on the screen, on the volume and in the   *)
(* directory the screen names, and it is a file of that directory, whatever  *)
(* was listed, left, truncated, pulled or not readable before; a raw kernel  *)
(* gets an initrd of its own directory if one is listed there.               *)
PickIsShown ==
    LET k == over.kernel
        d == Directory(over.volume, k.path)
        near == {e.name : e \in {e \in Range(fb.list) : ~e.dir /\ IsInitrd(e.name)}}
    IN  loop.pc = "picked"
        => /\ blind \/ (/\ seen.marked # None /\ seen.marked.name = k.name
                        /\ seen.path = k.path /\ seen.volume = over.volume)
           /\ d # None /\ [name |-> k.name, dir |-> FALSE] \in Range(d)
           /\ IsKernel(k.name) /\ ~IsEfi(k.name) /\ near # {}
              => over.initrd.path = k.path /\ over.initrd.name \in near
=============================================================================
