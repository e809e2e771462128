------------------------------- MODULE Hotplug -------------------------------
(***************************************************************************)
(* Live discovery of volumes while the menu is up                          *)
(* (config/config_hotplug.c).  The menu calls config_hotplug_poll from     *)
(* time to time.  A poll lets drivers bind to block devices, takes one     *)
(* list of the file systems, drops the entries of volumes that are gone,   *)
(* picks at most one volume it has not seen, and searches it in stages for *)
(* as long as its time slice lasts; the next poll goes on from there.      *)
(*                                                                         *)
(* Devices come and go between any two steps of a poll.  The loop that     *)
(* drops entries is taken as one instant for them: it reads the            *)
(* MediaPresent flags and, but for its log lines, accesses no disk.        *)
(***************************************************************************)
EXTENDS Integers, Sequences, FiniteSets

CONSTANTS
    Handles,        \* partitions, by the handle the firmware gives them
    Nowhere,        \* no handle (NULL)
    Drivable,       \* handles some file system driver can bind to
    BootVolume,     \* where Visor was loaded from
    Paths,          \* boot files
    Content,        \* per handle and stage of the search: what it finds
    StartLists,     \* the menu's entries when the watch is armed
    TriedMax,       \* HP_TRIED_MAX
    Changes,        \* what devices do: "plug", "unplug", "eject", "insert"
    MaxChanges      \* bound: how often

(* The stages of a search, in the order of the enum HP_STAGE_. *)
WindowsStage == 0
UkiStage == 1
Walks == {2, 3, 4}          \* \boot, \@\boot and \ for raw kernels
VendorStage == 5
FallbackStage == 6
Stages == WindowsStage .. FallbackStage
Done == FallbackStage + 1

Entry == [path : Paths, vol : Handles \cup {Nowhere}, uuid : Handles \cup {Nowhere}]

FilesOn(v) == {p \in Paths : \E s \in Stages : \E i \in DOMAIN Content[v][s] :
                                 Content[v][s][i] = p}

(* No file of a volume has two entries; entries are tagged with a volume   *)
(* their file is on.                                                       *)
NothingTwiceIn(list) ==
    \A i, j \in DOMAIN list :
        list[i].vol = list[j].vol /\ list[i].path = list[j].path
        /\ list[i].vol # Nowhere => i = j
TaggedRightIn(list) ==
    \A i \in DOMAIN list : list[i].vol # Nowhere => list[i].path \in FilesOn(list[i].vol)

ASSUME HotplugAssumption ==
    /\ IsFiniteSet(Handles) /\ Nowhere \notin Handles /\ BootVolume \in Handles
    /\ Drivable \subseteq Handles
    /\ Content \in [Handles -> [Stages -> Seq(Paths)]]
    (* No file is found by two stages: they look in different directories. *)
    /\ \A v \in Handles, s, t \in Stages :
         \A i \in DOMAIN Content[v][s], j \in DOMAIN Content[v][t] :
           Content[v][s][i] = Content[v][t][j] => s = t /\ i = j
    /\ StartLists \subseteq Seq(Entry)
    /\ \A list \in StartLists : NothingTwiceIn(list) /\ TaggedRightIn(list)
    /\ TriedMax \in Nat /\ MaxChanges \in Nat

VARIABLES
    attached,   \* handles with Block I/O
    mounted,    \* of them, those with Simple File System
    empty,      \* of them, those whose MediaPresent is false
    changes,    \* how often the devices changed
    fresh,      \* history: volumes to be found: unknown when the watch was
                \* armed, or appeared since
    excused,    \* history: volumes passed over for a namesake or for their
                \* handle, or searched while entries were dropped
    entries,    \* config->entries
    known,      \* hp_fs_known: volumes not to look at again
    blkKnown,   \* hp_blk_known
    tried,      \* hp_blk_tried
    queue,      \* hp_blk_known from hp_probe_cursor on while hp_pending_probe
    vol, stage, \* hp_cur_vol, hp_cur_stage
    walked,     \* how far hp_cur_walk has read its directory
    base,       \* hp_cur_before
    uki, raw,   \* hp_cur_uki and hp_cur_raw are not zero
    live,       \* hp_cur_root is open and its volume has not gone since
    pc, fs, probed, picked, discovery,  \* where a poll is, and its locals
    before, added, removed, removedAt,
    mask, first, \* what the last poll returned
    was         \* history: the entries when the poll began

hardware == <<attached, mounted, empty, changes, fresh>>
blocks == <<blkKnown, tried, queue>>
search == <<vol, stage, walked, base, uki, raw>>
outcome == <<mask, first>>
vars == <<hardware, excused, entries, known, blocks, search, live, pc, fs, probed, picked,
          discovery, before, added, removed, removedAt, outcome, was>>

-----------------------------------------------------------------------------
Readable(v) == v \in mounted /\ v \notin empty

(* hp_vol_present: a handle that vanished since has no Block I/O to ask. *)
Present(v) == v \in fs /\ v \notin empty
Gone(e) == e.vol # Nowhere /\ ~Present(e.vol)

(* hp_volume_hosts_entry: some entry's file exists on the volume. *)
Hosts(v) == Readable(v) /\ \E i \in DOMAIN entries : entries[i].path \in FilesOn(v)

(* It does not matter whose: the entry may be of another volume. *)
Namesake(v) == \E i \in DOMAIN entries :
                   entries[i].vol \notin {v, Nowhere} /\ entries[i].path \in FilesOn(v)

(* hp_scan_begin returns early for a volume an entry belongs to. *)
Backs(v) == \E i \in DOMAIN entries : entries[i].vol = v \/ entries[i].uuid = v

(* ConnectController: a driver binds if there is one and the disk can be read. *)
Bound(S) == (S \cap attached \cap Drivable) \ empty

(* What the poll under way counts as known when it ends. *)
KnownSoon == IF pc \in {"scan", "settle"} THEN known \cup {picked} ELSE known

Without(s, i) == [j \in 1 .. Len(s) - 1 |-> IF j < i THEN s[j] ELSE s[j + 1]]

Orders(S) == {q \in [1 .. Cardinality(S) -> S] : \A i, j \in DOMAIN q : q[i] = q[j] => i = j}
Tagged(s) == {v \in Handles : \E i \in DOMAIN s : s[i].vol = v}

-----------------------------------------------------------------------------
(* config_hotplug_arm: with the sweep of existing media, known are the     *)
(* volumes already scanned, and block devices nobody has tried wait to be  *)
(* probed; without it every volume counts as known.                        *)
Arm ==
    \/ known = mounted /\ queue = <<>>
    \/ /\ known \in SUBSET mounted /\ {BootVolume} \cup Tagged(entries) \subseteq known
       /\ queue \in {<<>>} \cup Orders(attached)

Init ==
    /\ attached \in SUBSET Handles /\ mounted \in SUBSET attached
    /\ entries \in StartLists
    /\ {BootVolume} \cup Tagged(entries) \subseteq mounted
    /\ empty = {} /\ changes = 0
    /\ Arm
    /\ fresh = mounted \ known /\ excused = {}
    /\ blkKnown = attached /\ tried = {}
    /\ vol = Nowhere /\ stage = 0 /\ walked = 0 /\ base = 0
    /\ uki = FALSE /\ raw = FALSE /\ live = FALSE
    /\ pc = "idle" /\ fs = {} /\ probed = FALSE /\ picked = Nowhere
    /\ discovery = FALSE /\ before = 0 /\ added = 0
    /\ removed = FALSE /\ removedAt = 0
    /\ mask = {} /\ first = 0 /\ was = entries

-----------------------------------------------------------------------------
(* The devices. *)
Change(kind) ==
    /\ kind \in Changes /\ changes < MaxChanges /\ changes' = changes + 1
    /\ pc # "drop"
    /\ UNCHANGED <<entries, known, blocks, search, pc, fs, probed, picked, discovery,
                   before, added, removed, removedAt, outcome, was>>

(* A volume is looked at if it comes under a handle that is not known, nor *)
(* about to be.                                                            *)
Remembered == KnownSoon \cup (IF pc = "discover" THEN fs ELSE {})
Appears(v) ==
    /\ fresh' = fresh \cup {v}
    /\ excused' = IF v \in Remembered THEN excused \cup {v} ELSE excused \ {v}

(* The firmware may mount a new partition by itself. *)
Plug(v) ==
    /\ Change("plug")
    /\ v \notin attached
    /\ attached' = attached \cup {v}
    /\ mounted' \in {mounted, mounted \cup ({v} \cap Drivable)}
    /\ Appears(v)
    /\ UNCHANGED <<empty, live>>

Unplug(v) ==
    /\ Change("unplug")
    /\ v \in attached
    /\ attached' = attached \ {v}
    /\ mounted' = mounted \ {v}
    /\ empty' = empty \ {v}
    /\ live' = (live /\ vol # v)
    /\ fresh' = fresh \ {v}
    /\ UNCHANGED excused

(* A card reader keeps its handles when the card is taken out. *)
Eject(v) ==
    /\ Change("eject")
    /\ v \in attached \ empty
    /\ empty' = empty \cup {v}
    /\ live' = (live /\ vol # v)
    /\ UNCHANGED <<attached, mounted, fresh, excused>>

Insert(v) ==
    /\ Change("insert")
    /\ v \in empty
    /\ empty' = empty \ {v}
    /\ Appears(v)
    /\ UNCHANGED <<attached, mounted, live>>

-----------------------------------------------------------------------------
(* A poll.  First one of the devices nobody has tried: the next that has   *)
(* no file system.                                                         *)
Bare == {i \in DOMAIN queue : queue[i] \notin mounted}

Probe ==
    /\ pc = "idle" /\ pc' = "blocks" /\ was' = entries
    /\ IF Bare = {}
       THEN queue' = <<>> /\ probed' = FALSE /\ UNCHANGED mounted
       ELSE \E i \in Bare :
              /\ \A j \in Bare : i <= j
              /\ queue' = SubSeq(queue, i + 1, Len(queue)) /\ probed' = TRUE
              /\ mounted' = mounted \cup Bound({queue[i]})
    /\ UNCHANGED <<attached, empty, changes, fresh, excused, entries, known, blkKnown, tried, search,
                   live, fs, picked, discovery, before, added, removed, removedAt, outcome>>

(* Then the block devices that appeared.  The queue is empty if it looks   *)
(* for them, so replacing hp_blk_known disturbs no probing.                *)
NewBlocks ==
    /\ pc = "blocks" /\ pc' = "locate"
    /\ LET new == IF probed THEN {} ELSE attached \ (blkKnown \cup tried) IN
       /\ tried' \in {T \in SUBSET (tried \cup new) :
                        /\ tried \subseteq T
                        /\ Cardinality(T) <= TriedMax \/ T = tried
                        /\ T = tried \cup new \/ Cardinality(T) >= TriedMax}
       /\ blkKnown' = IF new = {} THEN blkKnown ELSE attached
       /\ mounted' = mounted \cup Bound(new)
    /\ UNCHANGED <<attached, empty, changes, fresh, excused, entries, known, queue, search, live, fs,
                   probed, picked, discovery, before, added, removed, removedAt, outcome, was>>

(* The list of file systems the rest of the poll works with; without any   *)
(* the poll ends.                                                          *)
Locate ==
    /\ pc = "locate" /\ fs' = mounted
    /\ IF mounted = {}
       THEN pc' = "idle" /\ mask' = {} /\ UNCHANGED <<first, removed, removedAt>>
       ELSE pc' = "drop" /\ removed' = FALSE /\ removedAt' = 0 /\ UNCHANGED outcome
    /\ UNCHANGED <<hardware, excused, entries, known, blocks, search, live, probed, picked,
                   discovery, before, added, was>>

(* The loop that unlinks the entries of volumes that are gone. *)
DropEntry ==
    /\ pc = "drop"
    /\ \E i \in DOMAIN entries :
         /\ Gone(entries[i]) /\ \A j \in 1 .. i - 1 : ~Gone(entries[j])
         /\ entries' = Without(entries, i)
         /\ removedAt' = IF removed THEN removedAt ELSE i - 1
    /\ removed' = TRUE
    /\ excused' = excused \cup ({vol} \ {Nowhere})
    /\ UNCHANGED <<hardware, known, blocks, search, live, pc, fs, probed, picked,
                   discovery, before, added, outcome, was>>

(* hp_scan_finish *)
Finish == vol' = Nowhere /\ stage' = Done /\ walked' = 0 /\ live' = FALSE

(* After it, the search of a volume that is gone is given up. *)
Abandon ==
    \/ vol # Nowhere /\ ~Present(vol) /\ Finish
    \/ (vol = Nowhere \/ Present(vol)) /\ UNCHANGED <<vol, stage, walked, live>>

DropDoneEarly ==
    /\ pc = "drop" /\ \A i \in DOMAIN entries : Gone(entries[i]) => vol # Nowhere
    /\ pc' = "discover"
    /\ Abandon
    /\ before' = Len(entries) /\ added' = 0
    /\ UNCHANGED <<hardware, excused, entries, known, blocks, base, uki, raw, fs, probed, picked,
                   discovery, removed, removedAt, outcome, was>>
DropDone ==
    /\ pc = "drop" /\ \A i \in DOMAIN entries : ~Gone(entries[i])
    /\ pc' = "discover"
    /\ Abandon
    /\ before' = Len(entries) /\ added' = 0
    /\ UNCHANGED <<hardware, excused, entries, known, blocks, base, uki, raw, fs, probed, picked,
                   discovery, removed, removedAt, outcome, was>>

-----------------------------------------------------------------------------
(* Discovery, unless a search is under way or the poll has just probed. *)
Resume ==
    /\ pc = "discover" /\ (probed \/ vol # Nowhere)
    /\ pc' = IF probed THEN "settle" ELSE "scan"
    /\ picked' = Nowhere /\ discovery' = FALSE
    /\ UNCHANGED <<hardware, excused, entries, known, blocks, search, live, fs, probed, before,
                   added, removed, removedAt, outcome, was>>

Searchable(v) == ~Hosts(v) /\ ~Backs(v) /\ Readable(v)

(* One volume that is not known; it will be, also when it is not searched. *)
Pick(v) ==
    /\ pc = "discover" /\ ~probed /\ vol = Nowhere
    /\ v \in fs \ known
    /\ picked' = v /\ discovery' = TRUE
    /\ IF Searchable(v)
       THEN /\ vol' = v /\ live' = TRUE /\ stage' = WindowsStage /\ walked' = 0
            /\ base' = Len(entries) /\ uki' = FALSE /\ raw' = FALSE
            /\ excused' = excused \ {v}
            /\ pc' = "scan"
       ELSE /\ excused' = IF Namesake(v) THEN excused \cup {v} ELSE excused
            /\ pc' = "settle" /\ UNCHANGED <<search, live>>
    /\ UNCHANGED <<hardware, entries, known, blocks, fs, probed, before, added, removed,
                   removedAt, outcome, was>>

PickNone ==
    /\ pc = "discover" /\ ~probed /\ vol = Nowhere
    /\ fs \subseteq known
    /\ picked' = Nowhere /\ discovery' = TRUE /\ pc' = "settle"
    /\ UNCHANGED <<hardware, excused, entries, known, blocks, search, live, fs, probed, before,
                   added, removed, removedAt, outcome, was>>

-----------------------------------------------------------------------------
(* The search: hp_scan_step once per action.  A step appends what it finds *)
(* and tags it with the volume.                                            *)
Listing == IF live THEN Content[vol][stage] ELSE <<>>
Tag(p) == [path |-> p, vol |-> vol, uuid |-> vol]

Found(list) ==
    /\ entries' = entries \o [i \in 1 .. Len(list) |-> Tag(list[i])]
    /\ added' = added + Len(list)

InSearch ==
    /\ pc = "scan" /\ vol # Nowhere
    /\ UNCHANGED <<hardware, excused, known, blocks, fs, probed, picked, discovery, before,
                   base, removed, removedAt, outcome, was>>

(* A key press or the end of the time slice pauses after any step. *)
StepDone == pc' \in {"scan", "settle"}

SearchOnce ==
    /\ InSearch /\ StepDone
    /\ stage \in {WindowsStage, UkiStage}
    /\ Found(Listing)
    /\ uki' = (uki \/ (stage = UkiStage /\ Listing # <<>>))
    /\ stage' = stage + 1
    /\ UNCHANGED <<vol, walked, raw, live>>

(* hp_kdir_next: one kernel per step; no progress when a key is waiting. *)
WalkKernelRereads ==
    /\ InSearch /\ StepDone
    /\ stage \in Walks /\ walked < Len(Listing)
    /\ Found(<<Listing[walked + 1]>>)
    /\ raw' = TRUE
    /\ UNCHANGED <<vol, stage, uki, walked, live>>
WalkKernel ==
    /\ InSearch /\ StepDone
    /\ stage \in Walks /\ walked < Len(Listing)
    /\ Found(<<Listing[walked + 1]>>)
    /\ walked' = walked + 1 /\ raw' = TRUE
    /\ UNCHANGED <<vol, stage, uki, live>>

WalkPause ==
    /\ InSearch
    /\ stage \in Walks
    /\ pc' = "settle"
    /\ UNCHANGED <<entries, added, search, live>>

WalkEndStuck ==
    /\ InSearch /\ StepDone
    /\ stage \in Walks /\ walked >= Len(Listing)
    /\ stage' = stage /\ walked' = 0
    /\ UNCHANGED <<vol, uki, raw, live, entries, added>>
WalkEnd ==
    /\ InSearch /\ StepDone
    /\ stage \in Walks /\ walked >= Len(Listing)
    /\ stage' = stage + 1 /\ walked' = 0
    /\ UNCHANGED <<vol, uki, raw, live, entries, added>>

VendorWanted == ~uki /\ ~raw /\ Len(entries) = base

SearchVendor ==
    /\ InSearch /\ StepDone
    /\ stage = VendorStage
    /\ Found(IF VendorWanted THEN Listing ELSE <<>>)
    /\ stage' = stage + 1
    /\ UNCHANGED <<vol, walked, uki, raw, live>>

FallbackAlways == TRUE
FallbackWanted == Len(entries) = base

(* The last stage, after which the search is finished. *)
SearchFallback ==
    /\ InSearch
    /\ stage = FallbackStage
    /\ Found(IF FallbackWanted THEN Listing ELSE <<>>)
    /\ Finish /\ pc' = "settle"
    /\ UNCHANGED <<uki, raw>>

Scan == SearchOnce \/ WalkKernel \/ WalkPause \/ WalkEnd \/ SearchVendor \/ SearchFallback

-----------------------------------------------------------------------------
(* The end of a poll: what is known now, and what the menu is told. *)
KnowsAll == IF picked # Nowhere \/ discovery THEN fs ELSE known
Knows == IF picked # Nowhere THEN (known \cap fs) \cup {picked}
         ELSE IF discovery THEN fs ELSE known
Mask == (IF added > 0 THEN {"added"} ELSE {}) \cup (IF removed THEN {"removed"} ELSE {})
FirstNewGap == IF removed THEN removedAt ELSE before
FirstNew == IF added > 0 THEN before ELSE removedAt

Settle ==
    /\ pc = "settle" /\ pc' = "idle"
    /\ known' = Knows
    /\ mask' = Mask /\ first' = FirstNew
    /\ UNCHANGED <<hardware, excused, entries, blocks, search, live, fs, probed, picked, discovery,
                   before, added, removed, removedAt, was>>

Poll == \/ Probe \/ NewBlocks \/ Locate \/ DropEntry \/ DropDone
        \/ Resume \/ (\E v \in Handles : Pick(v)) \/ PickNone \/ Scan \/ Settle

Environment == \E v \in Handles : Plug(v) \/ Unplug(v) \/ Eject(v) \/ Insert(v)

Next == Poll \/ Environment

Spec == Init /\ [][Next]_vars

(* The menu keeps polling, and a key is not waiting at every look: a       *)
(* search that could go on does so in the end.                             *)
FairSpec ==
    /\ Spec
    /\ WF_vars(Poll)
    /\ SF_vars(SearchOnce \/ WalkKernel \/ WalkEnd \/ SearchVendor \/ SearchFallback)

-----------------------------------------------------------------------------
TypeOK ==
    /\ attached \in SUBSET Handles /\ mounted \in SUBSET attached
    /\ empty \in SUBSET attached /\ changes \in Nat /\ fresh \in SUBSET Handles
    /\ excused \in SUBSET Handles
    /\ entries \in Seq(Entry) /\ was \in Seq(Entry)
    /\ known \in SUBSET Handles /\ blkKnown \in SUBSET Handles /\ tried \in SUBSET Handles
    /\ queue \in Seq(Handles)
    /\ vol \in Handles \cup {Nowhere} /\ stage \in Stages \cup {Done}
    /\ walked \in Nat /\ base \in Nat
    /\ uki \in BOOLEAN /\ raw \in BOOLEAN /\ live \in BOOLEAN
    /\ pc \in {"idle", "blocks", "locate", "drop", "discover", "scan", "settle"}
    /\ fs \in SUBSET Handles /\ picked \in Handles \cup {Nowhere}
    /\ probed \in BOOLEAN /\ discovery \in BOOLEAN /\ removed \in BOOLEAN
    /\ before \in Nat /\ added \in Nat /\ removedAt \in Nat /\ first \in Nat
    /\ mask \in SUBSET {"added", "removed"}

(* Outside the loop that drops entries, every volume with an entry was in  *)
(* the list the last poll took: a volume that went away is dropped by the  *)
(* first poll that can see it, and nothing brings its entries back.        *)
ShownWerePresent == pc # "drop" /\ fs # {} => Tagged(entries) \subseteq fs

(* A volume with entries counts as known, or will at the end of the poll:  *)
(* it is not searched again.                                               *)
ShownAreKnown == Tagged(entries) \subseteq KnownSoon

(* No file of a volume is shown twice, however its search was interrupted  *)
(* and taken up again, and every entry found later carries its volume.     *)
NothingTwice == NothingTwiceIn(entries)
TaggedRight == TaggedRightIn(entries)

(* Why: a search shows only what the stages behind it found, ...           *)
Searched(s, i) == s < stage \/ (s = stage /\ i <= walked)
SearchSoFar ==
    vol # Nowhere => \A k \in DOMAIN entries : entries[k].vol = vol =>
        \E s \in Stages : \E i \in DOMAIN Content[vol][s] :
            Searched(s, i) /\ Content[vol][s][i] = entries[k].path

(* ... it has a place in its directory in no other stage, ...              *)
SearchPlace == vol # Nowhere => stage \in Stages /\ (stage \notin Walks => walked = 0)

(* ... and its volume was listed and is not picked again.                  *)
SearchListed ==
    /\ vol # Nowhere => vol \in KnownSoon /\ (pc # "drop" /\ fs # {} => vol \in fs)
    /\ pc \in {"drop", "discover", "scan", "settle"} => fs # {}
    /\ pc = "scan" => vol # Nowhere

SearchInv == SearchSoFar /\ SearchPlace /\ SearchListed

IInv == /\ TypeOK /\ ShownWerePresent /\ ShownAreKnown /\ NothingTwice /\ TaggedRight
        /\ SearchInv

(* The menu redraws from what a poll returns: the entries that were there  *)
(* and still are keep their order, new ones follow them from `first' on,   *)
(* and after a removal alone `first' is where the first gap opened.        *)
Shown(e) == \E j \in DOMAIN entries : entries[j] = e
Kept == {i \in DOMAIN was : Shown(was[i])}
PlaceOf(i) == Cardinality({k \in Kept : k <= i})
ReportTells ==
    pc = "idle" =>
        /\ "removed" \in mask <=> Kept # DOMAIN was
        /\ "added" \in mask <=> Cardinality(Kept) < Len(entries)
        /\ \A i \in Kept : entries[PlaceOf(i)] = was[i]
        /\ "added" \in mask => first = Cardinality(Kept)
        /\ mask = {"removed"} => first + 1 \in DOMAIN was \ Kept /\ 1 .. first \subseteq Kept

(* What the user sees of each volume refines the abstract menu: entries of *)
(* a volume that the removal loop is about to reach count as gone.         *)
ShownFiles(v) ==
    {p \in Paths : \E i \in DOMAIN entries : entries[i].vol = v /\ entries[i].path = p}
ShownNow == [v \in Handles |-> IF pc = "drop" /\ ~Present(v) THEN {} ELSE ShownFiles(v)]
TurnNow == IF pc = "drop" /\ vol # Nowhere /\ ~Present(vol) THEN Nowhere ELSE vol

Menu == INSTANCE VolumeMenu WITH
    Volumes <- Handles, Nowhere <- Nowhere, Files <- Paths, shown <- ShownNow, turn <- TurnNow
MenuSpec == Menu!Spec

(* \EFI\BOOT\BOOTX64.EFI is offered only for a volume with nothing else,   *)
(* unless entries were dropped while that volume was searched.             *)
IsFallback(e) == \E k \in DOMAIN Content[e.vol][FallbackStage] :
                     Content[e.vol][FallbackStage][k] = e.path
FallbackAloneIn(list, volumes) ==
    \A i, j \in DOMAIN list :
        list[i].vol = list[j].vol /\ list[i].vol \in volumes /\ IsFallback(list[i]) => i = j
FallbackAlone == FallbackAloneIn(entries, Handles \ excused)

(* Liveness: every search ends, whatever pauses it and whatever is pulled, *)
(* unless no file system is left at all (then a poll returns at once).     *)
SearchEnds == vol # Nowhere ~> vol = Nowhere \/ mounted = {}

(* A volume whose files nobody is offered, though boot.conf lists none.    *)
Listed(v) == \E i \in DOMAIN entries : entries[i].vol = Nowhere
                 /\ (entries[i].path \in FilesOn(v) \/ entries[i].uuid = v)
Missing(v) ==
    Readable(v) /\ FilesOn(v) # {} /\ v \notin Tagged(entries) /\ ~Listed(v)

(* What the code comes to, whatever else is plugged and pulled meanwhile:  *)
(* a volume that appears under a handle the watch has forgotten is offered *)
(* for good.  Excused are a volume with a file whose path an entry of      *)
(* another volume has when it is looked at, and one that was searched      *)
(* while entries of another were dropped.                                  *)
FoundOffered == \A v \in Handles : <>[](v \in fresh \ excused => ~Missing(v))

(* "Visor watches for volumes that appear (a USB stick plugged in), scans  *)
(* them for bootable content ... and pops matching entries into the menu"  *)
(* (boot.conf.example:192-195), with nobody excused.  A second stick with  *)
(* the fallback path of the first is never scanned, also for what else it  *)
(* holds: hp_volume_hosts_entry compares paths, whoever the entry is of.   *)
Offered == \A v \in Handles : <>[](v \in fresh => ~Missing(v))
=============================================================================
