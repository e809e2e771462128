------------------------------ MODULE StartUp ------------------------------
(* What Visor keeps from one start to the next: the marker around the TPM    *)
(* probe, the variables of the Boot Loader Interface that are meant for one  *)
(* boot, and the boot counters in the names of BLS files.  The power may     *)
(* fail between any two steps, and within a file that is being written.      *)
EXTENDS Integers, Sequences, FiniteSets, Functions, SequencesExt

CONSTANTS
    Volumes,      \* the volumes in the order of their handles
    Confs,        \* a volume -> the files of its \loader\entries
    ReadOnly,     \* the volumes that cannot be written
    Others,       \* names of the detected entries that are no deployments
    Configs,      \* tpm=, loader_vars=, autoboot= of boot.conf
    None,
    MaxRecs,      \* MAX_BLS
    MaxStarts,    \* bound: starts of Visor
    MaxBoots,     \* bound: hand-overs per start
    MaxFaults     \* bound: refused writes of a variable or a file

(* A file: the name base+left-done.conf, where left is None without counter, *)
(* and its lines <<key, value>>.                                             *)
Path(f) == [base |-> f.base, left |-> f.left, done |-> f.done]
File(p, lines) == [base |-> p.base, left |-> p.left, done |-> p.done, lines |-> lines]
Counter == Nat \cup {None}

ConfFiles == UNION {Range(Confs[v]) : v \in DOMAIN Confs}
Bases == {f.base : f \in ConfFiles}
Lines == UNION {Range(f.lines) : f \in ConfFiles}
BlsFile == [base : Bases, left : Counter, done : Nat, lines : Seq(Lines)]

ASSUME NoneAssumption == None \notin Nat
ASSUME ConfsAssumption ==
    /\ Volumes \in Seq(Range(Volumes)) /\ ReadOnly \subseteq Range(Volumes)
    /\ Others \in Seq(Range(Others))
    /\ Confs \in [Range(Volumes) -> Seq(BlsFile)]
    (* No name twice in a directory. *)
    /\ \A v \in DOMAIN Confs : \A i, j \in DOMAIN Confs[v] :
         Path(Confs[v][i]) = Path(Confs[v][j]) => i = j
ASSUME BoundsAssumption == MaxRecs \in Nat /\ MaxBoots \in Nat
(* once: a one-shot entry boots by itself; nothing in boot.conf asks for it.  *)
ASSUME ConfigsAssumption ==
    Configs \subseteq [tpm : BOOLEAN, loaderVars : BOOLEAN, autoboot : BOOLEAN, once : {FALSE}]

Stages == {None, "probing", "done", "disabled"}   \* VisorTpmStage

VARIABLES
    disk,        \* Confs, as it is now
    marker,      \* VisorTpmStage
    oneShot, default,     \* LoaderEntryOneShot, LoaderEntryDefault: ids
    config, pc,
    entries,     \* [name, volume, deps: of path, tries and content; sel]
    pick,        \* loader_pick
    selected,    \* the entry being booted, from 1
    counted,     \* bls_decremented
    copying,     \* efi_rename_file: [old, new, lines, at: index of the volume]
    boots,       \* hand-overs of this start
    \* history
    starts, faults,
    hangs,       \* starts that stopped in the TPM probe, since the user cleared it
    asked,       \* one-shot entries written
    kept,        \* refusals of the firmware to delete one
    obeyed,      \* starts that booted one by themselves
    spent,       \* a deployment -> starts that handed over to it with tries left
    slipped      \* deployments whose counter could not be rewritten in full

durable == <<disk, marker, oneShot, default>>
session == <<config, entries, pick, selected, counted, copying, boots>>
history == <<hangs, asked, kept, obeyed, spent, slipped>>
vars == <<durable, pc, session, starts, faults, history>>

-----------------------------------------------------------------------------
(* bls_scan: the first value of most keys, every value of initrd and options.*)
Values(lines, keys) == SelectSeq(lines, LAMBDA l : l[1] \in keys)
FirstValue(lines, key) ==
    LET found == Values(lines, {key}) IN IF found = <<>> THEN None ELSE found[1][2]
AllValues(lines, key) ==
    [i \in DOMAIN Values(lines, {key}) |-> Values(lines, {key})[i][2]]
Kernel(lines) ==
    IF FirstValue(lines, "linux") # None THEN FirstValue(lines, "linux")
    ELSE LET found == Values(lines, {"efi", "uki"})
         IN IF found = <<>> THEN None ELSE found[1][2]

Record(f, v) ==
    [volume |-> v, path |-> Path(f), left |-> f.left, done |-> f.done,
     title |-> FirstValue(f.lines, "title"), index |-> FirstValue(f.lines, "ostree"),
     machine |-> FirstValue(f.lines, "machine-id"), sort |-> FirstValue(f.lines, "sort-key"),
     kernel |-> Kernel(f.lines), initrd |-> AllValues(f.lines, "initrd"),
     options |-> AllValues(f.lines, "options")]
ArchOk(f) == FirstValue(f.lines, "architecture") \in {None, "x64", "IA32"}
Usable(f) == FirstValue(f.lines, "title") # None /\ Kernel(f.lines) # None /\ ArchOk(f)

(* A directory is read until MAX_BLS records are found, on one volume after  *)
(* the other.                                                                *)
AddFile(recs, f, v) ==
    IF Usable(f) /\ Len(recs) < MaxRecs THEN Append(recs, Record(f, v)) ELSE recs
Scan(recs, v) ==
    LET read[i \in 0..Len(disk[v])] ==
            IF i = 0 THEN recs ELSE AddFile(read[i - 1], disk[v][i], v)
    IN  read[Len(disk[v])]
Records ==
    LET read[i \in 0..Len(Volumes)] == IF i = 0 THEN <<>> ELSE Scan(read[i - 1], Volumes[i])
    IN  read[Len(Volumes)]

SameGroup(a, b) ==
    /\ a.volume = b.volume
    /\ IF a.machine # None /\ b.machine # None THEN a.machine = b.machine
       ELSE a.title = b.title

(* The booted OSTree deployment first, then by sort-key, then as found.      *)
Precedes(a, b) ==
    IF a.index # b.index THEN a.index # None /\ (b.index = None \/ a.index < b.index)
    ELSE IF a.sort # None /\ b.sort # None /\ a.sort # b.sort THEN a.sort < b.sort
    ELSE a.sort # None /\ b.sort = None
Insert(sorted, r) ==
    LET before == {i \in DOMAIN sorted : ~Precedes(r, sorted[i])}
        at == IF before = {} THEN 1 ELSE 1 + (CHOOSE i \in before : \A j \in before : j <= i)
    IN  InsertAt(sorted, at, r)

AddRecord(groups, r) ==
    LET same == {g \in DOMAIN groups : SameGroup(groups[g].head, r)}
    IN  IF same = {} THEN Append(groups, [head |-> r, recs |-> <<r>>])
        ELSE LET g == CHOOSE g \in same : \A h \in same : g <= h
             IN  [groups EXCEPT ![g].recs = Insert(@, r)]

Groups(recs) ==
    LET put[i \in 0..Len(recs)] == IF i = 0 THEN <<>> ELSE AddRecord(put[i - 1], recs[i])
    IN  put[Len(recs)]

(* A deployment without tries left gives way to the next one.                *)
DefaultOf(deps) == IF Len(deps) > 1 /\ deps[1].left = 0 THEN 2 ELSE 1
Deployed(g) ==
    [name |-> g.recs[1].title, volume |-> g.recs[1].volume, deps |-> g.recs,
     sel |-> DefaultOf(g.recs)]

(* bls_detect, and the rest of the discovery.                                *)
Detected ==
    LET groups == Groups(Records)
    IN  [i \in DOMAIN groups |-> Deployed(groups[i])]
        \o [i \in DOMAIN Others |->
              [name |-> Others[i], volume |-> None, deps |-> <<>>, sel |-> 1]]

(* loader_entry_id: the name of the BLS file, counter included; else a slug. *)
Slug(name) == [base |-> name, left |-> None, done |-> 0]
Id(e) == IF e.deps # <<>> THEN e.deps[e.sel].path ELSE Slug(e.name)
EntryById(id) ==
    LET found == {n \in DOMAIN entries : Id(entries[n]) = id}
    IN  IF found = {} THEN None ELSE CHOOSE n \in found : \A m \in found : n <= m

-----------------------------------------------------------------------------
Init ==
    /\ disk = Confs /\ marker = None /\ oneShot = None
    /\ default \in {None} \cup {Slug(Others[i]) : i \in DOMAIN Others}
    /\ config \in Configs /\ pc = "off"
    /\ entries = <<>> /\ pick = None /\ selected = None /\ counted = None
    /\ copying = None /\ boots = 0
    /\ starts = 0 /\ faults = 0 /\ hangs = 0 /\ asked = 0 /\ kept = 0
    /\ obeyed = 0
    /\ spent = [b \in Bases |-> 0] /\ slipped = {}

(* config_parse, with the drivers still deferred.                            *)
PowerOn ==
    /\ pc = "off" /\ starts < MaxStarts
    /\ config' \in Configs
    /\ entries' = Detected
    /\ pick' = None /\ selected' = None /\ counted' = None /\ copying' = None /\ boots' = 0
    /\ starts' = starts + 1 /\ pc' = "tpm"
    /\ UNCHANGED <<durable, faults, history>>

(* SetVariable of the marker: the firmware may refuse it.                    *)
Mark(stage) ==
    \/ marker' = stage /\ UNCHANGED faults
    \/ faults < MaxFaults /\ faults' = faults + 1 /\ UNCHANGED marker

Skip == pc' = "loader" /\ UNCHANGED <<disk, oneShot, default, session, starts, history>>

(* tpm_probe_skip: a marker left behind says the last start died in the      *)
(* probe; it stays off from then on.                                         *)
TpmOff ==
    /\ pc = "tpm"
    /\ ~config.tpm \/ marker = "disabled"
    /\ Skip /\ UNCHANGED <<marker, faults>>

TpmDied == pc = "tpm" /\ config.tpm /\ marker = "probing" /\ Mark("disabled") /\ Skip

(* Faulty: the probe goes on without the marker.                             *)
TpmBeginUnmarked ==
    /\ pc = "tpm" /\ config.tpm /\ marker \notin {"probing", "disabled"}
    /\ Mark("probing")
    /\ pc' = "probe"
    /\ UNCHANGED <<disk, oneShot, default, session, starts, history>>
(* tpm_stage_begin: without the marker on record there is no probe.          *)
TpmBegin ==
    /\ pc = "tpm" /\ config.tpm /\ marker \notin {"probing", "disabled"}
    /\ Mark("probing")
    /\ pc' = IF faults' = faults THEN "probe" ELSE "loader"
    /\ UNCHANGED <<disk, oneShot, default, session, starts, history>>

(* tpm_init may never return; after it boot.conf is measured.                *)
TpmHangs ==
    /\ pc = "probe"
    /\ pc' = "hung" /\ hangs' = hangs + 1
    /\ UNCHANGED <<durable, session, starts, faults, asked, kept, obeyed, spent,
                   slipped>>
TpmEnd == pc = "probe" /\ Mark("done") /\ Skip

(* Faulty: a one-shot entry stays when it names an entry.                    *)
ConsumedUnlessTaken(n) ==
    oneShot' = (IF n = None THEN None ELSE oneShot) /\ UNCHANGED <<faults, kept>>
(* loader_apply_overrides: a one-shot entry is taken before the default one, *)
(* boots by itself, and is deleted whether it names an entry or not; that    *)
(* the firmware refuses to delete it goes unnoticed.                         *)
Consumed(n) ==
    \/ oneShot' = None /\ UNCHANGED <<faults, kept>>
    \/ faults < MaxFaults /\ faults' = faults + 1 /\ kept' = kept + 1 /\ UNCHANGED oneShot
Named(id) == IF id = None THEN None ELSE EntryById(id)
ApplyOverrides ==
    /\ pc = "loader"
    /\ pc' = "select"
    /\ IF ~config.loaderVars THEN UNCHANGED <<oneShot, pick, config, faults, kept>>
       ELSE LET once == Named(oneShot)
            IN  /\ pick' = IF once # None THEN once ELSE Named(default)
                /\ config' = [config EXCEPT !.autoboot = @ \/ once # None,
                                            !.once = once # None]
                /\ IF oneShot = None THEN UNCHANGED <<oneShot, faults, kept>>
                   ELSE Consumed(once)
    /\ UNCHANGED <<disk, marker, default, entries, selected, counted, copying, boots,
                   starts, hangs, asked, obeyed, spent, slipped>>

-----------------------------------------------------------------------------
(* Autoboot boots the entry picked, at its default deployment; in the menu   *)
(* or the recovery shell the user takes any.                                 *)
Autoboot ==
    /\ pc = "select" /\ config.autoboot /\ boots = 0 /\ entries # <<>>
    /\ selected' = IF pick # None THEN pick ELSE 1
    /\ obeyed' = IF config.once THEN obeyed + 1 ELSE obeyed
    /\ pc' = "count"
    /\ UNCHANGED <<durable, config, entries, pick, counted, copying, boots, starts, faults,
                   hangs, asked, kept, spent, slipped>>

Choose(n) ==
    /\ pc = "select"
    /\ selected' = n
    /\ \E k \in DOMAIN entries[n].deps \cup {entries[n].sel} :
          entries' = [entries EXCEPT ![n].sel = k]
    /\ pc' = "count"
    /\ UNCHANGED <<durable, config, pick, counted, copying, boots, starts, faults, history>>

Dep(n) == entries[n].deps[entries[n].sel]
HasTries(n) ==
    entries[n].deps # <<>> /\ Dep(n).left # None /\ Dep(n).left > 0

(* Faulty: the try done is noted, the tries left stay.                       *)
NextPathKeepsTries(d) == [base |-> d.path.base, left |-> d.left, done |-> d.done + 1]
(* The tries left in memory are those of the start; the path is kept up.     *)
NextPath(d) == [base |-> d.path.base, left |-> d.left - 1, done |-> d.done + 1]

(* An entry is counted when it is booted for the first time in a row.        *)
Count ==
    /\ pc = "count"
    /\ counted' = selected
    /\ IF counted # selected /\ HasTries(selected)
       THEN /\ copying' = [old |-> Dep(selected).path, new |-> NextPath(Dep(selected)),
                           lines |-> <<>>, at |-> 1]
            /\ pc' = "rename"
       ELSE pc' = "boot" /\ UNCHANGED copying
    /\ UNCHANGED <<durable, config, entries, pick, selected, boots, starts, faults, history>>

At(v, p) == {i \in DOMAIN disk[v] : Path(disk[v][i]) = p}
Without(v, p) ==
    IF At(v, p) = {} THEN disk[v] ELSE RemoveAt(disk[v], CHOOSE i \in At(v, p) : TRUE)
Removed(v, p) == disk' = [disk EXCEPT ![v] = Without(v, p)]
(* A new file goes into the first free slot of the directory.                *)
Created(v, p) ==
    IF At(v, p) # {}
    THEN {[i \in DOMAIN disk[v] |-> IF i \in At(v, p) THEN File(p, <<>>) ELSE disk[v][i]]}
    ELSE {<<File(p, <<>>)>> \o disk[v], disk[v] \o <<File(p, <<>>)>>}
Slip(b) == slipped' = slipped \cup {b}

(* Faulty: the old file goes before its copy is written.                     *)
RenameCreateDeletesFirst ==
    /\ pc = "rename" /\ copying.at <= Len(Volumes)
    /\ LET v == Volumes[copying.at]
           found == At(v, copying.old)
       IN  IF found = {} \/ v \in ReadOnly
           THEN copying' = [copying EXCEPT !.at = @ + 1] /\ UNCHANGED <<disk, pc>>
           ELSE \E i \in found :
                  /\ copying' = [copying EXCEPT !.lines = disk[v][i].lines]
                  /\ disk' = [disk EXCEPT ![v] = Append(Without(v, copying.old),
                                                        File(copying.new, <<>>))]
                  /\ pc' = "write"
    /\ UNCHANGED <<marker, oneShot, default, config, entries, pick, selected, counted,
                   boots, starts, faults, history>>

(* efi_rename_file, on the first volume that has the path: a copy under the  *)
(* new name is created empty, ...                                            *)
RenameCreate ==
    /\ pc = "rename" /\ copying.at <= Len(Volumes)
    /\ LET v == Volumes[copying.at]
           found == At(v, copying.old)
       IN  IF found = {} \/ v \in ReadOnly
           THEN copying' = [copying EXCEPT !.at = @ + 1] /\ UNCHANGED <<disk, pc>>
           ELSE \E i \in found :
                  IF disk[v][i].lines = <<>>
                  THEN copying' = [copying EXCEPT !.at = @ + 1] /\ UNCHANGED <<disk, pc>>
                  ELSE /\ copying' = [copying EXCEPT !.lines = disk[v][i].lines]
                       /\ \E files \in Created(v, copying.new) : disk' = [disk EXCEPT ![v] = files]
                       /\ pc' = "write"
    /\ UNCHANGED <<marker, oneShot, default, config, entries, pick, selected, counted,
                   boots, starts, faults, history>>

(* ... written and flushed, ...                                              *)
Wrote(v, k) ==
    disk' = [disk EXCEPT ![v] = [i \in DOMAIN @ |->
               IF Path(@[i]) = copying.new
               THEN File(copying.new, SubSeq(copying.lines, 1, k)) ELSE @[i]]]
RenameWrite(k) ==
    /\ pc = "write"
    /\ Wrote(Volumes[copying.at], k)
    /\ \/ /\ k = Len(copying.lines)
          /\ pc' = "delete" /\ UNCHANGED <<copying, faults, slipped>>
       \/ /\ faults < MaxFaults /\ faults' = faults + 1
          /\ pc' = "rename" /\ copying' = [copying EXCEPT !.at = @ + 1]
          /\ Slip(copying.new.base)
    /\ UNCHANGED <<marker, oneShot, default, config, entries, pick, selected, counted,
                   boots, starts, hangs, asked, kept, obeyed, spent>>

(* ... and the old one deleted.  Only then is the new path remembered.       *)
RenameDelete ==
    /\ pc = "delete"
    /\ \/ /\ Removed(Volumes[copying.at], copying.old)
          /\ entries' = [entries EXCEPT ![selected].deps[entries[selected].sel].path
                           = copying.new]
          /\ copying' = None /\ pc' = "boot"
          /\ UNCHANGED <<faults, slipped>>
       \/ /\ faults < MaxFaults /\ faults' = faults + 1
          /\ copying' = [copying EXCEPT !.at = @ + 1] /\ pc' = "rename"
          /\ Slip(copying.new.base)
          /\ UNCHANGED <<disk, entries>>
    /\ UNCHANGED <<marker, oneShot, default, config, pick, selected, counted, boots,
                   starts, hangs, asked, kept, obeyed, spent>>

(* No volume took it: a warning, and the boot goes on.                       *)
RenameFails ==
    /\ pc = "rename" /\ copying.at > Len(Volumes)
    /\ copying' = None /\ pc' = "boot"
    /\ Slip(copying.new.base)
    /\ UNCHANGED <<durable, config, entries, pick, selected, counted, boots, starts, faults,
                   hangs, asked, kept, obeyed, spent>>

(* visor_boot: the system runs, or the boot returns and the user chooses     *)
(* again.                                                                    *)
HandOver ==
    /\ pc = "boot"
    /\ boots' = boots + 1
    /\ spent' = IF HasTries(selected) /\ boots = 0
                THEN [spent EXCEPT ![Dep(selected).path.base] = @ + 1] ELSE spent
    /\ pc' \in {"system"} \cup (IF boots' < MaxBoots THEN {"select"} ELSE {})
    /\ UNCHANGED <<durable, config, entries, pick, selected, counted, copying, starts,
                   faults, hangs, asked, kept, obeyed, slipped>>
-----------------------------------------------------------------------------
(* Outside Visor: an agent writes a variable, a user clears the TPM marker,  *)
(* and the power goes.                                                       *)
Ids == {Id(entries[n]) : n \in DOMAIN entries}
AskOnce ==
    /\ pc = "system" /\ oneShot = None
    /\ oneShot' \in Ids \cup {Slug("gone")} /\ asked' = asked + 1
    /\ UNCHANGED <<disk, marker, default, pc, session, starts, faults, hangs, kept,
                   obeyed, spent, slipped>>
ClearMarker ==
    /\ pc = "system" /\ marker # None
    /\ marker' = None /\ hangs' = 0
    /\ UNCHANGED <<disk, oneShot, default, pc, session, starts, faults, asked, kept, obeyed,
                   spent, slipped>>

PowerOff ==
    /\ pc # "off" /\ pc' = "off"
    /\ slipped' = IF pc \in {"write", "delete"} THEN slipped \cup {copying.new.base}
                  ELSE slipped
    /\ IF pc = "write" THEN \E k \in 0..Len(copying.lines) : Wrote(Volumes[copying.at], k)
       ELSE UNCHANGED disk
    /\ entries' = <<>> /\ pick' = None /\ selected' = None /\ counted' = None
    /\ copying' = None /\ boots' = 0
    /\ UNCHANGED <<marker, oneShot, default, config, starts, faults, hangs, asked, kept,
                   obeyed, spent>>

Next ==
    \/ PowerOn \/ PowerOff
    \/ TpmOff \/ TpmDied \/ TpmBegin \/ TpmHangs \/ TpmEnd
    \/ ApplyOverrides \/ Autoboot \/ Count
    \/ \E n \in DOMAIN entries : Choose(n)
    \/ RenameCreate \/ RenameDelete \/ RenameFails \/ HandOver
    \/ \E k \in 0..(IF copying = None THEN 0 ELSE Len(copying.lines)) : RenameWrite(k)
    \/ AskOnce \/ ClearMarker

Spec == Init /\ [][Next]_vars

-----------------------------------------------------------------------------
(* A TPM probe that never returns stops one start, not every start: a second *)
(* hang needs a user who cleared the marker in between.                      *)
OneHang == hangs <= 1

(* "Visor boots it immediately this once": wherever the power goes, a one-shot*)
(* entry decides at most one boot, or one more for each time the firmware    *)
(* refused to delete it.                                                     *)
OneShotOnce == obeyed + (IF oneShot = None THEN 0 ELSE 1) <= asked + kept

(* The counters a deployment has on disk, now and at first.                  *)
Tries(b) ==
    LET lefts == {f.left : f \in {g \in UNION {Range(disk[v]) : v \in DOMAIN disk} : g.base = b}}
    IN  lefts \ {None}
Initial(b) ==
    LET lefts == {f.left : f \in {g \in UNION {Range(Confs[v]) : v \in DOMAIN Confs} : g.base = b}}
    IN  lefts \ {None}

(* A start that first hands over to a deployment with tries left has paid    *)
(* for it on disk, wherever the power went, unless a rename did not complete.*)
TriesPaid ==
    \A b \in Bases \ slipped : \A left \in Tries(b) : \A all \in Initial(b) :
        left + spent[b] <= all

(* efi_file.c: "rather than losing either copy".  Rewriting a counter never  *)
(* loses an entry: its file is there in full under some name.                *)
KeptOnDisk ==
    \A v \in DOMAIN disk : \A f \in Range(Confs[v]) :
        \E g \in Range(disk[v]) : g.base = f.base /\ g.lines = f.lines
=============================================================================
