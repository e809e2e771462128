----------------------------- MODULE Discovery -----------------------------
(* How the menu comes to its entries: boot.conf and the theme (Settings), or *)
(* the search of the volumes when boot.conf lists none, the running loader   *)
(* taken out again, snapshots attached, and recovery entries added.          *)
(* Detected BLS groups come from StartUp, here they are part of a volume.    *)
EXTENDS Settings

CONSTANTS
    Inputs,        \* what a start may find, see DiscoveryInit
    VolumeOrder,   \* the volumes in the order of their handles
    BootVolume,
    Beside,        \* pairs of volumes on one disk
    Within,        \* pairs <<part, name>>: the name has the part in it
    MaxLines,      \* lines of a snapshot manifest that are read (512)
    MaxSnaps,      \* MAX_SNAPS
    MaxNames,      \* names kept of a Timeshift or plain directory (32)
    AutoMax,       \* AUTO_SNAP_MAX
    MaxRecovery,   \* MAX_RECOVERY_ORIG
    MaxThemes,     \* MAX_THEMES
    Budgets        \* looks at the clock before the time for snapshots is up

AllVolumes == Range(VolumeOrder)
SameDisk(u, v) == u = v \/ <<u, v>> \in Beside \/ <<v, u>> \in Beside

IsSeq(s) == s \in Seq(Range(s))
ASSUME DiscoveryAssumption ==
    /\ IsSeq(VolumeOrder) /\ IsInjective(VolumeOrder) /\ BootVolume \in AllVolumes
    /\ Beside \subseteq AllVolumes \X AllVolumes
    /\ {MaxLines, MaxSnaps, MaxNames, AutoMax, MaxRecovery, MaxThemes} \subseteq Nat \ {0}
    /\ Budgets \subseteq Nat

(* What a machine may hold: lines whose values are known, command lines of   *)
(* words with their arguments, groups of deployments, files of one directory *)
(* that are not of the same name (Snapper writes its numbers without zeros   *)
(* in front, so a number is a name).                                         *)
CommandLine(c) == IsSeq(c) /\ \A w \in Range(c) : IsSeq(w.args)
Maybe(c) == c = Nothing \/ CommandLine(c)
Known(f) == IsSeq(f) /\ \A l \in Range(f) : l.value \in DOMAIN Number \cap DOMAIN Cmdline
Text(f) == f = Nothing \/ Known(f)
ASSUME TextAssumption ==
    /\ \A v \in DOMAIN Number : Number[v] \in Nat
    /\ \A v \in DOMAIN Cmdline : CommandLine(Cmdline[v])
ASSUME InputsAssumption ==
    \A in \in Inputs :
      /\ Text(in.conf) /\ Text(in.manifest) /\ IsSeq(in.roots)
      /\ \A t \in DOMAIN in.themes : Known(in.themes[t])
      /\ \A r \in Range(in.roots) : Maybe(r.cmdline)
      /\ \A v \in AllVolumes :
           LET vol == in.volumes[v]
           IN  /\ IsSeq(vol.bls) /\ IsSeq(vol.ukis) /\ IsSeq(vol.raw) /\ IsSeq(vol.vendors)
               /\ Maybe(vol.fstab) /\ \A k \in DOMAIN vol.options : Maybe(vol.options[k])
               /\ \A u \in Range(vol.ukis) : Maybe(u.cmdline)
               /\ \A deps \in Range(vol.bls) :
                    deps # <<>> /\ IsSeq(deps) /\ \A d \in Range(deps) : Maybe(d.cmdline)
               /\ \A at \in DOMAIN vol.snaps :
                    /\ IsSeq(vol.snaps[at])
                    /\ \A i, j \in DOMAIN vol.snaps[at] :
                         /\ vol.snaps[at][i].id \in Nat
                         /\ i # j => vol.snaps[at][i].id # vol.snaps[at][j].id

VARIABLES
    input,       \* [conf, themes, themeOrder, self, volumes, parts, roots, manifest];
                 \* self also names the loader's copies, for OnlySelfExcluded
    themeIndex,  \* VisorThemeIndex
    stage,
    early,       \* what config_early_flags found
    settings,
    entryList,   \* the entries of config
    default,     \* default_entry, from 0
    \* history
    before       \* [entries, default] as the running image was taken out

discoveryVars == <<input, themeIndex, stage, early, settings, entryList, default, before>>

Vol(v) == input.volumes[v]
Uuid(v) == IF Vol(v).guid THEN v ELSE Nothing
Default(field) == Get(settings, field)
Each(seq, Op(_)) == FlattenSeq([i \in DOMAIN seq |-> Op(seq[i])])
Those(seq, Test(_)) ==
    FlattenSeq([i \in DOMAIN seq |-> IF Test(seq[i]) THEN <<seq[i]>> ELSE <<>>])
First(seq) == IF seq = <<>> THEN Nothing ELSE seq[1]
Earliest(seq) == First(Those(seq, LAMBDA x : x # Nothing))

-----------------------------------------------------------------------------
(* Which volumes are opened: with scan=quick those whose partition a GPT     *)
(* calls an ESP or XBOOTLDR, or, without any such table, those with \EFI or  *)
(* \loader\entries.                                                          *)
Wants(quick, v) ==
    \/ ~quick \/ v = BootVolume
    \/ IF input.parts # {} /\ Vol(v).guid THEN v \in input.parts
       ELSE Vol(v).opens /\ Vol(v).boots
Scanned(quick) == Those(VolumeOrder, LAMBDA v : Wants(quick, v) /\ Vol(v).opens)

(* tag_entries_since                                                         *)
Tagged(found, v) ==
    [i \in DOMAIN found |->
       [found[i] EXCEPT !.volume = v, !.uuid = IF @ = Nothing THEN Uuid(v) ELSE @]]

Group(v, deps) ==
    LET at == IF Len(deps) > 1 /\ deps[1].left = 0 THEN 2 ELSE 1
    IN  [NewEntry(deps[1].title, deps[at].path, deps[at].cmdline, 0, settings)
         EXCEPT !.deps = deps, !.dflt = at, !.sel = at, !.initrd = deps[at].initrd]
Groups(quick) ==
    Each(Scanned(quick),
         LAMBDA v : Tagged([g \in DOMAIN Vol(v).bls |-> Group(v, Vol(v).bls[g])], v))

Ukis(v) ==
    LET usable == Those(Vol(v).ukis, LAMBDA u : ~u.loader)
    IN  [i \in DOMAIN usable |-> NewEntry(usable[i].name, usable[i].path, Nothing, 0, settings)]
Windows(v) ==
    IF Vol(v).windows = <<>> THEN <<>>
    ELSE <<NewEntry("Windows Boot Manager", Vol(v).windows[1], Nothing, 1, settings)>>
WindowsAndUkis(quick) ==
    LET vols == Scanned(quick)
        with == {i \in DOMAIN vols : Vol(vols[i]).windows # <<>>}
        first(i) == i \in with /\ \A j \in with : i <= j
    IN  FlattenSeq([i \in DOMAIN vols |->
          Tagged((IF first(i) THEN Windows(vols[i]) ELSE <<>>) \o Ukis(vols[i]), vols[i])])

(* dc_derive_cmdline: a UKI of the volume, its fstab, the fstab of another   *)
(* volume of the disk, of another disk, then a root partition of a GPT.      *)
Fstab(v) == Vol(v).fstab      \* of \etc\fstab or \@\etc\fstab: the options of /, if any
UkiCmdline(v) == Earliest([i \in DOMAIN Vol(v).ukis |-> Vol(v).ukis[i].cmdline])
OthersFstab(v, same) ==
    LET vols == Those(VolumeOrder,
                  LAMBDA u : u # v /\ (SameDisk(u, v) <=> same) /\ Vol(u).opens)
    IN  Earliest([i \in DOMAIN vols |-> Fstab(vols[i])])
GptRoot(v) ==
    LET disks(same) == Those(input.roots, LAMBDA r : SameDisk(r.disk, v) <=> same)
        all == disks(TRUE) \o disks(FALSE)
    IN  IF all = <<>> THEN Nothing ELSE all[1].cmdline
Derived(v) ==
    Earliest(<<UkiCmdline(v), Fstab(v), OthersFstab(v, TRUE), OthersFstab(v, FALSE),
               GptRoot(v)>>)

(* dc_from_loader_entries: options of an entry that names this very kernel.  *)
Options(v, kernel) ==
    IF kernel \in DOMAIN Vol(v).options THEN Vol(v).options[kernel] ELSE Nothing
Kernel(v, k) ==
    [NewEntry(k.name, k.path, Earliest(<<Options(v, k.name), Derived(v)>>), 0, settings)
     EXCEPT !.initrd = First(k.initrds)]
RawKernels(quick) ==
    Each(Scanned(quick),
         LAMBDA v : LET kernels == Those(Vol(v).raw, LAMBDA k : k.kernel)
                    IN  Tagged([i \in DOMAIN kernels |-> Kernel(v, kernels[i])], v))
Vendors(quick) ==
    Each(Scanned(quick),
         LAMBDA v : Tagged([i \in DOMAIN Vol(v).vendors |->
                       NewEntry("vendor", Vol(v).vendors[i], Nothing, 0, settings)], v))

(* bls_detect and detect_scan_volumes, widened when a quick scan finds none. *)
Search(quick) ==
    LET groups == Groups(quick)
        plain == WindowsAndUkis(quick)
        raw == IF groups = <<>> THEN RawKernels(quick) ELSE <<>>
        quiet == groups = <<>> /\ raw = <<>> /\ \A e \in Range(plain) : e.type = 1
    IN  groups \o plain \o raw \o (IF quiet THEN Vendors(quick) ELSE <<>>)
Found ==
    LET quick == Default("scan") = "quick"
    IN  IF quick /\ Search(TRUE) # <<>> THEN Search(TRUE) ELSE Search(FALSE)

-----------------------------------------------------------------------------
(* path_is_self                                                              *)
IsSelf(e, path) ==
    /\ path = input.self.path
    /\ e.volume \in {Nothing, input.self.volume}
    /\ e.volume = Nothing /\ e.uuid # Nothing =>
         Vol(input.self.volume).guid /\ e.uuid = input.self.volume

(* prune_self_deployments                                                    *)
Below(e, at) == Cardinality({i \in 1..(at - 1) : IsSelf(e, e.deps[i].path)})
MovedNot(e, at, kept) == Least(at, Len(kept))
Moved(e, at, kept) == Least(at - Below(e, at), Len(kept))
PrunedCmdline(e, d) ==
    LET own == IF e.deps[e.dflt].cmdline = Nothing THEN e.cmdline ELSE Nothing
    IN  IF d.cmdline # Nothing THEN d.cmdline
        ELSE IF ~TakesDefault(d.path, e.type) THEN Nothing
        ELSE IF own # Nothing THEN own
        ELSE IF Default("cmdline") # Nothing THEN Cmdline[Default("cmdline")] ELSE Nothing
Pruned(e) ==
    LET kept == Those(e.deps, LAMBDA d : ~IsSelf(e, d.path))
        d == kept[Moved(e, e.dflt, kept)]
    IN  IF Len(kept) = Len(e.deps) THEN <<e>>
        ELSE IF kept = <<>> THEN <<>>
        ELSE << [e EXCEPT !.deps = kept, !.dflt = Moved(e, e.dflt, kept),
                          !.sel = Moved(e, e.sel, kept), !.path = d.path,
                          !.initrd = d.initrd, !.cmdline = PrunedCmdline(e, d)] >>
Remaining(e) ==
    IF e.deps # <<>> THEN Pruned(e) ELSE IF IsSelf(e, e.path) THEN <<>> ELSE <<e>>

(* config_exclude_self_entries                                               *)
Compacted(kept) ==
    LET gone == {i \in DOMAIN entryList : Remaining(entryList[i]) = <<>>}
        below == Cardinality({i \in gone : i <= default})
        moved == IF default + 1 \in gone THEN 0 ELSE default - below
    IN  IF gone = {} THEN default
        ELSE IF moved >= Len(kept) THEN (IF kept = <<>> THEN 0 ELSE Len(kept) - 1) ELSE moved

-----------------------------------------------------------------------------
(* load_snapshots: blocks of the manifest, and the entry each belongs to.    *)
SnapKey(block, key, v) ==
    IF key \in {"entry", "boot_entry"} THEN [block EXCEPT !.entry = v]
    ELSE IF key = "os" THEN [block EXCEPT !.os = v]
    ELSE IF key = "id" /\ block.id = Nothing THEN [block EXCEPT !.id = v]
    ELSE IF key = "kernel" /\ block.kernel = Nothing THEN [block EXCEPT !.kernel = PathOf(v)]
    ELSE IF key \in {"cmdline", "options"} /\ block.cmdline = Nothing
    THEN [block EXCEPT !.cmdline = Cmdline[v]] ELSE block
NoSnap == [entry |-> "", os |-> "", id |-> Nothing, kernel |-> Nothing, cmdline |-> Nothing]
Linux == {i \in DOMAIN entryList : entryList[i].type # 1}
Sole(set) == IF Cardinality(set) = 1 THEN set ELSE {}
Match(block) ==
    LET named == {i \in Linux : entryList[i].name = block.entry}
        same == {i \in Linux : entryList[i].name = block.os}
        like == {i \in Linux : <<block.os, entryList[i].name>> \in Within}
    IN  IF block.entry # "" /\ named # {} THEN Sole(named)
        ELSE IF block.os # "" /\ same # {} THEN {CHOOSE i \in same : \A j \in same : i <= j}
        ELSE IF block.os # "" /\ like # {} THEN Sole(like)
        ELSE Sole({i \in Linux : entryList[i].type = 0})
EndSnap(acc) ==
    LET b == acc.block
        kept == Match(b) # {} /\ b.id # Nothing /\ b.cmdline # Nothing
    IN  [recs |-> IF kept THEN Append(acc.recs, [owner |-> CHOOSE i \in Match(b) : TRUE,
                                        snap |-> [id |-> b.id, cmdline |-> b.cmdline,
                                                  kernel |-> b.kernel, source |-> b]])
                  ELSE acc.recs,
         block |-> Nothing]
SnapLine(acc, l) ==
    IF acc.block # Nothing THEN
        IF l.kind \in {"close", "blank"} THEN EndSnap(acc)
        ELSE IF l.kind = "key" THEN [acc EXCEPT !.block = SnapKey(@, l.key, l.value)] ELSE acc
    ELSE IF l.key = "snapshot" /\ l.kind \in {"header", "open"} /\ Len(acc.recs) < MaxSnaps
    THEN [acc EXCEPT !.block = NoSnap] ELSE acc
Manifest ==
    LET lines == SubSeq(input.manifest, 1, Least(Len(input.manifest), MaxLines))
        acc == Folded(SnapLine, [recs |-> <<>>, block |-> Nothing], lines)
    IN  IF acc.block # Nothing THEN EndSnap(acc).recs ELSE acc.recs
OwnSnaps(i) ==
    LET own == Those(Manifest, LAMBDA r : r.owner = i)
    IN  [k \in DOMAIN own |-> own[k].snap]

(* snapshots_autodetect: the one entry with a root=, the directories below   *)
(* its subvolume, the top level and @.                                       *)
Effective(e) ==
    IF e.cmdline # Nothing THEN e.cmdline
    ELSE IF Default("cmdline") # Nothing THEN Cmdline[Default("cmdline")] ELSE <<>>
Rooted(e) == e.path \notin WindowsPaths /\ \E w \in Range(Effective(e)) : w.key = "root"
Flags(words) == Those(words, LAMBDA w : w.key = "rootflags")
SubvolOf(words) ==
    LET named == IF Flags(words) = <<>> THEN <<>>
                 ELSE Those(Flags(words)[1].args, LAMBDA a : a.name = "subvol")
    IN  IF named = <<>> THEN "" ELSE named[1].value.base
Bases(words) ==
    LET sv == SubvolOf(words)
    IN  IF sv \in {"", "@"} THEN (IF sv = "" THEN <<"", "@">> ELSE <<"@", "">>)
        ELSE <<sv, "", "@">>

(* snap_build_cmdline                                                        *)
BuildKeepsId(words, subvol) ==
    LET kept == Each(Flags(words), LAMBDA w : Those(w.args, LAMBDA a : a.name # "subvol"))
    IN  Append(Those(words, LAMBDA w : w.key # "rootflags"),
               [key |-> "rootflags", args |-> <<[name |-> "subvol", value |-> subvol]>> \o kept])
Build(words, subvol) ==
    LET kept == Each(Flags(words),
                  LAMBDA w : Those(w.args, LAMBDA a : a.name \notin {"subvol", "subvolid"}))
    IN  Append(Those(words, LAMBDA w : w.key # "rootflags"),
               [key |-> "rootflags", args |-> <<[name |-> "subvol", value |-> subvol]>> \o kept])
(* One directory: scan_snapper, scan_timeshift or scan_plain_dir.  acc has   *)
(* the snapshots made, the looks at the clock left, and whether it was late. *)
Listed(v, base, dir) ==
    IF <<base, dir>> \in DOMAIN Vol(v).snaps THEN Vol(v).snaps[<<base, dir>>] ELSE <<>>
Most(kind) == IF kind = "snapper" THEN MaxSnaps ELSE MaxNames
Usable(name, kind) == kind = "plain" \/ name.whole
ReadUpTo(names, kind) ==
    LET full == {k \in DOMAIN names :
                   Cardinality({j \in 1..k : Usable(names[j], kind)}) = Most(kind)}
    IN  IF full = {} THEN Len(names) ELSE CHOOSE k \in full : \A j \in full : k <= j
Insert(sorted, n) ==      \* the newest first
    Those(sorted, LAMBDA m : m.id >= n.id) \o <<n>> \o Those(sorted, LAMBDA m : m.id < n.id)
Newest(names, kind) ==
    LET sorted == Folded(Insert, <<>>, Those(names, LAMBDA n : Usable(n, kind)))
    IN  SubSeq(sorted, 1, Least(Len(sorted), AutoMax))
ScanDir(acc, words, p) ==
    LET left == acc.left - 1
        names == Listed(p.volume, p.base, p.dir)
        upTo == ReadUpTo(names, p.kind)
        chosen == Newest(SubSeq(names, 1, Least(upTo, left)), p.kind)
        new == [i \in DOMAIN chosen |->
                  LET at == [base |-> p.base, dir |-> p.dir, id |-> chosen[i].id]
                  IN  [id |-> at.id, volume |-> p.volume, base |-> p.base, dir |-> p.dir,
                       cmdline |-> Build(words, at)]]
    IN  IF acc.late \/ acc.left = 0 THEN [acc EXCEPT !.late = TRUE]
        ELSE [made |-> acc.made \o SubSeq(new, 1, Least(Len(new), AutoMax - Len(acc.made))),
              left |-> left - Least(upTo, left), late |-> upTo > left]

(* The directories of a volume, tried until some have made snapshots: those  *)
(* of Snapper, the one of Timeshift, plain ones below a base.                *)
Place(v, base, dir, kind) == [volume |-> v, base |-> base, dir |-> dir, kind |-> kind]
Attempts(v, bases) ==
    << [b \in DOMAIN bases |-> Place(v, bases[b], ".snapshots", "snapper")],
       <<Place(v, "", "timeshift", "timeshift")>> >>
    \o [b \in DOMAIN bases |->
          << Place(v, bases[b], ".snapshots", "plain"), Place(v, bases[b], "snapshots", "plain"),
             Place(v, bases[b], "@snapshots", "plain") >>]
Attempt(acc, words, places) ==
    IF acc.made # <<>> THEN acc
    ELSE Folded(LAMBDA a, p : ScanDir(a, words, p), acc, places)
Autodetected(e, looks) ==
    LET words == Effective(e)
        first == Those(VolumeOrder, LAMBDA v : e.uuid # Nothing /\ Uuid(v) = e.uuid)
        vols == Those(first \o VolumeOrder, LAMBDA v : Vol(v).opens)
    IN  Folded(LAMBDA a, places : Attempt(a, words, places),
               [made |-> <<>>, left |-> looks, late |-> FALSE],
               Each(vols, LAMBDA v : Attempts(v, Bases(words))))

-----------------------------------------------------------------------------
(* add_recovery_entries                                                      *)
Rescue == [key |-> "systemd.unit=rescue.target nomodeset", args |-> <<>>]
RecoveryOf(e) ==
    IF e.type = 1 \/ e.path = Nothing THEN <<>>
    ELSE << [NewEntry(e.name \o " (recovery)", e.path,
                      (IF e.cmdline = Nothing THEN <<>> ELSE e.cmdline) \o <<Rescue>>,
                      e.type, settings)
             EXCEPT !.initrd = e.initrd, !.uuid = e.uuid,
                     !.secret = [e.secret EXCEPT !.confirm = FALSE]] >>
Recoveries == Each(SubSeq(entryList, 1, Least(Len(entryList), MaxRecovery)), RecoveryOf)

(* resolve_rotating_theme: the names sorted, the next one or any of them.    *)
Rotation ==
    LET read == SubSeq(input.themeOrder, 1, Least(Len(input.themeOrder), MaxThemes))
    IN  SortSeq(read, LAMBDA a, b : input.rank[a] < input.rank[b])

-----------------------------------------------------------------------------
(* config_parse, step by step.                                               *)
DiscoveryInit ==
    /\ input \in Inputs
    /\ themeIndex = 0 /\ stage = "early"
    /\ early = [log |-> TRUE, checkpoints |-> TRUE, inside |-> FALSE]
    /\ settings = Unchanged /\ entryList = <<>> /\ default = 0
    /\ before = [entries |-> <<>>, default |-> 0]

Goto(l) == stage' = l
EarlyPass ==
    /\ stage = "early" /\ early' = EarlyFlags(input.conf) /\ Goto("parse")
    /\ UNCHANGED <<input, themeIndex, settings, entryList, default, before>>
Parse ==
    /\ stage = "parse" /\ input.conf # Nothing
    /\ LET parsed == Parsed(input.conf)
       IN  /\ settings' = parsed.settings /\ entryList' = parsed.entries
           /\ default' = Get(parsed.settings, "default")
    /\ Goto("theme")
    /\ UNCHANGED <<input, themeIndex, early, before>>
NoConf ==      \* neither a theme nor recovery entries
    /\ stage = "parse" /\ input.conf = Nothing /\ Goto("detect")
    /\ UNCHANGED <<input, themeIndex, early, settings, entryList, default, before>>
WithTheme(name) ==
    /\ settings' = IF name \in DOMAIN input.themes
                   THEN Themed(settings, input.themes[name]) ELSE settings
    /\ default' = Get(settings', "default")
Theme ==
    /\ stage = "theme" /\ Goto("detect")
    /\ IF Default("theme") \in {"random", "cycle"} /\ Rotation # <<>>
       THEN IF Default("theme") = "cycle"
            THEN LET at == themeIndex % Len(Rotation)
                 IN  /\ WithTheme(Rotation[at + 1])
                     /\ themeIndex' = (at + 1) % Len(Rotation)
            ELSE (\E i \in DOMAIN Rotation : WithTheme(Rotation[i])) /\ UNCHANGED themeIndex
       ELSE WithTheme(Default("theme")) /\ UNCHANGED themeIndex
    /\ UNCHANGED <<input, early, entryList, before>>
Detect ==
    /\ stage = "detect" /\ Goto("exclude")
    /\ IF entryList # <<>> THEN UNCHANGED <<entryList, settings>>
       ELSE /\ entryList' = Found
            /\ settings' = settings ++ [show_names |-> FALSE, center_info |-> TRUE]
    /\ UNCHANGED <<input, themeIndex, early, default, before>>
Exclude ==
    /\ stage = "exclude" /\ Goto("snapshots")
    /\ before' = [entries |-> entryList, default |-> default]
    /\ IF Default("exclude_self")
       THEN LET kept == Each(entryList, Remaining)
            IN  entryList' = kept /\ default' = Compacted(kept)
       ELSE UNCHANGED <<entryList, default>>
    /\ UNCHANGED <<input, themeIndex, early, settings>>
AttachManifest ==
    /\ stage = "snapshots" /\ Default("snapshots") # 0 /\ input.manifest # Nothing
    /\ entryList' = [i \in DOMAIN entryList |-> [entryList[i] EXCEPT !.snapshots = OwnSnaps(i)]]
    /\ Goto("recovery")
    /\ UNCHANGED <<input, themeIndex, early, settings, default, before>>
AttachDetected ==
    /\ stage = "snapshots" /\ Default("snapshots") = 1 /\ input.manifest = Nothing
    /\ LET targets == {i \in DOMAIN entryList : Rooted(entryList[i])}
       IN  IF Sole(targets) = {} THEN UNCHANGED entryList
           ELSE \E i \in targets, looks \in Budgets :
                  entryList' = [entryList EXCEPT ![i].snapshots =
                                Autodetected(entryList[i], looks).made]
    /\ Goto("recovery")
    /\ UNCHANGED <<input, themeIndex, early, settings, default, before>>
NoSnapshots ==
    /\ stage = "snapshots" /\ Goto("recovery")
    /\ \/ Default("snapshots") = 0
       \/ Default("snapshots") = 2 /\ input.manifest = Nothing
    /\ UNCHANGED <<input, themeIndex, early, settings, entryList, default, before>>
Recover ==
    /\ stage = "recovery" /\ Goto("menu")
    /\ entryList' = IF Default("recovery_entries") /\ input.conf # Nothing
                  THEN entryList \o Recoveries ELSE entryList
    /\ UNCHANGED <<input, themeIndex, early, settings, default, before>>

(* The machine starts again with what it has.                                *)
StartAgain ==
    /\ stage = "menu" /\ Goto("early")
    /\ early' = [log |-> TRUE, checkpoints |-> TRUE, inside |-> FALSE]
    /\ settings' = Unchanged /\ entryList' = <<>> /\ default' = 0
    /\ before' = [entries |-> <<>>, default |-> 0]
    /\ UNCHANGED <<input, themeIndex>>

DiscoveryNext == \/ EarlyPass \/ Parse \/ NoConf \/ Theme \/ Detect \/ Exclude
        \/ AttachManifest \/ AttachDetected \/ NoSnapshots \/ Recover \/ StartAgain
DiscoverySpec == DiscoveryInit /\ [][DiscoveryNext]_discoveryVars

-----------------------------------------------------------------------------
(* The log and the checkpoints are decided twice, before the first line is   *)
(* shown and by the parser.  In a file whose entry blocks have braces the    *)
(* two passes agree, unless a theme has its say: neither takes a key of a    *)
(* block for a setting, whatever is in the blocks and wherever they end.     *)
EarlyAgrees ==
    LET file == IF input.conf = Nothing THEN <<>> ELSE input.conf
    IN  stage = "theme" /\ (\A l \in Range(file) : l.kind # "header") =>
          /\ early.log = Default("log")
          /\ early.checkpoints = Default("checkpoints")

(* What an entry may boot: its file, or one per deployment.                  *)
Boots(e) ==
    IF e.deps = <<>> THEN <<[name |-> e.name, volume |-> e.volume, path |-> e.path]>>
    ELSE [i \in DOMAIN e.deps |-> [name |-> e.name, volume |-> e.volume,
                                   path |-> e.deps[i].path]]
Others(e) ==
    Those(Boots(e), LAMBDA b : ~IsSelf(e, b.path) \/ ~Default("exclude_self"))

(* A leftover copy of the loader, of which path_is_self knows nothing.        *)
IsCopy(b) == <<b.volume, b.path>> \in input.self.copies
NotCopies(seq) == Those(seq, LAMBDA b : ~IsCopy(b))

(* Taking out the running loader takes out nothing else: every other file    *)
(* that could be booted is still offered, in the same order, the default     *)
(* entry and the default deployment are the ones they were unless they are   *)
(* gone, and a group boots its default with the options it would have had,   *)
(* had the loader never been in it.  Of copies of the loader under another   *)
(* path or on another volume nothing is claimed: boot.conf.example:199-202   *)
(* says that one under \EFI\Linux does not become an icon, but the code      *)
(* compares the path alone and keeps it.                                     *)
OnlySelfExcluded ==
    stage = "snapshots" =>
      /\ NotCopies(Each(entryList, Boots)) = NotCopies(Each(before.entries, Others))
      /\ LET was == Others(before.entries[before.default + 1])
         IN  before.default < Len(before.entries) /\ (\E b \in Range(was) : ~IsCopy(b))
               => /\ default < Len(entryList)
                  /\ NotCopies(was) = NotCopies(Boots(entryList[default + 1]))
      /\ \A e \in Range(entryList) : e.deps # <<>> =>
           LET d == e.deps[e.dflt]
               fresh == NewEntry(e.name, d.path, d.cmdline, e.type, settings)
           IN  e.path = d.path /\ e.initrd = d.initrd /\ e.cmdline = fresh.cmdline
      /\ \A b \in Range(before.entries) :
           b.deps # <<>> /\ ~IsSelf(b, b.deps[b.dflt].path) /\ ~IsCopy(Boots(b)[b.dflt]) =>
             \E e \in Range(entryList) :
               /\ e.name = b.name /\ e.volume = b.volume
               /\ NotCopies(Boots(e)) = NotCopies(Others(b))
               /\ e.deps[e.dflt] = b.deps[b.dflt]

(* Options that differ from the entry's in the subvolume they name only.      *)
BootsSnapshot(e, s) ==
    LET flags == Flags(s.cmdline)
        subvols == Each(flags, LAMBDA w :
                     Those(w.args, LAMBDA a : a.name \in {"subvol", "subvolid"}))
        other(words) == Each(Flags(words), LAMBDA w :
                          Those(w.args, LAMBDA a : a.name \notin {"subvol", "subvolid"}))
    IN  /\ Len(flags) = 1
        /\ subvols = <<[name |-> "subvol", value |-> [base |-> s.base, dir |-> s.dir,
                                                     id |-> s.id]]>>
        /\ other(s.cmdline) = other(Effective(e))
        /\ Those(s.cmdline, LAMBDA w : w.key # "rootflags")
             = Those(Effective(e), LAMBDA w : w.key # "rootflags")

(* What a snapshot boots is that snapshot: its subvolume alone is mounted,   *)
(* whatever the entry mounts, with the other flags and words of the entry.   *)
(* The snapshots of an entry come from one volume, the newest of a directory *)
(* first.  A record of a manifest that names one entry is at that entry.     *)
SnapshotsFit ==
    stage = "recovery" =>
      \A e \in Range(entryList) :
        IF input.manifest = Nothing
        THEN /\ \A s \in Range(e.snapshots) : BootsSnapshot(e, s)
             /\ Len(e.snapshots) <= AutoMax
             /\ \A i, j \in DOMAIN e.snapshots : i < j =>
                  LET s == e.snapshots[i]
                      t == e.snapshots[j]
                  IN  s.volume = t.volume
                      /\ (<<s.base, s.dir>> = <<t.base, t.dir>> => s.id > t.id)
        ELSE \A s \in Range(e.snapshots) :
               LET b == s.source
               IN  e.type # 1
                   /\ (b.entry # "" /\ Cardinality({i \in Linux : entryList[i].name = b.entry}) = 1
                         => e.name = b.entry)
=============================================================================
