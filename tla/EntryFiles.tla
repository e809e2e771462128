----------------------------- MODULE EntryFiles -----------------------------
(* Where the files of a boot entry come from: the search of the volumes by   *)
(* path and partition (efi_file.c), the file system drivers that are bound   *)
(* to block devices one at a time while a file is still missing              *)
(* (efi_fsdrv.c), the device paths handed to the firmware (efi_path.c) and   *)
(* the order in which load_entry_file tries them (linux_file.c).             *)
EXTENDS Naturals, Sequences, FiniteSetsExt, SequencesExt

CONSTANTS
    VolumeOrder,    \* the volumes, in the order the firmware lists handles
    BootVolume,     \* the volume Visor was started from
    DriverVolumes,  \* volumes readable only with a driver of \EFI\visor\drivers
    PathVolumes,    \* volumes whose handle has a device path
    Files,          \* the paths entries name
    HostPath,       \* paths below a host's /boot, and the path without it
    Contents,       \* what a file may hold
    NoVolume,       \* no handle, or no uuid=
    Missing,        \* the path names no file
    Unreadable      \* the file opens but its size or its data cannot be read

Volumes == Range(VolumeOrder)

ASSUME VolumesAssumption ==
    /\ VolumeOrder \in Seq(Volumes) /\ IsInjective(VolumeOrder)
    /\ BootVolume \in Volumes \ DriverVolumes
    /\ NoVolume \notin Volumes
    /\ Missing \notin Contents /\ Unreadable \notin Contents
    /\ DOMAIN HostPath \subseteq Files /\ Range(HostPath) \subseteq Files

Disk == [Volumes -> [Files -> Contents \cup {Missing, Unreadable}]]

(* A disk and the progress of the block probe: the volumes with a file       *)
(* system bound, and the block devices not yet tried (Unprobed before        *)
(* probe_init listed them).                                                  *)
Unprobed == <<NoVolume>>
FirstProbe == [mounted |-> Volumes \ DriverVolumes, rest |-> Unprobed]

Matches(v, uuid) == uuid \in {NoVolume, v}
Opens(disk, v, path) == disk[v][path] # Missing
Data(disk, v, path) ==
    IF disk[v][path] = Unreadable THEN Missing ELSE disk[v][path]

(* The boot volume answers first, then the handles in order.                 *)
FirstWith(disk, mounted, path, uuid) ==
    LET has(v) == v \in mounted /\ Matches(v, uuid) /\ Opens(disk, v, path)
    IN  IF has(BootVolume) THEN BootVolume
        ELSE IF \E v \in Volumes : has(v)
             THEN VolumeOrder[SelectInSeq(VolumeOrder, has)]
             ELSE NoVolume

(* probe_init lists the devices with the wanted partition swapped to the     *)
(* front; later searches keep that order.                                    *)
ProbeOrder(uuid) ==
    IF uuid \notin Volumes THEN VolumeOrder
    ELSE LET i == CHOOSE j \in DOMAIN VolumeOrder : VolumeOrder[j] = uuid
         IN  [VolumeOrder EXCEPT ![1] = uuid, ![i] = VolumeOrder[1]]

Untried(fs, uuid) ==
    IF fs.rest = Unprobed THEN ProbeOrder(uuid) ELSE fs.rest

MayProbe(fs) ==
    IF fs.rest = Unprobed THEN DriverVolumes # {} ELSE fs.rest # <<>>

(* A device that has a file system already is passed over.                   *)
ConnectTo(fs, uuid, n) ==
    LET todo == Untried(fs, uuid)
    IN  [mounted |-> fs.mounted \cup Range(SubSeq(todo, 1, n)),
         rest |-> SubSeq(todo, n + 1, Len(todo))]

(* efi_fopen_uuid: search what is mounted; if nothing answers, bind drivers  *)
(* to one block device after another until the path opens.                   *)
Probe(disk, fs, path, uuid) ==
    LET tries == 0 .. Len(Untried(fs, uuid))
        opens(n) == FirstWith(disk, ConnectTo(fs, uuid, n).mounted, path, uuid) # NoVolume
        upto(hits) == IF hits = {} THEN Len(Untried(fs, uuid)) ELSE Min(hits)
    IN  ConnectTo(fs, uuid, upto({n \in tries : opens(n)}))

Search(disk, fs, path, uuid) ==
    LET at(s) == FirstWith(disk, s.mounted, path, uuid)
        result(s) == [vol |-> at(s), fs |-> s]
    IN  result(IF at(fs) # NoVolume \/ ~MayProbe(fs) THEN fs
               ELSE Probe(disk, fs, path, uuid))

(* A path below /boot may name a file of a volume mounted there on the host: *)
(* the rest of the path is tried when the whole path does not open.          *)
OnVolume(disk, v, path) ==
    IF Opens(disk, v, path) \/ path \notin DOMAIN HostPath
    THEN [data |-> Data(disk, v, path), path |-> path]
    ELSE [data |-> Data(disk, v, HostPath[path]), path |-> HostPath[path]]

BySearch(disk, fs, path, uuid) ==
    LET found(r, p) ==
            [data |-> IF r.vol = NoVolume THEN Missing ELSE Data(disk, r.vol, p),
             path |-> p, vol |-> r.vol, fs |-> r.fs]
        whole(r) ==
            IF r.vol = NoVolume /\ path \in DOMAIN HostPath
            THEN found(Search(disk, r.fs, HostPath[path], uuid), HostPath[path])
            ELSE found(r, path)
    IN  whole(Search(disk, fs, path, uuid))

(* Faulty: does not try the volume kept open for the entry.                  *)
LoadFromAnew(disk, fs, path, uuid, own, keep) ==
    LET f == BySearch(disk, fs, path, uuid)
    IN  [data |-> f.data, path |-> f.path, vol |-> f.vol,
         keep |-> IF keep = NoVolume THEN f.vol ELSE keep, fs |-> f.fs]

(* load_entry_file before decryption: the volume kept open for the entry,    *)
(* the volume it was detected on, the partition uuid= names, every volume.   *)
(* The first volume that yields data is kept.                                *)
LoadFrom(disk, fs, path, uuid, own, keep) ==
    LET stay(v) == IF keep = NoVolume THEN v ELSE keep
        on(v) == [data |-> OnVolume(disk, v, path).data, path |-> OnVolume(disk, v, path).path,
                  vol |-> v, keep |-> stay(v), fs |-> fs]
        read(f) == IF f.data = Missing
                   THEN [data |-> Missing, path |-> path, vol |-> NoVolume, keep |-> keep,
                         fs |-> f.fs]
                   ELSE [data |-> f.data, path |-> f.path, vol |-> f.vol,
                         keep |-> stay(f.vol), fs |-> f.fs]
        widen(f) == IF f.data = Missing /\ uuid # NoVolume
                    THEN BySearch(disk, f.fs, path, NoVolume) ELSE f
    IN  IF keep # NoVolume /\ OnVolume(disk, keep, path).data # Missing THEN on(keep)
        ELSE IF own \in fs.mounted /\ OnVolume(disk, own, path).data # Missing THEN on(own)
        ELSE read(widen(BySearch(disk, fs, path, uuid)))

(* efi_file_device_path: the volume a path search names to the firmware; no  *)
(* drivers are bound for it.                                                 *)
DevicePathOf(disk, fs, path, uuid) ==
    LET has(v) == v \in fs.mounted /\ Matches(v, uuid) /\ Opens(disk, v, path)
        named(v) == has(v) /\ v \in PathVolumes
    IN  IF has(BootVolume)
        THEN IF BootVolume \in PathVolumes THEN BootVolume ELSE NoVolume
        ELSE IF \E v \in Volumes : named(v)
             THEN VolumeOrder[SelectInSeq(VolumeOrder, named)]
             ELSE NoVolume
=============================================================================
