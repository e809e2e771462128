------------------------------ MODULE Handover ------------------------------
(* visor_boot: from the selected entry to the image that runs (linux_boot.c  *)
(* and the files it calls), with the resets of windows_bootnext=1, disks     *)
(* that change between two reads, and the firmware's own verdict on images.  *)
EXTENDS EntryFiles, Integers

CONSTANTS
    Entries,       \* the entries of the menu (records, see Entry)
    Disks,         \* the contents the volumes may have
    Sealed,        \* a content that is a visor_crypt container -> the container
    Passwords,
    PasswordBytes, \* a password -> the ASCII bytes that are hashed
    UnsafeNames,   \* path components cpio_name_from_path rejects
    DefaultKeyPath,
    PeImages,      \* contents that are PE images
    BzImages,      \* contents with a usable bzImage setup header
    Trusted,       \* contents Secure Boot accepts
    SetupOf,       \* a bzImage -> the fields of its setup header
    BootMgrPaths,  \* the two paths windows_find_bootmgr tries
    Policies,      \* [secureBoot, shim, tpm, bootnext, counter]
    BootOptions,   \* the firmware's Boot#### lists: [readable, active, windows, part]
    None,          \* no password, entry, buffer, image or mark
    Limit,         \* the first address a raw kernel cannot use (4 GiB)
    MaxChanges,    \* bound: disk changes
    MaxBoots       \* bound: platform boots

VARIABLES
    disk, fs,      \* the volumes and what is mounted
    changes,       \* how often the disk changed
    policy,        \* what the machine offers, chosen once
    options,       \* the firmware's boot options in BootOrder
    boots,         \* high half of the monotonic counter
    mark,          \* VisorWinBootNext
    next,          \* BootNext
    entry, password, \* the selected boot_entry_t and its decrypt_password
    pc,            \* where visor_boot is
    kernel,        \* kernel_buf
    keep, dp,      \* entry_vol and the volume of kernel_dp
    line,          \* boot_cmdline
    measured,      \* command lines measured into the TPM in this boot
    image,         \* the image LoadImage accepted
    initrd,        \* initrd_buf
    offered,       \* g_initrd_data while LoadFile2 is installed
    pages,         \* memory the raw hand-over allocated
    running,       \* what has control: Visor (None) or an image
    stranded       \* history: a boot whose BootNext target did not start, until
                   \* Visor has tried to load something itself

vars == <<disk, fs, changes, policy, options, boots, mark, next, entry, password,
          pc, kernel, keep, dp, line, measured, image, initrd, offered, pages,
          running, stranded>>
world == <<disk, changes, policy, options, boots, mark, next>>
fixed == <<world, stranded>>
nvram == <<boots, mark, next, stranded>>
loader == <<entry, fs, kernel, keep, dp, line, measured, image, initrd, offered, pages, running>>

Entry == [kernel : Files \cup {None}, uuid : Volumes \cup {NoVolume},
          own : Volumes \cup {NoVolume}, sealed : BOOLEAN, pin : Contents \cup {None},
          initrd : Files \cup {None}, initrdSealed : BOOLEAN, luks : BOOLEAN,
          keyPath : Seq(STRING), cmdline : Seq(STRING), luksCmdline : Seq(STRING),
          verbose : BOOLEAN, windows : BOOLEAN]

ASSUME EntriesAssumption ==
    /\ Entries \subseteq Entry
    /\ DefaultKeyPath \in Seq(STRING) \ {<<>>}

ASSUME DisksAssumption ==
    /\ Disks \subseteq Disk
    /\ \A c \in DOMAIN Sealed : Sealed[c].body.text \in Contents

(* linux_alloc_raw_image takes powers of two only: one divides the other.    *)
ASSUME SetupAssumption ==
    \A c \in BzImages :
        LET h == SetupOf[c]
        IN  /\ h.init \in Nat /\ h.pref \in Nat
            /\ h.align \in Nat \ {0} /\ h.minAlign \in Nat \ {0}
            /\ h.align % h.minAlign = 0 \/ h.minAlign % h.align = 0

ASSUME LimitAssumption == Limit \in Nat

IsWindows(e) == e.kernel = None \/ e.windows
WantsPassword(e) == e.sealed \/ e.initrdSealed \/ e.luks

(* A container of visor_crypt: salt, a body enciphered under one derived key *)
(* and a tag over both under the other.                                      *)
Derived(p, salt, block) == <<PasswordBytes[p], salt, block>>
Tag(key, c) == <<key, c.salt, c.body>>
Stream(key, body) == IF body.under = key THEN body.text ELSE Missing

(* visor_decrypt_buffer: nothing is deciphered unless the header is sound    *)
(* and the tag was made with this password.                                  *)
Decrypt(f, p) ==
    IF f \notin DOMAIN Sealed \/ p = None THEN Missing
    ELSE LET c == Sealed[f]
         IN  IF ~c.sound \/ c.tag # Tag(Derived(p, c.salt, 2), c) THEN Missing
             ELSE Stream(Derived(p, c.salt, 1), c.body)

Clear(c, secret, p) == IF secret /\ c # Missing THEN Decrypt(c, p) ELSE c

Audible(words) == SelectSeq(words, LAMBDA w : w \notin {"quiet", "splash"})

(* luks_effective_cmdline: the entry's words, then those that name the       *)
(* keyfile; luks_verbose removes quiet and splash from the result.           *)
EffectiveCmdline(e) ==
    IF ~e.luks \/ e.luksCmdline = <<>> THEN e.cmdline
    ELSE LET all == e.cmdline \o e.luksCmdline
         IN  IF e.verbose
             THEN Audible(all) ELSE all

(* cpio_name_from_path: the components of luks_key_path, or None for a path  *)
(* that could leave the initramfs' root.                                     *)
CpioName(path) ==
    IF path = <<>> THEN DefaultKeyPath
    ELSE IF Range(path) \cap UnsafeNames # {} THEN None ELSE path

(* The archive: the directories above the keyfile, the keyfile, the trailer. *)
CpioEntry(name, data) == [name |-> name, data |-> data]
Parents(name) == [i \in 1 .. Len(name) - 1 |-> CpioEntry(SubSeq(name, 1, i), None)]
Trailer == CpioEntry(<<"TRAILER!!!">>, None)

(* luks_build_keyfile_archive and luks_append_keyfile.                       *)
Archive(e, p) ==
    LET name == CpioName(e.keyPath)
    IN  IF p = None \/ name = None THEN None
        ELSE Parents(name) \o <<CpioEntry(name, p), Trailer>>
WithKey(e, data, v, p) ==
    [data |-> data, vol |-> v, key |-> IF e.luks THEN Archive(e, p) ELSE None]
AppendFails(e, p) == e.luks /\ Archive(e, p) = None

Archives == Seq([name : Seq(STRING), data : Passwords \cup {None}] \cup {Trailer})
Initrds == [data : Contents \cup {Missing}, vol : Volumes \cup {NoVolume},
            key : Archives \cup {None}]

ASSUME NoneAssumption ==
    None \notin Nat \cup Passwords \cup Seq(STRING) \cup Archives \cup Initrds

-----------------------------------------------------------------------------
Idle == [data |-> Missing, path |-> None, vol |-> NoVolume]

Init ==
    /\ disk \in Disks
    /\ fs = FirstProbe /\ changes = 0
    /\ policy \in Policies
    /\ options \in BootOptions
    /\ boots = 1 /\ mark = None /\ next = None /\ stranded = None
    /\ entry = None /\ password = None /\ pc = "menu"
    /\ kernel = Idle /\ keep = NoVolume /\ dp = NoVolume
    /\ line = <<>> /\ measured = {} /\ image = None
    /\ initrd = None /\ offered = None /\ pages = {} /\ running = None

(* The entry is chosen and, where it needs one, its passphrase was typed.    *)
Select(e, p) ==
    /\ pc = "menu"
    /\ (p = None) = ~WantsPassword(e)
    /\ entry' = e /\ password' = p
    /\ pc' = IF policy.bootnext /\ IsWindows(e) /\ e.pin = None THEN "marked"
             ELSE IF e.kernel = None THEN "bootmgr" ELSE "load"
    /\ UNCHANGED <<fixed, fs, kernel, keep, dp, line, measured, image, initrd,
                   offered, pages, running>>

Chainload == pc' = IF entry.kernel = None THEN "bootmgr" ELSE "load"

-----------------------------------------------------------------------------
(* windows_bootnext=1.                                                       *)
(* Faulty: compares with the boot that set the mark.                         *)
JustFailedSameBoot == mark # None /\ policy.counter /\ boots = mark

JustFailed == mark # None /\ policy.counter /\ boots = mark + 1

CheckMark ==
    /\ pc = "marked"
    /\ mark' = None
    /\ IF JustFailed THEN Chainload ELSE pc' = "options"
    /\ UNCHANGED <<disk, changes, policy, options, boots, next, stranded, password, loader>>

(* load_option_is_bootmgfw: an active option that ends in bootmgfw.efi.      *)
IsBootMgr(o) == o.active /\ o.windows

(* entry_partition: the volume the entry was detected on, else its uuid=.    *)
EntryPartition(e) == IF e.own # NoVolume THEN e.own ELSE e.uuid

Candidates ==
    {i \in DOMAIN options :
        /\ options[i].readable /\ IsBootMgr(options[i])
        /\ EntryPartition(entry) \in {NoVolume, options[i].part}}

Ambiguous == EntryPartition(entry) = NoVolume /\ Cardinality(Candidates) > 1

(* The mark has to be stored, and read back, before BootNext is written.     *)
Mark(stored) ==
    /\ pc = "options"
    /\ IF Candidates # {} /\ ~Ambiguous /\ policy.counter /\ stored
       THEN mark' = boots /\ pc' = "bootnext"
       ELSE mark' = mark /\ Chainload
    /\ UNCHANGED <<disk, changes, policy, options, boots, next, stranded, password, loader>>

SetBootNext(stored) ==
    /\ pc = "bootnext"
    /\ IF stored
       THEN next' = Min(Candidates) /\ mark' = mark /\ pc' = "reset"
       ELSE next' = next /\ mark' = None /\ Chainload
    /\ UNCHANGED <<disk, changes, policy, options, boots, stranded, password, loader>>

Fresh ==
    /\ fs' = FirstProbe /\ kernel' = Idle /\ keep' = NoVolume /\ dp' = NoVolume
    /\ line' = <<>> /\ measured' = {} /\ image' = None /\ initrd' = None
    /\ offered' = None /\ pages' = {} /\ entry' = None /\ password' = None

(* A platform boot: the firmware consumes BootNext and, when its target does *)
(* not start, carries on down BootOrder to Visor in the same boot.           *)
PlatformBoot(works) ==
    /\ boots < MaxBoots
    /\ boots' = boots + 1
    /\ next' = None
    /\ IF next # None /\ works
       THEN /\ running' = [by |-> "firmware", part |-> options[next].part]
            /\ pc' = "running" /\ stranded' = stranded
       ELSE /\ running' = None /\ pc' = "menu"
            /\ stranded' = IF next # None THEN boots + 1 ELSE stranded
    /\ Fresh
    /\ UNCHANGED <<disk, changes, policy, options, mark>>

Reset(works) == pc = "reset" /\ PlatformBoot(works)
PowerCycle(works) == pc # "reset" /\ PlatformBoot(works)

-----------------------------------------------------------------------------
(* What BS->LoadImage may answer for an image.                               *)
Verdicts(c) ==
    IF c \notin PeImages THEN {"error"}
    ELSE IF policy.secureBoot /\ c \notin Trusted THEN {"violation"}
    ELSE {"ok", "error"}

ReadNow(v, path) == Data(disk, v, path)

(* Faulty: returns with the passphrase still in the entry.                   *)
GiveUpKeepsKey ==
    /\ pc' = "menu" /\ UNCHANGED password /\ keep' = NoVolume /\ dp' = NoVolume
    /\ kernel' = Idle /\ initrd' = None /\ line' = <<>>

GiveUp ==
    /\ pc' = "menu" /\ password' = None /\ keep' = NoVolume /\ dp' = NoVolume
    /\ kernel' = Idle /\ initrd' = None /\ line' = <<>>

(* No kernel path: the Windows Boot Manager of the entry's partition is      *)
(* loaded by its device path and started.                                    *)
BootMgrAt ==
    LET at(i) == DevicePathOf(disk, fs, BootMgrPaths[i], entry.uuid)
        i == IF at(1) # NoVolume THEN 1 ELSE 2
    IN  [vol |-> at(i), path |-> BootMgrPaths[i]]

ChainloadBootMgr(verdict) ==
    /\ pc = "bootmgr"
    /\ stranded' = None
    /\ LET b == BootMgrAt
           c == IF b.vol = NoVolume THEN Missing ELSE ReadNow(b.vol, b.path)
       IN  /\ verdict \in Verdicts(c)
           /\ IF verdict = "ok"
              THEN /\ pc' = "running"
                   /\ running' = [by |-> "bootmgr", image |-> [data |-> c, vol |-> b.vol]]
              ELSE pc' = "menu" /\ UNCHANGED running
    /\ UNCHANGED <<world, entry, password, fs, kernel, keep, dp, line, measured,
                   image, initrd, offered, pages>>

LoadKernel ==
    /\ pc = "load"
    /\ stranded' = None
    /\ \E f \in {LoadFrom(disk, fs, entry.kernel, entry.uuid, entry.own, NoVolume)} :
       \E c \in {Clear(f.data, entry.sealed, password)} :
           /\ fs' = f.fs
           /\ IF c = Missing
              THEN GiveUp
              ELSE /\ kernel' = [data |-> c, path |-> f.path, vol |-> f.vol]
                   /\ keep' = f.keep /\ pc' = "verify"
                   /\ UNCHANGED <<password, dp, line, initrd>>
    /\ UNCHANGED <<world, entry, measured, image, offered, pages, running>>

(* sha256 pin, then shim; -1 (no shim) lets the firmware decide.             *)
HashOk == entry.pin \in {None, kernel.data}
ShimRejects == policy.shim /\ kernel.data \notin Trusted
Unverified == policy.secureBoot /\ ~(policy.shim /\ kernel.data \in Trusted)

Verify ==
    /\ pc = "verify"
    /\ IF HashOk /\ ~ShimRejects
       THEN pc' = "cmdline" /\ UNCHANGED <<password, keep, dp, kernel, initrd, line>>
       ELSE GiveUp
    /\ UNCHANGED <<fixed, entry, fs, measured, image, offered, pages, running>>

(* tpm_init: a protocol with both methods, a complete capability block, an   *)
(* active TPM and a mask of active banks.                                    *)
TpmPresent(t) ==
    t.protocol /\ t.methods /\ t.complete /\ t.active /\ (t.banks \/ t.banksOnRequest)

(* tpm_measure_cmdline: nothing for an empty command line.                   *)
Measurable(words) == IF TpmPresent(policy.tpm) /\ words # <<>> THEN {words} ELSE {}

(* Faulty: measures the entry's own command line.                            *)
CmdlineMeasuresEntry ==
    /\ pc = "cmdline"
    /\ line' = EffectiveCmdline(entry)
    /\ measured' = measured \cup Measurable(entry.cmdline)
    /\ pc' = IF kernel.data \in PeImages THEN "path" ELSE "raw"
    /\ UNCHANGED <<fixed, entry, password, fs, kernel, keep, dp, image, initrd,
                   offered, pages, running>>

Cmdline ==
    /\ pc = "cmdline"
    /\ line' = EffectiveCmdline(entry)
    /\ measured' = measured \cup Measurable(line')
    /\ pc' = IF kernel.data \in PeImages THEN "path" ELSE "raw"
    /\ UNCHANGED <<fixed, entry, password, fs, kernel, keep, dp, image, initrd,
                   offered, pages, running>>

-----------------------------------------------------------------------------
(* PE images.  The device path: the volume the kernel was read from, the     *)
(* entry's own volume, a search; none for a decrypted kernel.                *)
KernelPath ==
    IF entry.sealed THEN NoVolume
    ELSE IF keep \in PathVolumes THEN keep
    ELSE IF entry.own \in PathVolumes /\ entry.own \in fs.mounted
            /\ Opens(disk, entry.own, kernel.path) THEN entry.own
    ELSE DevicePathOf(disk, fs, kernel.path, entry.uuid)

(* Faulty: forgets that a pinned file must not be read again.                *)
MayRereadPinned == ~entry.sealed

MayReread == entry.pin = None /\ ~entry.sealed

MakePath ==
    /\ pc = "path"
    /\ dp' = KernelPath
    /\ pc' = IF KernelPath = NoVolume THEN "buffer" ELSE "pinned"
    /\ UNCHANGED <<fixed, entry, password, fs, kernel, keep, line, measured, image,
                   initrd, offered, pages, running>>

Accept(c, v) == image' = [data |-> c, vol |-> v] /\ pc' = "initrd"
Refused == pc' = IF Unverified THEN "refused" ELSE "fallback"

(* LoadImage with the device path and the bytes in memory.                   *)
LoadPinned(verdict) ==
    /\ pc = "pinned"
    /\ verdict \in Verdicts(kernel.data)
    /\ \/ verdict = "ok" /\ Accept(kernel.data, kernel.vol)
       \/ verdict = "violation" /\ Refused /\ UNCHANGED image
       \/ verdict = "error" /\ UNCHANGED image
          /\ pc' = IF MayReread THEN "reread" ELSE "buffer"
    /\ UNCHANGED <<fixed, entry, password, fs, kernel, keep, dp, line, measured,
                   initrd, offered, pages, running>>

(* LoadImage with the path alone: the firmware reads the file again.         *)
LoadReread(verdict) ==
    /\ pc = "reread"
    /\ LET c == ReadNow(dp, kernel.path)
       IN  /\ verdict \in Verdicts(c)
           /\ \/ verdict = "ok" /\ Accept(c, dp)
              \/ verdict = "violation" /\ Refused /\ UNCHANGED image
              \/ verdict = "error" /\ UNCHANGED image /\ pc' = "buffer"
    /\ UNCHANGED <<fixed, entry, password, fs, kernel, keep, dp, line, measured,
                   initrd, offered, pages, running>>

LoadBuffer(verdict) ==
    /\ pc = "buffer"
    /\ verdict \in Verdicts(kernel.data)
    /\ IF verdict = "ok" THEN Accept(kernel.data, kernel.vol)
       ELSE Refused /\ UNCHANGED image
    /\ UNCHANGED <<fixed, entry, password, fs, kernel, keep, dp, line, measured,
                   initrd, offered, pages, running>>

LoadRefused ==
    /\ pc = "refused"
    /\ GiveUp
    /\ UNCHANGED <<fixed, entry, fs, measured, image, offered, pages, running>>

(* Required: a decrypted or luks=1 initrd; a plain one may be missing.       *)
InitrdRequired == entry.initrdSealed \/ entry.luks

LoadInitrd ==
    /\ pc = "initrd" /\ entry.initrd # None
    /\ \E f \in {LoadFrom(disk, fs, entry.initrd, entry.uuid, entry.own, keep)} :
       \E c \in {Clear(f.data, entry.initrdSealed, password)} :
           /\ fs' = f.fs
           /\ IF (c = Missing /\ InitrdRequired) \/ (c # Missing /\ AppendFails(entry, password))
              THEN GiveUp
              ELSE /\ initrd' = IF c = Missing THEN None ELSE WithKey(entry, c, f.vol, password)
                   /\ keep' = f.keep
                   /\ pc' = IF c = Missing THEN "start" ELSE "register"
                   /\ UNCHANGED <<password, kernel, dp, line>>
    /\ UNCHANGED <<fixed, entry, measured, image, offered, pages, running>>

(* Without initrd= a luks entry gets an archive with the keyfile alone.      *)
KeyOnly ==
    /\ pc = "initrd" /\ entry.initrd = None
    /\ IF ~entry.luks
       THEN pc' = "start" /\ UNCHANGED <<password, kernel, keep, dp, line, initrd>>
       ELSE IF Archive(entry, password) = None THEN GiveUp
       ELSE /\ initrd' = [data |-> Missing, vol |-> NoVolume, key |-> Archive(entry, password)]
            /\ pc' = "register"
            /\ UNCHANGED <<password, kernel, keep, dp, line>>
    /\ UNCHANGED <<fixed, entry, fs, measured, image, offered, pages, running>>

Register(installed) ==
    /\ pc = "register"
    /\ offered' = IF installed THEN initrd ELSE None
    /\ IF ~installed /\ entry.luks THEN GiveUp
       ELSE pc' = "start" /\ UNCHANGED <<password, kernel, keep, dp, line, initrd>>
    /\ UNCHANGED <<fixed, entry, fs, measured, image, pages, running>>

Start ==
    /\ pc = "start"
    /\ password' = None /\ keep' = NoVolume /\ kernel' = Idle
    /\ running' = [by |-> "pe", image |-> image, line |-> line, initrd |-> offered]
    /\ pc' = "running"
    /\ UNCHANGED <<fixed, entry, fs, dp, line, measured, image, initrd, offered, pages>>

-----------------------------------------------------------------------------
(* The x86 hand-over to a kernel without an EFI stub, also tried when        *)
(* LoadImage refused a PE image for another reason than its signature.       *)
RawRefused ==
    /\ pc = "raw" /\ Unverified
    /\ GiveUp
    /\ UNCHANGED <<fixed, entry, fs, measured, image, offered, pages, running>>

(* The image's place: at its preferred address, or aligned up inside an      *)
(* allocation below the limit.                                               *)
Needed(h) == h.init
Alignment(h) == IF h.minAlign > h.align THEN h.minAlign ELSE h.align
HeaderOk(h) == (h.relocatable \/ h.pref # 0) /\ h.init > 0
AlignUp(a, n) == ((a + n - 1) \div n) * n
AtPreferred(h) ==
    h.relocatable /\ h.pref # 0 /\ h.pref % Alignment(h) = 0 /\ h.pref + Needed(h) <= Limit
Place(use, at, first, size) == [use |-> use, at |-> at, first |-> first, size |-> size]

(* Faulty: the aligned address is not compared with the preferred one.       *)
PlacementsAnywhere(h) ==
    LET total == Needed(h) + Alignment(h) - 1
    IN  {Place("image", AlignUp(b, Alignment(h)), b, total) : b \in 0 .. Limit - total}

Placements(h) ==
    LET total == Needed(h) + Alignment(h) - 1
        fits(b) == /\ AlignUp(b, Alignment(h)) >= h.pref
                   /\ AlignUp(b, Alignment(h)) + Needed(h) <= Limit
    IN  (IF AtPreferred(h) THEN {Place("image", h.pref, h.pref, total)} ELSE {})
        \cup {Place("image", AlignUp(b, Alignment(h)), b, total) :
                b \in {x \in 0 .. Limit - total : fits(x)}}

RawImage(p) ==
    /\ \/ pc = "raw" /\ ~Unverified
       \/ pc = "fallback"
    /\ kernel.data \in BzImages
    /\ HeaderOk(SetupOf[kernel.data])
    /\ p \in Placements(SetupOf[kernel.data])
    /\ pages' = {p}
    /\ keep' = IF pc = "raw" THEN NoVolume ELSE keep
    /\ pc' = "rawinitrd"
    /\ UNCHANGED <<fixed, entry, password, fs, kernel, dp, line, measured, image,
                   initrd, offered, running>>

(* No setup header, a header out of bounds, or no memory: the pages already  *)
(* taken are given back.                                                     *)
RawFails ==
    /\ \/ pc = "raw" /\ ~Unverified
       \/ pc \in {"fallback", "rawinitrd", "rawcmdline"}
    /\ pages' = {}
    /\ GiveUp
    /\ UNCHANGED <<fixed, entry, fs, measured, image, offered, running>>

(* The raw kernel's initrd comes from the entry's volume or a search, not    *)
(* from the volume kept open, and is never optional.                         *)
RawInitrd(p) ==
    /\ pc = "rawinitrd" /\ entry.initrd # None
    /\ \E f \in {LoadFrom(disk, fs, entry.initrd, entry.uuid, entry.own, NoVolume)} :
       \E c \in {Clear(f.data, entry.initrdSealed, password)} :
           /\ fs' = f.fs
           /\ c # Missing /\ ~AppendFails(entry, password)
           /\ p.at <= SetupOf[kernel.data].initrdMax
           /\ pages' = pages \cup {p}
           /\ initrd' = WithKey(entry, c, f.vol, password)
    /\ pc' = "rawcmdline"
    /\ UNCHANGED <<fixed, entry, password, kernel, keep, dp, line, measured, image,
                   offered, running>>

RawNoInitrd ==
    /\ pc = "rawinitrd" /\ entry.initrd = None /\ ~entry.luks
    /\ pc' = "rawcmdline"
    /\ UNCHANGED <<fixed, loader, password>>

CmdlineFits == Len(line) <= SetupOf[kernel.data].cmdlineSize

RawStart ==
    /\ pc = "rawcmdline"
    /\ CmdlineFits
    /\ password' = None
    /\ running' = [by |-> "raw", image |-> [data |-> kernel.data, vol |-> kernel.vol], line |-> line, initrd |-> initrd]
    /\ pc' = "running"
    /\ UNCHANGED <<fixed, entry, fs, kernel, keep, dp, line, measured, image, initrd,
                   offered, pages>>

-----------------------------------------------------------------------------
(* The image gives control back: LoadFile2 is removed before its buffer is   *)
(* freed, the raw kernel's pages are freed, and visor_boot returns.          *)
ImageReturns ==
    /\ pc = "running" /\ running.by # "firmware"
    /\ running' = None /\ image' = None /\ offered' = None /\ pages' = {}
    /\ IF running.by = "bootmgr"
       THEN pc' = "menu" /\ UNCHANGED <<password, keep, dp, kernel, initrd, line>>
       ELSE GiveUp
    /\ UNCHANGED <<fixed, entry, fs, measured>>

(* Sticks come and go, files are replaced, between any two steps.            *)
Change(d) ==
    /\ changes < MaxChanges /\ d # disk
    /\ disk' = d /\ changes' = changes + 1
    /\ UNCHANGED <<policy, options, nvram, loader, pc, password>>

BootVisor ==
    \/ CheckMark
    \/ \E stored \in BOOLEAN : Mark(stored) \/ SetBootNext(stored)
    \/ \E works \in BOOLEAN : Reset(works)
    \/ \E v \in {"ok", "violation", "error"} :
          ChainloadBootMgr(v) \/ LoadPinned(v) \/ LoadReread(v) \/ LoadBuffer(v)
    \/ LoadKernel \/ Verify \/ Cmdline \/ MakePath \/ LoadRefused
    \/ LoadInitrd \/ KeyOnly \/ Start
    \/ \E installed \in BOOLEAN : Register(installed)
    \/ RawRefused \/ RawFails \/ RawNoInitrd \/ RawStart
    \/ \E at, first \in 0 .. Limit - 1, size \in 1 .. Limit :
          RawImage(Place("image", at, first, size))
    \/ \E at \in 0 .. Limit - 1 : RawInitrd(Place("initrd", at, at, 1))

Next ==
    \/ \E e \in Entries, p \in Passwords \cup {None} : Select(e, p)
    \/ BootVisor
    \/ ImageReturns
    \/ \E works \in BOOLEAN : PowerCycle(works)
    \/ \E d \in Disks : Change(d)

Spec == Init /\ [][Next]_vars

-----------------------------------------------------------------------------
ImageRuns == running # None /\ running.by \in {"pe", "raw", "bootmgr"}
LinuxRuns == running # None /\ running.by \in {"pe", "raw"}

(* Secure Boot and sha256=: however often LoadImage is repeated, from which  *)
(* source, and whatever the disk holds by then, the image that gets control  *)
(* is one the firmware or shim accepted and, for an entry with a path and a  *)
(* pin, the very one that was hashed.                                        *)
OnlyVerifiedRuns ==
    ImageRuns =>
        /\ policy.secureBoot => running.image.data \in Trusted
        /\ entry.kernel # None /\ entry.pin # None => running.image.data = entry.pin

(* An initramfs that unpacks the archive in order ends up with a keyfile:    *)
(* every directory comes before what lies in it.                             *)
Unpacks(archive) ==
    /\ archive # None
    /\ \E i \in DOMAIN archive : archive[i].data # None
    /\ \A i \in DOMAIN archive : \A n \in 1 .. Len(archive[i].name) - 1 :
          \E j \in 1 .. i - 1 : archive[j].name = SubSeq(archive[i].name, 1, n)

(* luks=1 and the TPM: no such kernel starts without an initrd that unpacks  *)
(* to a keyfile, and a command line a kernel is given was measured before.      *)
CompleteHandover ==
    LinuxRuns =>
        /\ entry.luks => running.initrd # None /\ Unpacks(running.initrd.key)
        /\ Measurable(running.line) \subseteq measured

(* While no file changes: uuid= decides where the image comes from if that   *)
(* partition has it, drivers being bound until it shows up, and a PE image's *)
(* initrd is its neighbour's, not a namesake's of another volume - unless    *)
(* the kernel also lies on a volume without a device path: bytes read there  *)
(* may be replaced by what LoadImage reads under a path of another volume.   *)
RightVolumes ==
    LinuxRuns /\ changes = 0 =>
        /\ LET there == OnVolume(disk, entry.uuid, entry.kernel)
           IN  entry.own = NoVolume /\ entry.uuid # NoVolume /\ there.data # Missing
                   => running.image.vol = entry.uuid
        /\ running.by = "pe" /\ running.initrd # None /\ running.initrd.data # Missing
            => \/ running.initrd.vol = running.image.vol
               \/ \E v \in Volumes \ PathVolumes :
                     OnVolume(disk, v, entry.kernel).data # Missing
               \/ OnVolume(disk, running.image.vol, entry.initrd).data = Missing

(* windows_bootnext=1 (BOOTNEXT_MARK): in a boot that Visor owes to a        *)
(* BootNext target that did not start, no BootNext hand-off comes before an  *)
(* attempt to load an image directly, whatever crashes lie between.          *)
NoHandoffLoop == [][next' # None /\ next = None => boots # stranded]_vars

(* visor_boot that returns leaves nothing behind: no LoadFile2 for a freed   *)
(* initrd, no pages of the raw hand-over, no passphrase in an entry with a   *)
(* path; and what LoadFile2 offers is always the live buffer.                *)
CleanReturn ==
    /\ offered # None => offered = initrd
    /\ pc = "menu" =>
        /\ offered = None /\ pages = {} /\ initrd = None
        /\ entry # None /\ entry.kernel # None => password = None

(* The raw kernel lies inside its allocation, aligned, not below its         *)
(* preferred address and below 4 GiB; its initrd where its header allows.    *)
RawPlaced ==
    running # None /\ running.by = "raw" =>
        LET h == SetupOf[kernel.data]
        IN  \A p \in pages :
              /\ p.use = "image" =>
                    /\ p.first <= p.at /\ p.at + h.init <= p.first + p.size
                    /\ p.at % h.align = 0 /\ p.at >= h.pref /\ p.at + h.init <= Limit
              /\ p.use = "initrd" => p.at <= h.initrdMax
=============================================================================
