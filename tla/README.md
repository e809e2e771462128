# Visor: a TLA+ verification project

Visor is a UEFI boot manager written in C. It runs alone on one processor,
before any operating system, with no threads of its own; what makes it hard is
everything around it: power that goes at any instant, firmware calls that fail
half way, drives that cache writes, volumes that come and go, and other systems
that change the same NVRAM variables and files between two starts. This
directory models the parts of Visor where that matters, checks them with TLC on
small instances and proves the most important properties with TLAPS.

Paths below are relative to the repository; the C sources are in `src/`.

## 1. The system

| Component | State it keeps | Operations | What is hard |
|---|---|---|---|
| GPT diagnosis and repair (`src/gpt/`, `core/gpt_disk.c`, `gui/gui_gptwarn.c`) | plan, diagnosis, dialogue state; the disk | scan, offer, confirm, execute (write, flush, write, flush, verify) | write cache, torn writes, power cuts, swapped media, transient read errors |
| Boot self-heal (`core/efi_selfheal.c`) | Boot####, BootOrder, `.selfheal` stamp, fallback file | one pass per start, and on a shell command | other systems change the same data; cooldown across starts; cuts between two writes |
| Boot flow (`core/main.c`) | selected entry, one-shot overrides, password, attempts | autoboot, menu, boot, recovery, retry | overrides must be restored on every way out; the loops back to the menu |
| Hot-plug discovery (`config/config_hotplug.c`) | known volumes, scan cursor, staged scan, entry list | arm, poll, drop vanished, scan incrementally | a volume vanishes in the middle of its scan; indices shift under the menu |
| File system drivers (`core/efi_fsdrv.c`) | loaded drivers, probed devices | load, connect, probe on demand | a slow or absent device |
| Boot hand-over (`boot/linux_boot.c` and neighbours, `security/luks_keyfile.c`) | loaded image, initrd protocol, secrets | verify, load, start, fall back; Windows BootNext | secrets on every error path; loops through the firmware |
| Boot counting, BLS (`config/config_bls.c`) | tries counters in file names | parse, decrement by rename | decrement once per attempt, a rename that fails |
| Loader interface (`boot/loader_iface.c`, `core/efi_var.c`) | Loader* variables | export, take one-shot entry and timeout | one-shot variables consumed once |
| Configuration (`config/`) | `visor_config_t` | parse keys, include, merge | precedence of sources; limits |
| Discovery, snapshots (`config/config_discover.c`, `config_snapshots.c`) | entry list | staged scan, duplicate removal, snapshot lists | duplicates, order, limits |
| Boot menu (`gui/gui_run.c`, `gui_menu.c`, `gui_editor.c`, `text/text_menu.c`) | focus, selection, timeout, editor buffer | keys, timeout, hot-plug | selection versus a changing list |
| Recovery shell (`text/text_recovery.c`) | command line, selected entry, action | commands, retry, boot | its edits and the one-shot overrides |
| File browser (`browse/`) | directory, listing, marks | open, up, copy | a volume that goes away |
| Capture (`capture/`) | recording session, file | start, tick, finish | disk full, cut half way |
| Log (`core/efi_log.c`) | ring buffer, log file | append, open late, rotate | what is lost between |
| Measurement, verification (`security/`) | TPM event order, hashes | measure, verify | order of measure and start |
| Audio (`audio/`) | controller rings, streams | start, refill, stop | rings and shared buffers |
| Decoders, animation (`decoders/`) | frame clock, decoded frames | open, tick, seek | timing; pixel decoding is data |
| Drawing (`gui/`) | back buffer | draw, present | no property of state |
| Architecture start-up (`arch/`) | | | below the level of these models |
| Installer, maintenance scripts | | | run under an installed system |

The components meet in `core/main.c`: it parses the configuration, runs the
self-heal pass, and then the menu (`gui_run.c`), which first lets the GPT
warning card run. The menu polls hot-plug, returns a selection, `main.c` hands
it to `visor_boot`, and a failed boot comes back to the menu or the recovery
shell, which can run the GPT and self-heal commands too. They share state only
through `visor_config_t`, the entry list and the firmware's variables; there
are no callbacks that interrupt one component in the middle of another, so each
component is a sequential process whose environment moves between its steps.

### What makes each component correct

* **GPT repair.** A disk with a valid table never ends without one; the backup
  is never damaged; only a primary that is really damaged is rewritten; the
  right medium is written; success is durable; an interrupted repair can be
  repeated; repairs come to an end.
* **Self-heal.** No other boot target is hidden, moved or overwritten; rewrites
  are spaced; nothing is written without need; the entry and the fallback copy
  come back when others stop interfering.
* **Boot flow.** What the user edited for one boot is gone after it; a secret
  does not outlive the boot it was typed for; the menu that comes late is the
  one that was configured.
* **Hot-plug.** A volume that goes away takes its entries with it; nothing is
  shown twice however a search is paused; a volume that appears and stays is
  searched, in the end and once, unless it is taken for one that is known; the menu is told what changed.
* **Start-up and boot counting.** An attempt costs one try, on disk, before it
  is made; a counter file is never lost while it is renamed; a one-shot entry
  boots once; a TPM that hangs the firmware does so once.
* **Hand-over.** The image that runs is the one that was verified; a kernel
  gets its initrd, its keys and the command line that was measured, or does
  not run; the files are those of the entry's partition; Windows is not asked
  for twice in a loop; a boot that returns leaves nothing behind.
* **Menu.** What boots is what the user chose and the screen shows; overrides
  of different origin do not mix; a countdown that nobody stops boots.
* **Browser.** The listing is complete up to its limits and sorted; the picked
  file is the one that is marked.
* **Configuration and discovery.** Both readers of `boot.conf` agree; taking
  the running loader out of the list takes out nothing else; a snapshot boots
  with its own subvolume and the rest of the entry's options.
* **Recorder.** A recording that was closed without an error can be played to
  its end, and its sound is where it was heard.

## 2. Modules

| Module | Models | Lines of the code |
|---|---|---|
| `GptTable` | the two copies of a GPT, how they are validated, classified, planned | `gpt.c`, `gpt_diagnose.c`, `gpt_repair.c:11-146` |
| `GptRepair` | both front ends, `gpt_execute_plan`, the drive | `gpt_repair.c:148-321`, `gpt_disk.c`, `gui_gptwarn.c`, `text_gptcmd.c` |
| `RedundantTable` | abstract: a table in two copies of which only the damaged one is replaced | |
| `GptRepairSafe` | the inductive invariant, the assumption it needs, the refinement mapping | |
| `SelfHeal` | the self-heal pass and the world around it | `efi_selfheal.c`, `efi_file.c:419-437` |
| `SelfHealProofs` | TLAPS proofs | |
| `Hotplug` | arming, polls, the staged search, devices that come and go | `config_hotplug.c`, `tag_entries_since` |
| `VolumeMenu` | abstract: what the menu shows of each volume | |
| `HotplugProofs` | TLAPS proofs: what is on the list, what a poll reports, the fallback path, the refinement | |
| `EntryFiles` | where the files of an entry come from: partitions, volumes, drivers bound on demand | `linux_file.c`, `efi_file.c`, `efi_path.c`, `efi_fsdrv.c` |
| `Handover` | `visor_boot` from the entry to the running image and back; extends `EntryFiles` | `boot/`, `luks_keyfile.c`, `crypto.c`, `hash_verify.c`, `tcg2.c` |
| `HandoverProofs` | TLAPS proofs, with the lemmas about `EntryFiles`: what the searches return, on which volume | |
| `BootFlow` | a session: autoboot, menu, overrides, passphrase, hand-over, return, recovery shell | `main.c`, `text_recovery.c`, one step each of menu, editor and browser |
| `BootFlowAndDiscoveryProofs` | TLAPS proofs about `BootFlow`, and about `Settings` and `Discovery`: the two readers of `boot.conf`, the running loader taken out, the snapshots; the two parts share no fact | |
| `StartUp` | what is kept between starts: TPM marker, loader variables, boot counters | `tcg2.c`, `loader_iface.c`, `config_bls.c`, `efi_file.c`, `efi_var.c` |
| `StartUpProofs` | TLAPS proofs | |
| `Menu` | the graphical and the text menu, pass by pass | `gui_run.c`, `gui_menu.c`, `gui_panels.c`, `gui_pointer.c`, `gui_screensaver.c`, `gui_capture.c`, `text_menu.c` |
| `MenuProofs` | TLAPS proofs | |
| `Browser` | both file browsers | `filebrowse.c`, `text_browse.c`, `gui_browse.c` |
| `RepairAndBrowserProofs` | TLAPS proofs about `GptRepair`, and about `Browser`: the merge sort, the listing, the picked file; the two parts share no fact | |
| `Settings` | `boot.conf` line by line, its keys, entry blocks and themes | `config.c`, `config_keys.c`, `config_entry.c`, `config_util.c`, `config_luks.c` |
| `Discovery` | from `boot.conf` and the volumes to the menu's entries; extends `Settings` | `config_discover.c`, `config_cmdline.c`, `config_snapshots.c`, `config_recovery.c`, `config_bls.c` |
| `Recorder` | the recording of a boot with its sound | `capture_session.c`, `capture_avi.c`, `capture_file.c`, `menu_sound.c`, part of `hda.c` |
| `RecorderProofs` | TLAPS proofs: the staged file, the container, the slots of sound, what a player reads back | |
| `MC...` | instances for TLC, one per run's module | |

### GptTable and GptRepair

A disk is a function from block numbers to what a block holds: a header (its
own address, the other copy's, the array's, which table it describes, whether
its CRC is right), one block of an entry array, a protective MBR, or junk.
`Image[t]` gives the blocks of table t's array; two tables may share a block,
as real tables do, so that a half-written array is neither. The validations
`HeaderValid`, `ArrayPlaced`, `EntriesValid`, `CopyValid` follow
`gpt_parse_header`, `gpt_load_entries` and `gpt_load_ct`; CRCs are abstracted to
equality with the table, the layout checks to membership of `SoundTables` (`LaidOut`).
`BackupAccepted` keeps the short cut of the menu's quick scan, which does not
read the backup's array when a valid primary agrees with its header.

`platter` is what survives a power cut, `cache` the drive's volatile blocks;
`Destage` writes any of them back at any time, `FlushBlocks` all of them. A
failed write leaves each block old, new or unreadable. `pc` follows the warning
card and `gpt_execute_plan`, one value per request to the drive, so that a cut
or a swap can fall between any two. `changed` is the result of the media check
that `gpt_disk.c` makes before every request. The menu's card and the shell's
command share everything but the quick scan, the suppression and the screens.

### SelfHeal

`entry`, `order`, `stamp` and `file` are the durable state: the Boot####
variables, BootOrder (a list, absent, or malformed), the stamp file beside each
of the two images, and the fallback file. One step of the pass ends with at
most one durable write. `Start` is the firmware: from an entry, from the
fallback path, or by way of another system's loader. `Meddle` is the rest of
the world. An entry records its path and whether it is on this volume, because
the code compares paths only. `owed` is a history variable: how many passes of
an image must still be deferred if every rewrite is followed by its cooldown.

### Hotplug and VolumeMenu

A partition is its handle. `attached`, `mounted` and `empty` are what the
firmware answers to `LocateHandleBuffer` for Block I/O and Simple File System
and to a look at `MediaPresent`; `Plug`, `Unplug`, `Eject` and `Insert` change
them between any two steps of a poll. `Content[v][s]` is what stage `s` of a
search finds on volume `v`; how a directory is read and an entry named is left
out. `pc` goes through one call of `config_hotplug_poll`: probe one device
(`Probe`), connect new ones (`NewBlocks`), take the list of file systems
(`Locate`), unlink entries of vanished volumes (`DropEntry`, once per entry, and
`DropDone`, which also abandons a search), pick a volume (`Pick`, `PickNone`,
`Resume`), one `hp_scan_step` per search action, and the update of what is known
and returned (`Settle`). A search may pause after every step, which stands for
a key press and for the end of the 40 ms slice alike; `walked` is how far the
open directory has been read, so a paused walk has a place to go on from.
`fresh` and `excused` are history variables for the question whether a volume
that appeared is offered: the volumes that were unknown when the watch was armed
or appeared since, and those the code passes over. `Namesake` is the part of
`hp_volume_hosts_entry` that looks past entries of other volumes.

Two simplifications are deliberate. Devices do not change within the loop that
unlinks entries: it reads `MediaPresent` flags, and but for its log lines it
accesses no disk. Allocations do not fail.

`VolumeMenu` knows neither polls nor lists: each volume shows a set of files,
one volume at a time is searched and shows more, and a volume that goes away
shows nothing at once. The mapping (`ShownNow`, `TurnNow`) counts a vanished
volume as withdrawn from the moment the poll has taken its list, so that the
loop's single steps are stutters.

### EntryFiles and Handover

A volume is its handle; what a file holds is a model value, so two files of
the same path on two volumes are told apart and a hash is equality. Files are
found as in `linux_file.c`: on the entry's partition, then on the volume Visor
came from, then anywhere, each time before and after a driver is bound to one
more device. `Handover` follows `visor_boot` call by call: the path and the
passphrase, `sha256=`, the container and its keyfile archive, `LoadImage` from
memory and its repetitions through a device path, shim's verdict, the raw
hand-over with the kernel's own alignment and preferred address, the initrd by
`LoadFile2` or by the boot parameters, what the TPM is told, and the order in
which all of it is given back when something fails or the image returns. The
disk may change once between any two steps (`Change`). `Reset` is the firmware,
which takes `BootNext` away whether or not the target starts; the marker in
`windows_boot.c`'s place survives it.

### BootFlow

`pc` goes through `efi_main`'s loop: `start` and `splash` (display modes and
the autoboot window, with a key that comes in it or not), `select`, `menu`,
`password`, `last` (the last-chance key), `running`, and the two shells. An
entry is a record of the five fields a boot can override; `pending` is what
menu, editor, browser and shell have set for the next boot, `saved` what
`efi_main` puts back. A hand-over either never returns or comes back with an
error, and the session goes on. `typed` is a history variable: what the user
changed since the last hand-over.

### StartUp

Durable: the TPM stage (`VisorTpmStage`), the Loader variables, and the files of
`\loader\entries` with their counters. A start takes them in the order of the
code; `PowerOff` may end it between any two steps. `Records` reads the
directories file by file as `bls_scan` does (one directory to a volume, where the
code reads `\loader\entries` and then `\boot\loader\entries`), `Groups` puts the records together,
both as recursive functions. A rename (`efi_rename_file`) is three steps: the
copy is created empty, written and flushed, and the old file deleted; the last
two may be refused, and a file being written holds a part of its lines. A start
hands over at most `MaxBoots` times. The deletion of a one-shot
variable is a request like any other: `asked` counts what was put into it,
`kept` the deletions the firmware refused, `obeyed` the boots it decided.
`LoaderConfigTimeoutOneShot`, which changes the countdown of one start in the same
way, is left out.

### Menu

One pass of `gui_run`'s loop is four steps - the screensaver and the drawing,
the pointer, one key, and what comes last - because its `continue` statements
skip different ones of them. `ui` holds selection, panels and fades, `page` the
sliding page and the hit boxes of the last drawing, `cards` the deployments and
snapshots of the entries, `clock` the countdown and the saver's idle time,
`pending` the overrides with where they came from. `seen` is a history
variable: what the last drawing showed. Hot-plug is `VolumeMenu`'s promise in
short: a poll adds entries at the end of the list, or takes one out, or both.
`text_menu_run` has its own cursor over entries and power actions.

### Browser

A name is a member of a set with a rank, a prefix and a length; a path is the
sequence of its directories. `Read` is what the firmware's directory handle
returns, with `FB_MAX_READS`, `FB_MAX_ENTRIES`, name and path limits and the
two ways reading can fail (each
directory of a path is counted with the separator behind it; `fb_set_path` strips the
last one of the path a browser opens on, so there the model's limit comes one
character early); the merge sort is written as in the code, width by
width (`Lefts` is the loop of one merge, `Width` one pass, `Sorted` the passes;
they are functions on the places of the rows, so that they can be proved about). Both front ends have their keys, and a picked file leaves its overrides.

### Settings and Discovery

A line of `boot.conf` is its kind, key and value; a value is known by the words
it begins with, its leading digits and its kind. The keys of `config_keys.c`
are a table: which rule a key follows, its bounds or words, and which setting
it changes. `EarlyFlags` is the first pass, `Parsed` the second with its entry
blocks. `Discovery` adds what the start does with it: the search of the volumes
stage by stage with the derivation of command lines (loader entries, fstab, the
GPT's root partition), the removal of entries that start Visor itself, snapshot
manifests, Snapper, Timeshift and plain directories, the recovery entries.

A loop of the code that carries a state over a list is `Folded`: a recursive
function on the places of the list, so that it can be proved about. `Attempts`
is the order in which `snapshots_autodetect` goes through a volume (all Snapper
bases, then Timeshift, then the three plain directories of a base at a time),
`Attempt` one of its groups, which is skipped once something was found;
`ScanDir` is one directory with its looks at the clock, and `Insert` the
insertion sort of the newest names.

### Recorder

A file is a sequence of words, written through the staging buffer of
`capture_file.c` to a volume that takes only so much (`room`) and may go. The
header keeps the fields that are patched at the end, an index entry is one
word, a sample is the index it has in the sound, so the place of every sample
in the file tells when it should have been heard. `Present` is `gui_present`
with what it does to the session, the sound is prepared, started, polled, cut
and drained as by the egg's screen and the menu.

## 3. What the runs show

| Run | Question | Answer |
|---|---|---|
| `GptRepair` | Is a table ever lost, does a disk stay repairable and in the end repaired, do the proofs' invariant and the refinement of `RedundantTable` hold? | never; yes |
| `SelfHeal` | Do other targets keep their order, are rewrites spaced, do the entry and the fallback copy come back once the machine is left alone? | yes |
| `Hotplug` | Do the proofs' invariant, what the menu is told and `VolumeMenu` hold, does every search end, is a volume that appears offered, the fallback path only alone? | yes, the excused volumes aside (below) |
| `HotplugTwin` | "watches for volumes that appear ... and pops matching entries into the menu" (`boot.conf.example:192-195`) | violated by a second stick with a path of the first |
| `Handover` | Does what runs match what was verified and measured, from the right volumes, raw kernels in place, no loop through `BootNext`, nothing left behind? | yes |
| `BootFlow` | Do overrides and passphrases end with their boot, is the first menu the configured one? | yes |
| `StartUp` | One TPM hang, one boot per one-shot entry, every try paid, no counter file lost? | yes; one more boot for each refused deletion of the one-shot variable, and with one boot of a counted entry per start |
| `StartUpLoss` | "rather than losing either copy" (`efi_file.c:459-461`) | violated when an entry is booted again after another in one session |
| `Menu` | Does what boots agree with what was chosen and shown, does a countdown end? | yes |
| `Browser` | Is the listing right, and the picked file the marked one? | yes |
| `Discovery` | Do both readers agree, does taking out the running image take out nothing else, do snapshots fit? | yes, copies of the loader aside |
| `Recorder` | Is a cleanly closed recording playable, its sound in place? | yes |

`StartUpLoss` is a bug: `bls_decrement` brings `bls_path` up to date but not
`tries_left`, so the second decrement renames the file to the name it has;
`efi_rename_file` truncates and rewrites it and then deletes it. `HotplugTwin` is
a divergence from the documentation: before it searches a volume,
`hp_volume_hosts_entry` (`config_hotplug.c:68-84`) asks whether the file of any
entry exists there, whichever volume the entry is of. `\EFI\BOOT\BOOTX64.EFI` is
on every stick, so once one stick is offered by that path a second one is not
searched at all, whatever else it holds.

The properties are stated with what the code does not promise left out:
`StaysRepairable` for disks with a protective MBR (without one a torn header
write turns a disk the repair accepts into one it calls unsafe);
`CooldownHonoured` for runs without faults (a cut between the BootOrder write
and the stamp write, or a failed stamp write, leaves the cooldown unarmed) and
per image (each has its own stamp file); `FoundOffered` for volumes that come
under a handle the watch does not remember, have no path in common with another
volume's entry when they are looked at, and are not searched while entries of
another are dropped; the last holds of `FallbackAlone` too; `SearchEnds` while
some file system is left; `OnlySelfExcluded` for files that are not copies of the
loader; `RightVolumes` while no file changes;
`MeantBoots` without removals in front of the selection and without additions
in the text menu; `EarlyAgrees` for blocks with braces; `Playable` and
`SoundInPlace` for recordings that were closed without an error, and samples of
idle slots only as far as they are not silence.

### What else the models show

Each of these can be seen by stating the property or changing the constant that
is named.

GPT repair
* The failure card says "The disk was not modified." (`gui_gptwarn.c:281`) also
  after a write that changed it (`FailureMessageTrue`).
* A backup whose array lies among the primary's blocks is accepted and then
  overwritten (`MCOverlappingDisks`), against "The backup GPT is never written."
  (`text_gptcmd.c:194`).
* With a bad block among the primary's own, one failed read of the primary
  header is taken for damage, and a healthy primary is rewritten.
* `gpt repair N` opens the first disk with media id N; ids are not unique.

Self-heal
* An entry for the same path on another disk counts as Visor's own, and the
  missing one is not created (`EntryRecreated`), against "recreate a missing
  Visor Boot#### entry" (`boot.conf.example:126`).
* A power cut inside `efi_write_file` leaves the fallback file cut short, also
  where there is no BootOrder (`FallbackGuards`, `efi_selfheal.c:433-434`).
* A variable that cannot be read or parsed is not marked as used; a new entry
  may take its slot. The lowest free slot may still be listed ahead of others.
  With two entries of Visor's path the last one counts, and `first` does not
  promote when the other one started the machine.

Hot-plug
* A card taken out and put back keeps its handle, so the watch still knows it
  and does not search it again: the run's third excuse, which is against
  `boot.conf.example:192-195` as well as `HotplugTwin` is.
* `hp_scan_step` tells whether a volume had anything by the length of the list.
  When entries of another volume are dropped during the search, the vendor and
  fallback stages may skip a volume that has nothing else, or offer the fallback
  beside what was found (`FoundOffered` and `FallbackAlone` with nobody excused).
* When no file system is left the poll returns before it removes anything; a
  device replugged under its old handle gets no driver; a full `hp_blk_tried`
  makes later devices be connected again.

Hand-over
* The chain-loading of an entry without a path looks at neither `sha256=` nor
  the passphrase. A kernel that was loaded is not unloaded when the keys or the
  initrd fail afterwards. An encrypted initrd whose registration fails is left
  out unless `luks=1`. The raw hand-over does not take the initrd from the
  volume the kernel was found on. Where the kept volume has no device path the
  firmware may be given one of another volume.

Boot flow
* `keep_firmware_screen` survives a fast boot that returned, and the next boot
  from the menu suppresses the console (`ConsoleBack`; the comment at
  `main.c:357-360` says it must not).
* A retried autoboot stopped by the last-chance key ends the session
  (`KeyOpensMenu`): `retry_selected` stays set, so neither is the menu asked nor
  an entry there.
* The comment at `main.c:1256` says a retry keeps the passphrase; it is asked
  again. `append` and then `use N` boots N with the first entry's options. An
  initrd picked in the browser sets no volume.

Start-up
* Entry ids contain the counter, so `LoaderEntryDefault` stops matching after a
  counted boot and `LoaderEntrySelected` may not be in `LoaderEntries`. A power
  cut within a rename leaves a twin that is listed as another deployment.
  `efi_rename_file` takes the first volume with the path.
* `boot.conf.example:227` calls BLS "Always on"; it is read only when
  `boot.conf` lists no entries.

Menu and browser
* Options edited for one entry boot whichever entry is chosen next
  (`EditedBoots`, `gui_run.c:178`), against `boot.conf.example:164-166`.
* Hit boxes are those of the old page while a page slides. A removal during the
  countdown boots another entry (`gui_menu.c:121`). The text menu's rows and
  cursor stay what they were after hot-plug (`text_menu.c:240`). The wheel does
  not stop the countdown. Cycling out of the deployments with V keeps the
  chosen one. Esc and then Enter in the snapshot panel's fade boots the
  snapshot. A wheel step in the browser without a scene cache is not drawn.
* `FB_MAX_READS` is below `FB_MAX_ENTRIES`: a directory of more than 2048
  entries is cut without its mark. The page keys of the text browser are those
  of F1 and F2. An initrd picked earlier on another volume stays.

Configuration and discovery
* "a leftover copy of visor_x64.efi under \EFI\Linux ... does not become a menu
  icon" (`boot.conf.example:199-202`), but it does: `path_is_self`
  (`config_discover.c:485-497`) compares the whole path with the running image's,
  and `is_loader_efi` (`config_discover.c:20-28`) does not know Visor's name. The
  same goes for the same path on another volume. `OnlySelfExcluded` claims nothing of
  such copies; there are two of them in the instance (`copies`).
* A block without a brace ends at a blank line for the parser but goes on for
  the early pass (the comment at `config.c:54-56` says they agree). A theme
  applies every key, also those of blocks, against "themes are UI-only"
  (`boot.conf.example:353-356`). The global `cmdline` reaches only entries
  after it, and derived command lines win, against `boot.conf.example:143-147`.
* An fstab of another disk comes before the GPT's root partition of the
  kernel's own. Recovery entries do not take over `hp_volume` and the
  passphrase options. The "newest 12" snapshots are those of the first 64 (or
  32) names a directory yields. A record of a manifest that names no entry falls
  back to the sole Linux entry. Kernels of one base name in different
  directories share loader options.

Recorder, and the parts around it that were read but not modelled
* A second frame within a slot is dropped, and idle slots repeat the last
  recorded picture, so a still menu after an animation may be recorded as the
  frame before (the comment at `capture_session.c:8-10` calls the recording
  "literally what was on screen").
* The limits are looked at before the idle slots are stored; a gap longer than
  what is left of the index ends the recording without index and sizes, as any
  failed write does, while the log says it saves what there is. A sound that is
  cut before the next frame is lost for the idle slots.
* A marker that cannot be deleted arms every start. The frame interval is
  truncated to whole microseconds.
* `capture_gif.c`: an unchanged frame moves the clock without lengthening the
  frame before it. `efi_log.c`: rotation keeps the last three boots whatever
  their size, empties a log without its marks, and a power cut between delete
  and write loses it.

### Bounds

* GPT: nine blocks, arrays of two blocks, two tables that share a block, two
  media; two faults cover a failed request followed by a power cut, and a cut
  in each of two consecutive sessions. Two blocks are the least array that can
  be half written, two tables the least that can be mixed up.
* Self-heal: three slots (one for Visor, one for another system, one free or
  unparsed), a cooldown of two instead of four, one foreign change and one
  fault. Three slots are enough for a list in which moving to the head differs
  from exchanging with it.
* Hot-plug: the boot partition and two sticks, one with a UKI, two kernels in
  one directory, a vendor's loader and a fallback (every stage either finds
  something or is made to skip), the other with a vendor's loader and a fallback
  of the same paths, so that two volumes meet by path as sticks do; three device
  changes, so that one volume can leave and come back, or one leave while another
  is searched and a third appear; one remembered device instead of 64, so that
  the table is full. The list at the start holds the first stick's UKI and an
  entry of `boot.conf`. `HotplugTwin` needs an empty watch and two sticks plugged.
* Hand-over: three volumes (the boot volume, a second ESP, one that needs a
  driver) with namesakes of different content, one change of the disk, three
  platform boots, so that a hand-off to Windows can fail and be followed by two
  more; addresses up to five, with the 4 GiB limit among them.
* Boot flow: a plain and a locked entry, two hand-overs in a session (a boot
  that returns and one after it), command lines of at most two words.
* Start-up: a counted deployment with two tries beside an older one, three
  starts, two hand-overs each, one refused write; `StartUpLoss` needs three
  hand-overs of one start.
* Menu: an entry with two deployments and two snapshots, a plain one and a
  stick, two to a page, one change of the list, countdown and saver of a few
  ticks; what the setups switch on is different in each, so that every branch
  is met without all of them at once.
* Browser: seven names of which two differ in case and one is too long, four
  entries and five reads at most, one pull.
* Discovery: every `boot.conf` of up to a few lines of the telling kinds, three
  volumes, groups of up to three deployments, two snapshots to an entry, a copy of the
  loader beside it and one on another volume.
* Recorder: twelve ticks and six samples a second, four and five frames a
  second (one divides both, one divides neither), a staging buffer that flushes
  within the header and within chunks, three frames, thirty-six words or ten
  index entries as limits, and a volume that takes twenty words or all.

Deadlock checking is off where the program really stops: `GptRepair` (nothing
left to repair, no fault left), `StartUp`, `Handover`, `BootFlow`, `Menu`,
`StartUpLoss`, `Browser` and `Recorder` (a system has been started, the fault is spent,
or the menu has returned).

### Fairness

The code has no scheduler; inside `gpt_execute_plan` and the self-heal pass it
always goes on unless the power is cut, hence weak fairness of `Execute`, of
`Pass` and of `HandOver`. Nobody is obliged to start the machine or to answer a
dialogue: those stay premises of the properties ("if the image keeps being
started"). The menu's loop calls the poll every 1.2 s as long as it is up: weak
fairness of `Poll`. A key that is waiting at every look would pause a walk for
ever; that no user presses keys without end is strong fairness of the search
steps that make progress. In `Menu` the loop goes round and time passes: weak
fairness of `Pass` and of `Tick`; no key, pointer or hot-plug event is assumed.

## 4. What is proved

All theorems hold for every value of the constants under the named
assumptions of the modules (sizes are natural numbers, the constant sets have
the types their comments say, placeholders are not ordinary values).

**GPT repair.** The invariant `IInv` of `GptRepairSafe` is inductive: typing;
`BackupPlaced` (a valid backup's array is clear of the primary blocks);
`CacheScope` (outside a write only primary blocks of the target are cached);
`PlanSound` (during the writes the target still holds the backup the plan was
built from); `CommitOrder` (once the header may be written the entries are on
the platter); `Settled` (success means both copies healthy). From it follow
`OrderedCommit`, `SuccessIsDurable`, `TargetOnly`, `BackupNeverWritten`,
`AlwaysRecoverable` and the refinement of `RedundantTable`, and `NeverStranded`
(`StaysRepairable`): a disk the repair accepts has a valid backup, which
`BackupPlaced` and `SourceKept` carry over every step, and its protective MBR is
in block 0, which no step writes. The proofs rest on
`BackupBehindPartitions`: no disk keeps the backup's array in the blocks of the
primary copy. The code does not check that, and `MCOverlappingDisks` shows what
happens without it. `AlwaysRecoverable` needs the invariant because recovery
after a cut depends on what the backup looked like when the plan was made.

**Self-heal.** `IInv` of `SelfHeal` adds to typing: the slot stays Visor's own
until BootOrder is written, the stamp covers what is owed while nothing fails,
and a part of the pass runs only if policy and medium allow it. From it follow
`RewriteIsOurs`, `OthersKeepTheirPlace`, `AppendsOnly`, `OtherEntriesKept`,
`CooldownHonoured` and `NothingWritten`. The lemmas on lists (`ToHeadOthers`,
`AppendOthers`, `ReplanSound`) show for lists of any length that
`nvsh_replan_order` keeps the other slots and their order.

**Hot-plug.** `IInv` of `Hotplug` is the conjunction of typing,
`ShownWerePresent`, `ShownAreKnown`, `NothingTwice`, `TaggedRight` and
`SearchInv`. The last one is the strengthening: what a search has shown of its
volume lies behind its place (stage and position in the directory), so what it
shows next is new (`FoundSound`); and its volume was in the last list and is
not picked again, so no two searches show the same files. `WithoutOne` and
`FoundOne` say for lists of any length what unlinking and appending do.
`RefinesVolumeMenu` maps every step to a step of `VolumeMenu` or a stutter; a
search begins with nothing shown because `hp_scan_begin` refuses a volume that
has entries. The proofs assume that two stages never find the same file, which
holds because they look in different directories or for different names.

`ReportIsRight` (`ReportTells`) needs to know, in the middle of a poll, where
each old entry has gone: `ReportInv` says that the first entries of the list are
those of `was` that are still shown, in their order (`Embeds`, an order-preserving
function into the old list that misses only withdrawn ones), and where the first
gap is. `Counted` turns that into the rank by which `PlaceOf` finds an entry.
`FallbackStandsAlone` (`FallbackAlone`) holds whatever is plugged, pulled, ejected
and put back, for volumes that are not excused: `hp_scan_step` compares the length
of the list with what it was when the search began, so the argument is that, as
long as nothing was dropped during a search, what the list has gained since is
what was found on the volume. It assumes that the fallback path is one file
(`OneFallback`) and that the list given at the start has the property
(`StartAlone`).

**Hand-over.** `IInv` has a part for each question. `VerifiedInv`: which checks
an image has passed at each step, so that nothing unverified is left to start.
`CompleteInv`: what was measured and what is offered once the initrd is there.
`CleanInv`: which buffers, pages and protocols exist at which step; from it
`CleanReturn`. `PlacedInv`: where `linux_alloc_raw_image` put the kernel.
`VolumesInv`: while no file changes, the volume the kernel came from is kept up
to the start and has the kernel's file, so every later search on it finds the
same one. `HandoffInv`: a mark left by a hand-off to Windows that did not start
is one boot old until Visor loads something itself; from it the action property
`NoHandoffLoop`. The lemmas about `EntryFiles` say what the searches return for any
number of volumes; the key one, that the device a probe stops at is the first
one that serves, takes the least counterexample by `WFMin`. `SetupAssumption`
says what the proof of `RawPlaced` needs of the numbers: of the alignment the
kernel asks for and the least it accepts one divides the other, as
`linux_alloc_raw_image` takes powers of two only.

**Boot flow.** `EditsInv` ties the three copies together: between boots the
entries are those of `boot.conf` and `pending` is what the user typed; during a
boot the entry is the one of `boot.conf` with the typed fields in it, `saved` is
what they replaced, and `pending` is empty. `AutobootInv` says that a boot by
itself comes before any edit, which is why a failed one may restore without
losing an edit. `SecretInv` adds that only a path overrides a kernel.
`MenuInv` follows the cursor up to the first hand-over. `FieldsAssumption` keeps
`Unset`, the model's mark for "not overridden", apart from values.

**Start-up.** `ProbeInv`: the probe runs behind the marker "probing" only, and
a start that hung leaves a marker that keeps later starts out until the user
clears it (`SpecOneHang`). `CountInv` counts a request for one boot where it is:
in the variable, in the memory of a start, or obeyed. `SpecOneShotOnce` bounds
the sum by the requests and the refused deletions, for any number of starts,
power cuts and refusals.

The boot counters need to know what the directories look like at every moment
(`Base`, proved by `SpecBase`): a path names one file of a directory, every
deployment in memory comes from a file the scan found, and the rename under way
is that of the entry being booted. `Records` and `Groups` are recursive
functions; what they return is shown for directories of any length by induction
over the natural numbers, in the form `NatSet` (a set with 0 and the successor
of each of its numbers has them all), which follows from `WFMin`.

`SpecKeptOnDisk` rests on `KeptInv`. Among the copies of a file the one with
most tries left is complete (`WholeInv`): a rename always copies to one try
less, so an unfinished or empty copy is never that one, and the old file goes
only when its copy is written. That the new name is a different one follows from
`TallyInv` (left and done add up to what they were at first) and from `UseInv`:
a counter in memory is that of the path until its entry is counted. The theorem
assumes `MaxBoots <= 2`, because with a third hand-over `UseInv`, and the
property with it, are false (`StartUpLoss` is exactly this behaviour), and
`OneFileEach`, one file to a base in a directory, because a twin left by an
earlier cut may be the name that is written next.

`SpecTriesPaid` rests on `SpentInv`: the tries left and the hand-overs made add
up to no more than the tries given (`Owes`) for the file on disk (`PaidInv`),
for the counter in memory, which lags behind after the first hand-over
(`MemPaid`), and, when that hand-over is next, for the file already renamed
(`BootPaid`). While a copy is made there are two files and otherwise one
(`SingleInv`, `PairInv`); a deployment whose rename did not complete is out of
the count, as in the property. It assumes `OneFilePerBase`, a base names one
file on all volumes, because `efi_rename_file` takes the first volume that has
the path, which may be another entry's file.

**Menu.** `ScreenInv`: while the loop runs, a picture that is out of date is
marked so; `SnapInv`: a snapshot's overrides come with the key that ends the
menu and are the chosen entry's; `MeantInv` and `TextInv`: where the selection
and the text cursor are relative to what the user meant; `ListInv`: no entry is
listed twice, so a removal is noticed. They hold for lists and pages of any
length. `MenuAssumption` types the machine's settings and says that a start list
names no entry twice.

**Browser.** The sort is shown right for a directory of any length. `Lefts`
never reads past either run, and what has been taken goes before what has not
(`TakenFirst`, `MergeOrder`); a pass turns sorted runs of width w into sorted runs of
twice the width, the last of which may be short (`InRuns`, `PairMerged`,
`WidthPass`); after as many passes as there are rows the width is no less than their
number (`SortedIs`). `Goes` is a strict total order of the places of a directory
(`GoesOrder`), so the place of a name is one more than the number of names before
it (`PlaceIs`). The invariant of the state has three parts beside the property:
`Shape`, the types; `Listings`, the rows are sorted and all of the directory that
path and volume name; `Shown`, unless a drawing is due or the wheel moved unseen,
the screen names that place and marks the row under the cursor. The lemma
`InWindow` says that the window drawn holds that row, for any height.
`SetupsAssumption` types the machine (a window has a row, every volume has a tree);
`NoneAssumption` keeps `None` apart from entries.

**Recorder.** The argument goes up the layers of the code. *The file*: its text is
what has been flushed with what is staged behind it (`Text`); `Write` appends to
the text through any number of flushes (`WriteIs`), a flush leaves it alone
(`FlushIs`), and a patch changes one word of it although part of it may still be
staged (`WriteAtIs`: `cap_file_write_at` flushes first and comes back to the
end). *The container*: a text is `Framed` by an index if its chunks touch, each
with the tag, the size and the place its entry says; a chunk of either kind
keeps it so (`FramedGrows`), and closing writes the index and the six fields and
nothing else (`ClosedIs`), so what is read back from the disk is what was written
(`ReadIs`). The entries of a kind and the sound behind them are recursive
functions of the index; what a new chunk adds to them is `KindAppend` and
`TrackAppend`. *The slots*: a slot's sound has the length the next one begins at
(`EdgesRise`, `SlotSounds`), and each of its samples is silence or the sample
the tap had at that moment. That the place in the track and the moment it was
heard differ by no more than `Slack` is `Apart`: the errors of all the divisions
added up, for any rates of samples, frames and ticks.

The inductive invariant has two parts. `Played` ties the tap of the controller to
the sound that is heard: the tap is set only for the sound that plays, and starts
with it. `Taken` says of a session in progress that its recording `Holds` as many
pictures as slots, sound up to the edge of the next slot, every sample in place
and every slot that was encoded while the sound played whole; of one that
was closed clean that the disk has such a recording (`Final`); and that no slot
lies in the future (`Late`), without which sound that begins later could fall
into a slot already stored as silence. An idle slot is stored later than its
time, so that the sound may have ended in between; `HoldsOn` is the proof that this
takes nothing from what has been stored. The proof corrected the property: the slack had been stated with
`Second \div Rate` for one sample, which is too little when a tick rate is no
multiple of the sample rate; `SampleTicks` rounds up. In the instance the run
checks the two are equal. `RecorderAssumption` says that the rates are positive,
that a frame lasts at least one sample and one tick, and types the rest;
in the code a tick is a microsecond, `HDA_SAMPLE_RATE` is 48000 and the frame
rate is clamped to `REC_FPS_MIN`..`REC_FPS_MAX`.

**Settings and Discovery.** A key is followed by a table of a hundred cases over
a record with as many fields; the proofs follow only the fields they need
(`Watched`): each table leaves them alone but the first (`LookApart`, `MenuApart`
and so on), so `AppliedIs` says what any key does to them. What `Folded` does is
stated once for each loop (`EarlySteps`, `ParseSteps`, `ScanSteps` and so on: the
value after a step is the step taken on the value before), and a property of a
fold is then an induction over the places of the list, for which `NatSet` is the
principle, stated of a set and proved from well-foundedness. A selection from a
list is the list at a set of its places (`Kept`), and what holds of a list in
pieces holds of the whole (`FlatIs`, `KeptConcat`).

*The two readers.* `AgreeLine`: if both passes agree before a line, on the two
switches and on whether they are in a block, they agree after it, unless the
line opens a block without a brace; so they agree after any file
(`PassesAgree`). The invariant `AfterEarly` says what the early pass left until
the parser has run.

*The running loader taken out.* The invariant `EntriesWhole` types the settings
and says that an entry is single, or a group that boots its default with the
options it would have had alone (`Whole`). That the search makes only such
entries goes stage by stage (`GroupsWhole`, `UkisWhole`, `WindowsWhole`,
`DerivedIs`, `RawKernelsWhole`, `VendorsWhole`, `FoundWhole`). `MovedIs` follows
the default of a group past the deployments that go, `RemainingIs` what is left
of an entry, `ExcludeOn` the list with its default; `ExcludesSelfOnly` says for one
step that nothing at all but the running image goes, copies of the loader included,
and `KeepsCopies` that the property, which is silent about copies, follows.

*Snapshots.* For a manifest: a record is attached to a Linux entry, and to the one
it names if just one has that name (`MatchIs`), through any number of lines
(`ManifestIs`). For a search: a command line built for a subvolume mounts that
one and keeps every other flag and word (`BuildIs`); the sort leaves its names
falling and distinct (`SortedIs`); a directory adds newer before older and stays
within the limit (`ScanDirIs`); the directories of one volume are
different (`AttemptsApart`), and a volume that made anything is the last
(`AutodetectedIs`). `SpecEarlyAgrees`, `SpecOnlySelfExcluded` and
`SpecSnapshotsFit` hold for files, manifests, groups and directories of any
length. `DiscoveryAssumption` types the constants; `TextAssumption` says that a
value has leading digits and a command line of words; `InputsAssumption` types
what a machine holds, and says that a group has a deployment and that a
directory has no name twice. The last matters: a Snapper directory with both
`7` and `07` would be read as snapshot 7 twice.

The parts of each new invariant were checked with TLC under the bounds of the
component's run before they were proved, except two of `Browser`'s that TLC cannot
enumerate: that the browser's state is well typed (`Shape`), and that a permutation
behind a sorted listing exists (in `Listings`), whose effect `ListingRight` checks.

### What is only model-checked

* All liveness properties (`RepairsConverge`, `EntryComesBack`,
  `FallbackComesBack`, `SearchEnds`, `FoundOffered`, `UnattendedBoots`): liveness is
  out of the proof system's reach.
* `KeptOnDisk` and `TriesPaid` outside the assumptions of their theorems.

Every safety invariant that a passing run checks is stated by a theorem.

`OrderedCommit`, `SuccessIsDurable`, `TargetOnly`, `BackupNeverWritten`,
`RewriteIsOurs`, `AppendsOnly`, `OtherEntriesKept`, `NothingWritten`,
`ShownWerePresent` and `NothingTwice` are proved and no longer checked by a run
of their own, the first two and the last two as parts or consequences of an
`IInv` that a run checks.

## 5. Plan

1. Compositions: `Menu` with `Hotplug` instead of with what `VolumeMenu`
   promises; `BootFlow` with `StartUp`, so that the second boot of a counted
   entry is a behaviour of the whole session.
2. Smaller state machines: the log with its rotation, the background
   animation's frame clock, the controller's stream.

## 6. Not modelled

Pixel, audio and video codecs, fonts, drawing and start-up code hold no state a
property could tell apart at this level; hashes and ciphers are functions whose
arithmetic is far beyond bounded checking. The log (`efi_log.c`) is written
beside everything else and read by nothing; the installer and the snapshot
scripts run under another system and share only files with the boot manager.
The registers of the sound controller, the GIF recorder behind F10 and the PNG
of a screenshot are left out; so are allocation failures except where a model
names them, the truncation of long command lines, and ARM, which has no raw
hand-over.
