------------------------------ MODULE BootFlow ------------------------------
(* efi_main of main.c from the finished configuration to the hand-over, and  *)
(* back: the display mode, autoboot and the key that stops it, the menu, the *)
(* one-shot overrides that are put into the selected entry, its passphrase,  *)
(* a boot that returns, and the recovery shell of text_recovery.c.           *)
EXTENDS Naturals, Sequences, Functions, SequencesExt

CONSTANTS
    Configs,     \* boot.conf and the machine (records, see Config)
    EntryOf,     \* an entry -> [cmdline, kernel, initrd, uuid, volume]
    Locked,      \* the entries that need a passphrase
    Paths,       \* paths the user may type or browse to
    Volumes,     \* the volumes of the file browser
    UuidOf,      \* a volume -> its partition's uuid, or Unset without one
    Snapshots,   \* an entry -> its snapshots: [cmdline, kernel, initrd]
    MoreWords,   \* words `append' adds
    None,        \* no entry, path, passphrase
    Unset,       \* no override
    MaxWords,    \* bound: words of a command line
    MaxBoots     \* bound: hand-overs in a session

Names == DOMAIN EntryOf
Fields == {"cmdline", "kernel", "initrd", "uuid", "volume"}
NoEdits == [f \in Fields |-> Unset]

Config == [list : Seq(Names), textMenu : BOOLEAN, gop : BOOLEAN, autoboot : BOOLEAN,
           splash : BOOLEAN, intro : BOOLEAN, introBoot : BOOLEAN, timeout : Nat,
           quiet : BOOLEAN, rememberLast : BOOLEAN, default : Nat, pick : Nat \cup {None}]

ASSUME EntriesAssumption ==
    /\ Configs \subseteq Config
    /\ None \notin Names /\ Locked \subseteq Names

(* Every field of an entry has a value (None, where boot.conf gives none),   *)
(* and only a path overrides a kernel.                                       *)
ASSUME FieldsAssumption ==
    /\ EntryOf = [e \in Names |-> [f \in Fields |-> EntryOf[e][f]]]
    /\ \A e \in Names, f \in Fields : EntryOf[e][f] # Unset
    /\ None # Unset /\ None \notin Paths /\ Unset \notin Paths
    /\ \A e \in Names : \A s \in Snapshots[e] : s.kernel # None

VARIABLES
    config,
    pc,
    screen,      \* text_mode, gui_started, gui_closed, keep_firmware_screen,
                 \* splash_shown, splash_covered
    entries,     \* the boot_entry_t's
    secret,      \* decrypt_password of each
    last,        \* VisorLastEntry
    cursor,      \* gui.selected, from 1
    pending,     \* gui.override_*
    selected, saved,  \* selected and the saved_* of its overridden fields
    force, autobooted, retry, introSeen,
    counted,     \* bls_decremented
    key,         \* the autoboot key is in the keyboard's queue
    boots,       \* hand-overs so far
    typed,       \* history: what the user changed for the next boot
    visited      \* history: "menu" and "rescue", once the user has been there

vars == <<config, pc, screen, entries, secret, last, cursor, pending, selected, saved,
          force, autobooted, retry, introSeen, counted, key, boots, typed, visited>>
flags == <<force, autobooted, retry, introSeen, counted>>
edits == <<pending, typed>>
given == <<config, last, counted, boots>>

EntryAt(n) == IF n \in DOMAIN config.list THEN config.list[n] ELSE None
IndexOf(e) == CHOOSE n \in DOMAIN config.list : config.list[n] = e
Wipe(e) == IF e = None THEN secret ELSE [secret EXCEPT ![e] = None]

(* main_apply_gui_config: a one-shot or persistent pick of the loader        *)
(* variables, else the entry of the last boot, else default=.                *)
Preselected ==
    LET default == IF config.pick # None THEN config.pick ELSE config.default
    IN  IF config.rememberLast /\ config.pick = None /\ last \in Range(config.list)
        THEN IndexOf(last)
        ELSE IF default \in DOMAIN config.list THEN default ELSE 1

Fast == config.autoboot /\ config.list # <<>>

(* The mode the session starts in.  Without a menu or a splash to draw the   *)
(* firmware's screen stays.                                                  *)
FirstScreen ==
    LET draws == ~config.textMenu /\ (~Fast \/ config.splash)
        gui == draws /\ config.gop
    IN  [text |-> ~gui, started |-> gui, closed |-> FALSE,
         keep |-> ~draws /\ ~config.textMenu,
         splash |-> gui /\ Fast /\ config.splash, covered |-> FALSE]

Init ==
    /\ config \in Configs
    /\ last \in Names \cup {None}
    /\ pc = "select" /\ screen = FirstScreen
    /\ entries = EntryOf /\ secret = [e \in Names |-> None]
    /\ cursor = Preselected /\ pending = NoEdits
    /\ selected = None /\ saved = NoEdits
    /\ force = FALSE /\ autobooted = FALSE /\ retry = FALSE /\ introSeen = FALSE
    /\ counted = None /\ key = FALSE /\ boots = 0
    /\ typed = NoEdits /\ visited = {}

(* main_gui_ensure: the menu the user asked for, in the configured mode.     *)
Ensured(s) ==
    LET t == [s EXCEPT !.keep = FALSE]
    IN  IF config.textMenu THEN [t EXCEPT !.text = TRUE]
        ELSE IF s.started THEN t
        ELSE [t EXCEPT !.text = ~config.gop, !.started = config.gop]
(* Faulty: gui_init has zeroed selected and it is not set again.             *)
EnsuredCursorReset ==
    IF ~screen.started /\ ~config.textMenu /\ config.gop THEN 1 ELSE cursor
EnsuredCursor ==
    IF ~screen.started /\ ~config.textMenu /\ config.gop THEN Preselected ELSE cursor

PressKey ==
    /\ ~key /\ pc \in {"select", "last"}
    /\ key' = TRUE
    /\ UNCHANGED <<config, pc, screen, entries, secret, last, cursor, edits, selected,
                   saved, flags, boots, visited>>

-----------------------------------------------------------------------------
(* select_entry.                                                             *)
IntroPlays ==
    /\ ~introSeen /\ ~retry /\ ~screen.text /\ ~screen.closed
    /\ config.intro /\ ~config.autoboot /\ config.timeout # 0

(* An intro that ran out may boot at once; a key has cancelled it.           *)
Select(finished) ==
    /\ pc = "select"
    /\ finished => IntroPlays
    /\ introSeen' = (introSeen \/ IntroPlays)
    /\ LET asks == ~force /\ (config.autoboot \/ (finished /\ config.introBoot))
                   /\ config.list # <<>>
           go == asks /\ ~key
       IN  /\ autobooted' = go
           /\ selected' = IF go THEN EntryAt(IF Len(config.list) = 1 THEN 1 ELSE cursor)
                          ELSE None
           /\ key' = FALSE
           /\ screen' = IF asks /\ key THEN Ensured(screen) ELSE screen
           /\ cursor' = IF asks /\ key THEN EnsuredCursor ELSE cursor
           /\ pc' = IF ~go /\ ~retry THEN "menu" ELSE "chosen"
    /\ UNCHANGED <<given, entries, secret, edits, saved, force, retry, visited>>

(* What the user changes for the next boot: values for some of the fields.   *)
(* The graphical menu offers an edited command line, a snapshot, and with    *)
(* the file browser an initrd, or a kernel with its volume, its partition    *)
(* and an initrd that lies beside it.                                        *)
Changed(edit, over) == [f \in Fields |-> IF f \in DOMAIN edit THEN edit[f] ELSE over[f]]
Apply(edit) == pending' = Changed(edit, pending) /\ typed' = Changed(edit, typed)
OfSnapshot(s) == [cmdline |-> s.cmdline, kernel |-> s.kernel, initrd |-> s.initrd]
BrowsedInitrd(p) == [initrd |-> p]
BrowsedKernels ==
    LET at(p, v) == [kernel |-> p, uuid |-> UuidOf[v], volume |-> v]
    IN  {at(p, v) : p \in Paths, v \in Volumes}
        \cup {[initrd |-> q, kernel |-> p, uuid |-> UuidOf[v], volume |-> v] :
                 p, q \in Paths, v \in Volumes}

MenuEdit ==
    /\ pc = "menu" /\ ~screen.text /\ ~screen.closed
    /\ \/ EntryAt(cursor) # None /\ \E w \in MoreWords : Apply([cmdline |-> <<w>>])
       \/ \E p \in Paths : Apply(BrowsedInitrd(p))
    /\ UNCHANGED <<given, pc, screen, entries, secret, cursor, selected, saved, force,
                   autobooted, retry, introSeen, key, visited>>

LeaveMenu == force' = FALSE /\ visited' = visited \cup {"menu"}

(* The menu ends with an entry, at the cursor or a number key, ...           *)
MenuBoots(n) ==
    /\ pc = "menu"
    /\ EntryAt(n) # None
    /\ LeaveMenu /\ pc' = "chosen"
    /\ cursor' = n /\ selected' = EntryAt(n)
    /\ screen' = [screen EXCEPT !.splash = FALSE]
    /\ \/ UNCHANGED edits
       \/ ~screen.text /\ ~screen.closed /\
          \/ \E s \in Snapshots[EntryAt(n)] : Apply(OfSnapshot(s))
          \/ \E edit \in BrowsedKernels : Apply(edit)
    /\ UNCHANGED <<given, entries, secret, saved, autobooted, retry, introSeen, key>>

(* ... with the rescue console, with a power action, or with nothing to boot. *)
MenuRescue ==
    /\ pc = "menu"
    /\ LeaveMenu /\ pc' = "rescue"
    /\ screen' = [screen EXCEPT !.splash = FALSE, !.text = TRUE,
                     !.closed = @ \/ ~screen.text]
    /\ UNCHANGED <<given, entries, secret, cursor, edits, selected, saved, autobooted,
                   retry, introSeen, key>>

MenuEnds ==
    /\ pc = "menu"
    /\ LeaveMenu /\ pc' = "ended"
    /\ UNCHANGED <<given, screen, entries, secret, cursor, edits, selected, saved,
                   autobooted, retry, introSeen, key>>

-----------------------------------------------------------------------------
(* boot_selected.                                                            *)
Taken(e, over) == [f \in Fields |-> IF over[f] = Unset THEN Unset ELSE entries[e][f]]
Overridden(e, over) ==
    [f \in Fields |-> IF over[f] = Unset THEN entries[e][f] ELSE over[f]]

BootSelected(e, over) ==
    /\ saved' = Taken(e, over)
    /\ entries' = [entries EXCEPT ![e] = Overridden(e, over)]
    /\ pending' = NoEdits
    /\ pc' = IF e \in Locked THEN "password" ELSE "last"

(* Autoboot and the menu give an entry; a retry that the last-chance key     *)
(* stopped does not, and the session ends.                                   *)
Chosen ==
    /\ pc = "chosen"
    /\ retry' = FALSE
    /\ IF selected = None
       THEN pc' = "ended" /\ UNCHANGED <<entries, saved, pending>>
       ELSE BootSelected(selected, pending)
    /\ UNCHANGED <<given, screen, secret, cursor, typed, selected, force, autobooted,
                   introSeen, key, visited>>

Prompted == IF screen.text \/ screen.closed THEN [screen EXCEPT !.keep = FALSE]
            ELSE [screen EXCEPT !.covered = TRUE]
(* Faulty: the partition override stays in the entry.                        *)
RestoredButUuid(e) ==
    [entries EXCEPT ![e] = [f \in Fields |->
        IF saved[f] = Unset \/ f = "uuid" THEN @[f] ELSE saved[f]]]

Restored(e) ==
    [entries EXCEPT ![e] = [f \in Fields |-> IF saved[f] = Unset THEN @[f] ELSE saved[f]]]

(* The prompt takes every key; an old passphrase is wiped before it.         *)
Password(p) ==
    /\ pc = "password"
    /\ secret' = [secret EXCEPT ![selected] = p] /\ pc' = "last"
    /\ screen' = Prompted /\ key' = FALSE
    /\ UNCHANGED <<given, entries, cursor, edits, selected, saved, flags, visited>>

(* Cancelled, or no usable passphrase after three attempts: back to the      *)
(* firmware.                                                                 *)
PasswordFails ==
    /\ pc = "password"
    /\ secret' = Wipe(selected)
    /\ entries' = [entries EXCEPT ![selected] =
                     [f \in Fields |-> IF saved[f] = Unset \/ f \in {"uuid", "volume"}
                                       THEN @[f] ELSE saved[f]]]
    /\ pc' = "ended"
    /\ UNCHANGED <<given, screen, cursor, edits, selected, saved, force,
                   autobooted, retry, introSeen, key, visited>>

(* The autoboot key during the boot: the menu after all.                     *)
(* Faulty: the passphrase just typed stays in the entry.                     *)
LastChanceKeepsSecret ==
    /\ pc = "last" /\ ~screen.closed /\ autobooted /\ key
    /\ screen' = [Ensured(screen) EXCEPT !.splash = FALSE]
    /\ cursor' = EnsuredCursor
    /\ force' = TRUE /\ autobooted' = FALSE /\ key' = FALSE
    /\ pc' = "select"
    /\ UNCHANGED <<given, secret, entries, edits, selected, saved, retry, introSeen, visited>>

LastChance ==
    /\ pc = "last" /\ ~screen.closed /\ autobooted /\ key
    /\ screen' = [Ensured(screen) EXCEPT !.splash = FALSE]
    /\ cursor' = EnsuredCursor
    /\ force' = TRUE /\ autobooted' = FALSE /\ key' = FALSE
    /\ secret' = Wipe(selected)
    /\ pc' = "select"
    /\ UNCHANGED <<given, entries, edits, selected, saved, retry, introSeen, visited>>

(* The screen as the kernel finds it: the menu faded out and shut down, the  *)
(* splash (repainted if a prompt covered it), or the firmware's own.         *)
HandedScreen ==
    LET s == IF ~screen.text /\ ~screen.closed /\ ~screen.splash
             THEN [screen EXCEPT !.closed = TRUE, !.text = TRUE] ELSE screen
    IN  [s EXCEPT !.closed = @ \/ s.splash \/ s.keep,
                  !.covered = @ /\ (s.closed \/ ~s.splash)]
Silent == config.quiet \/ screen.splash \/ screen.keep

(* Handed over: the try is counted, the entry remembered, visor_boot called. *)
HandOver ==
    /\ pc = "last" /\ ~(~screen.closed /\ autobooted /\ key)
    /\ boots < MaxBoots
    /\ screen' = HandedScreen
    /\ counted' = selected
    /\ last' = IF config.rememberLast THEN selected ELSE last
    /\ boots' = boots + 1
    /\ key' = IF ~screen.closed /\ autobooted THEN FALSE ELSE key
    /\ pc' = "running"
    /\ UNCHANGED <<config, entries, secret, cursor, edits, selected, saved, force,
                   autobooted, retry, introSeen, visited>>

(* visor_boot returns: it has wiped the passphrase of an entry with a path;  *)
(* the overrides are taken out of the entry again.                           *)
BootReturns ==
    /\ pc = "running"
    /\ secret' = IF entries[selected].kernel = None THEN secret ELSE Wipe(selected)
    /\ entries' = Restored(selected)
    /\ saved' = NoEdits /\ typed' = NoEdits
    /\ cursor' = IndexOf(selected)
    /\ pc' = "recovery" /\ key' = FALSE
    /\ UNCHANGED <<given, screen, pending, selected, flags, visited>>

-----------------------------------------------------------------------------
(* The shell.  Its selected entry is the one at gui.selected: text_recovery_ *)
(* run moves the cursor to the entry that failed.                            *)
InShell == pc \in {"rescue", "recovery"}
ShellEntry == EntryAt(cursor)

Use(n) ==
    /\ InShell /\ EntryAt(n) # None
    /\ cursor' = n
    /\ UNCHANGED <<given, pc, screen, entries, secret, edits, selected, saved, force,
                   autobooted, retry, introSeen, key, visited>>

EffectiveCmdline ==
    IF pending.cmdline # Unset THEN pending.cmdline
    ELSE IF ShellEntry = None THEN <<>> ELSE entries[ShellEntry].cmdline

(* set, append, rescue and single, unset, browse.                            *)
SetFields ==
    {[cmdline |-> <<w>>] : w \in MoreWords}
    \cup {[kernel |-> p] : p \in Paths} \cup {[initrd |-> p] : p \in Paths \cup {None}}
AppendWords ==
    {[cmdline |-> EffectiveCmdline \o <<w>>] :
        w \in {x \in MoreWords : Len(EffectiveCmdline) < MaxWords}}
UnsetFields == {[f \in {g} |-> Unset] : g \in {"cmdline", "kernel", "initrd"}}
Commands == SetFields \cup AppendWords \cup UnsetFields
            \cup {BrowsedInitrd(p) : p \in Paths}

Command(edit) ==
    /\ InShell
    /\ Apply(edit)
    /\ UNCHANGED <<given, pc, screen, entries, secret, cursor, selected, saved, force,
                   autobooted, retry, introSeen, key, visited>>

(* boot, retry, or a kernel picked in the browser: the entry at the cursor;  *)
(* in the rescue console without any entry the menu again.                   *)
Retry(edit) ==
    /\ InShell
    /\ edit \in {NoEdits} \cup BrowsedKernels
    /\ LET change == [f \in {g \in DOMAIN edit : edit # NoEdits} |-> edit[f]]
           over == Changed(change, pending)
           pick == IF ShellEntry # None THEN ShellEntry
                   ELSE IF pc = "recovery" THEN selected ELSE None
       IN  /\ typed' = Changed(change, typed)
           /\ IF pick # None
              THEN selected' = pick /\ retry' = TRUE /\ BootSelected(pick, over)
                   /\ UNCHANGED force
              ELSE pending' = over /\ force' = TRUE /\ pc' = "select"
                   /\ UNCHANGED <<selected, retry, entries, saved>>
    /\ visited' = visited \cup {"rescue"}
    /\ UNCHANGED <<given, screen, secret, cursor, autobooted, introSeen, key>>

(* menu, or Esc; a retry without an entry goes there too.                    *)
BackToMenu ==
    /\ InShell
    /\ force' = TRUE /\ pc' = "select"
    /\ retry' = IF pc = "recovery" THEN FALSE ELSE retry
    /\ secret' = IF pc = "recovery" THEN Wipe(selected) ELSE secret
    /\ visited' = visited \cup {"rescue"}
    /\ UNCHANGED <<given, screen, entries, cursor, edits, selected, saved, autobooted,
                   introSeen, key>>

ShellEnds ==
    /\ InShell
    /\ pc' = "ended"
    /\ UNCHANGED <<given, screen, entries, secret, cursor, edits, selected, saved, flags,
                   key, visited>>

Next ==
    \/ PressKey \/ Chosen \/ PasswordFails \/ LastChance \/ HandOver \/ BootReturns
    \/ \E finished \in BOOLEAN : Select(finished)
    \/ MenuEdit
    \/ \E n \in DOMAIN config.list : MenuBoots(n) \/ Use(n)
    \/ MenuRescue \/ MenuEnds
    \/ \E p \in {"passphrase"} : Password(p)
    \/ \E edit \in Commands : Command(edit)
    \/ BackToMenu \/ ShellEnds
    \/ \E edit \in {NoEdits} \cup BrowsedKernels : Retry(edit)

Spec == Init /\ [][Next]_vars

-----------------------------------------------------------------------------
(* "one-shot, not saved": wherever the user can act again, every entry is as *)
(* boot.conf made it, and a boot gets exactly what was changed for it since  *)
(* the last one, whichever way it was reached: menu, retry, another entry.   *)
OneShotEdits ==
    /\ pc \in {"menu", "rescue", "recovery"} => entries = EntryOf
    /\ pc = "running" =>
         /\ entries[selected] = [f \in Fields |->
                IF typed[f] = Unset THEN EntryOf[selected][f] ELSE typed[f]]
         /\ \A e \in Names \ {selected} : entries[e] = EntryOf[e]

(* A passphrase is held for the entry that is being booted and no longer:    *)
(* not in the menu, not for another entry, not after a refused prompt.       *)
OnlyItsSecret ==
    \A e \in Names : EntryOf[e].kernel # None /\ secret[e] # None =>
        /\ e = selected
        /\ pc \in {"last", "running"}

(* The first menu, however late it is asked for, is the one configured:      *)
(* graphical where that works, on the one-shot, remembered or default entry. *)
FirstMenu ==
    pc = "menu" /\ boots = 0 /\ "rescue" \notin visited =>
        /\ config.list # <<>> => cursor = Preselected
        /\ config.gop /\ ~config.textMenu =>
             screen.started /\ ~screen.text /\ ~screen.closed

(* main.c:357-360: nothing suppresses the console after a menu but quiet=1.  *)
ConsoleBack ==
    pc = "running" /\ "menu" \in visited /\ ~config.quiet => ~Silent

(* "autoboot key pressed during boot - opening the menu" (main.c:1115): a    *)
(* menu that is forced is shown before the session ends.                     *)
KeyOpensMenu == force => pc # "ended"
=============================================================================
