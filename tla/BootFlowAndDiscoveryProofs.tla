--------------------- MODULE BootFlowAndDiscoveryProofs ---------------------
(* What a session keeps, for any entries, any boot.conf, any edits and any   *)
(* number of boots that return: the proofs about BootFlow.  Then how its     *)
(* entries come to be, for any boot.conf, theme, manifest and volumes: the   *)
(* proofs about Discovery.                                                   *)
EXTENDS BootFlow, Discovery, SequenceTheorems, FiniteSetTheorems, WellFoundedInduction, TLAPS


-----------------------------------------------------------------------------
(* The inductive invariant.                                                  *)
Booting == pc \in {"password", "last", "running"}

Typing ==
    /\ config \in Config
    /\ screen \in [text : BOOLEAN, started : BOOLEAN, closed : BOOLEAN,
                   keep : BOOLEAN, splash : BOOLEAN, covered : BOOLEAN]
    /\ DOMAIN pending = Fields /\ pending = [f \in Fields |-> pending[f]]
    /\ DOMAIN typed = Fields /\ typed = [f \in Fields |-> typed[f]]
    /\ DOMAIN secret = Names /\ secret = [e \in Names |-> secret[e]]
    /\ selected \in Names \cup {None}
    /\ Booting \/ pc = "recovery" => selected \in Names
    /\ force \in BOOLEAN /\ autobooted \in BOOLEAN /\ retry \in BOOLEAN
    /\ boots \in Nat

(* An entry as boot.conf made it, with what is overridden for one boot.      *)
Edited(e, over) ==
    [f \in Fields |-> IF over[f] = Unset THEN EntryOf[e][f] ELSE over[f]]

(* Between boots: nothing is overridden in an entry yet, and what the user   *)
(* changed is still pending.                                                 *)
Clean == entries = EntryOf /\ pending = typed

(* The one way from a boot back to the selection with the overrides still in *)
(* the entry is the last-chance key during a retry, and it ends the session. *)
EditsInv ==
    /\ pc \in {"menu", "rescue", "recovery"} => Clean
    /\ pc = "select" => Clean \/ (retry /\ force)
    /\ pc = "chosen" => Clean \/ selected = None
    /\ Booting =>
         /\ entries = [EntryOf EXCEPT ![selected] = Edited(selected, typed)]
         /\ saved = [f \in Fields |-> IF typed[f] = Unset THEN Unset
                                      ELSE EntryOf[selected][f]]
         /\ pending = NoEdits

(* Only the first selection boots by itself, before anything was changed.    *)
AutobootInv ==
    /\ pc = "menu" => ~autobooted
    /\ pc = "select" /\ ~force => typed = NoEdits
    /\ pc = "chosen" /\ autobooted => typed = NoEdits
    /\ pc \in {"password", "last"} /\ autobooted /\ ~retry => typed = NoEdits

SecretInv ==
    /\ pending["kernel"] # None /\ typed["kernel"] # None
    /\ OnlyItsSecret

(* Until the first hand-over nobody but the user moves the cursor, and the   *)
(* graphical menu, once started, has the screen.                             *)
MenuInv ==
    boots = 0 /\ "rescue" \notin visited =>
        /\ \/ pc \in {"select", "menu"}
           \/ pc \in {"chosen", "password", "last"} /\ autobooted
           => cursor = Preselected
        /\ config.gop /\ ~config.textMenu =>
             /\ pc \in {"select", "menu", "chosen", "password", "last"} =>
                  ~screen.closed /\ (screen.started => ~screen.text)
             /\ pc = "menu" \/ (pc = "select" /\ (force \/ ~Fast)) => screen.started

IInv == Typing /\ EditsInv /\ AutobootInv /\ SecretInv /\ MenuInv

-----------------------------------------------------------------------------
(* What the user's changes can be.                                           *)
LEMMA BrowsedChange ==
    ASSUME NEW edit \in BrowsedKernels
    PROVE  DOMAIN edit \subseteq Fields /\ edit["kernel"] \in Paths
BY DEF BrowsedKernels, Fields

LEMMA CommandChange ==
    ASSUME NEW edit \in Commands
    PROVE  DOMAIN edit \subseteq Fields
           /\ ("kernel" \in DOMAIN edit => edit["kernel"] \in Paths \cup {Unset})
<1>1. CASE edit \in SetFields \cup {BrowsedInitrd(p) : p \in Paths}
  BY <1>1 DEF SetFields, BrowsedInitrd, Fields
<1>2. CASE edit \in AppendWords
  <2>1. PICK line : edit = [cmdline |-> line]
    BY <1>2 DEF AppendWords
  <2> QED
    BY <2>1 DEF Fields
<1>3. CASE edit \in UnsetFields
  BY <1>3 DEF UnsetFields, Fields
<1> QED
  BY <1>1, <1>2, <1>3 DEF Commands

LEMMA ChangedFields ==
    ASSUME NEW edit, NEW over
    PROVE  /\ DOMAIN Changed(edit, over) = Fields
           /\ Changed(edit, over) = [f \in Fields |-> Changed(edit, over)[f]]
           /\ \A f \in Fields : Changed(edit, over)[f] =
                                  IF f \in DOMAIN edit THEN edit[f] ELSE over[f]
BY DEF Changed

(* What `boot' and `retry' are given beside the pending changes.             *)
LEMMA RetryChange ==
    ASSUME NEW edit \in {NoEdits} \cup BrowsedKernels,
           NEW change, change = [f \in {g \in DOMAIN edit : edit # NoEdits} |-> edit[f]]
    PROVE  "kernel" \in DOMAIN change => change["kernel"] \in Paths
BY BrowsedChange

LEMMA RangeNames ==
    ASSUME Typing, NEW n
    PROVE  EntryAt(n) \in Names \cup {None}
BY DEF Typing, Config, EntryAt

LEMMA InitInv == Init => IInv
<1> SUFFICES ASSUME Init PROVE IInv
  OBVIOUS
<1>1. Typing
  BY EntriesAssumption DEF Init, Typing, Booting, NoEdits, FirstScreen, Fast, Config
<1>2. EditsInv /\ AutobootInv
  BY DEF Init, EditsInv, AutobootInv, Clean, Booting
<1>3. SecretInv
  BY FieldsAssumption DEF Init, SecretInv, OnlyItsSecret, NoEdits, Fields
<1>4. MenuInv
  BY <1>1 DEF Init, MenuInv, FirstScreen, Fast, Typing, Config
<1> QED
  BY <1>1, <1>2, <1>3, <1>4 DEF IInv

-----------------------------------------------------------------------------
(* Typing.                                                                   *)
LEMMA ScreenType ==
    ASSUME Typing
    PROVE  /\ Ensured(screen) \in [text : BOOLEAN, started : BOOLEAN, closed : BOOLEAN,
                                   keep : BOOLEAN, splash : BOOLEAN, covered : BOOLEAN]
           /\ HandedScreen \in [text : BOOLEAN, started : BOOLEAN, closed : BOOLEAN,
                                keep : BOOLEAN, splash : BOOLEAN, covered : BOOLEAN]
           /\ Prompted \in [text : BOOLEAN, started : BOOLEAN, closed : BOOLEAN,
                            keep : BOOLEAN, splash : BOOLEAN, covered : BOOLEAN]
<1>1. Ensured(screen) \in [text : BOOLEAN, started : BOOLEAN, closed : BOOLEAN,
                           keep : BOOLEAN, splash : BOOLEAN, covered : BOOLEAN]
  BY DEF Typing, Ensured, Config
<1>2. HandedScreen \in [text : BOOLEAN, started : BOOLEAN, closed : BOOLEAN,
                        keep : BOOLEAN, splash : BOOLEAN, covered : BOOLEAN]
  <2> DEFINE S == [text : BOOLEAN, started : BOOLEAN, closed : BOOLEAN,
                   keep : BOOLEAN, splash : BOOLEAN, covered : BOOLEAN]
             s == IF ~screen.text /\ ~screen.closed /\ ~screen.splash
                  THEN [screen EXCEPT !.closed = TRUE, !.text = TRUE] ELSE screen
  <2>1. s \in S
    BY DEF Typing
  <2> HIDE DEF s
  <2>2. ASSUME NEW a \in BOOLEAN, NEW b \in BOOLEAN
        PROVE  [s EXCEPT !.closed = a, !.covered = b] \in S
    BY <2>1
  <2>3. (s.closed \/ s.splash \/ s.keep) \in BOOLEAN
        /\ (s.covered /\ (s.closed \/ ~s.splash)) \in BOOLEAN
    OBVIOUS
  <2> QED
    BY <2>2, <2>3 DEF HandedScreen, s
<1>3. Prompted \in [text : BOOLEAN, started : BOOLEAN, closed : BOOLEAN,
                    keep : BOOLEAN, splash : BOOLEAN, covered : BOOLEAN]
  BY <1>1 DEF Typing, Prompted, Config
<1> QED
  BY <1>1, <1>2, <1>3

LEMMA ApplyType ==
    ASSUME NEW edit, Apply(edit)
    PROVE  /\ DOMAIN pending' = Fields /\ pending' = [f \in Fields |-> pending'[f]]
           /\ DOMAIN typed' = Fields /\ typed' = [f \in Fields |-> typed'[f]]
BY DEF Apply, Changed

(* A retry boots an entry with the pending changes, or goes to the menu.     *)
LEMMA RetryCases ==
    ASSUME Typing, NEW edit \in {NoEdits} \cup BrowsedKernels, Retry(edit)
    PROVE  \E change :
             /\ "kernel" \in DOMAIN change => change["kernel"] \in Paths
             /\ typed' = Changed(change, typed)
             /\ \/ /\ selected' \in Names /\ retry' = TRUE /\ force' = force
                   /\ BootSelected(selected', Changed(change, pending))
                \/ /\ pc = "rescue" /\ pc' = "select" /\ force' = TRUE
                   /\ pending' = Changed(change, pending)
                   /\ UNCHANGED <<selected, retry, entries, saved>>
<1> DEFINE change == [f \in {g \in DOMAIN edit : edit # NoEdits} |-> edit[f]]
           pick == IF ShellEntry # None THEN ShellEntry
                   ELSE IF pc = "recovery" THEN selected ELSE None
<1>1. "kernel" \in DOMAIN change => change["kernel"] \in Paths
  BY RetryChange
<1>2. pick \in Names \cup {None} /\ (pc = "recovery" => pick # None)
  BY RangeNames, EntriesAssumption DEF ShellEntry, Typing
<1>3. /\ typed' = Changed(change, typed)
      /\ IF pick # None
         THEN /\ selected' = pick /\ retry' = TRUE /\ force' = force
              /\ BootSelected(pick, Changed(change, pending))
         ELSE /\ pending' = Changed(change, pending) /\ force' = TRUE /\ pc' = "select"
              /\ UNCHANGED <<selected, retry, entries, saved>>
  BY DEF Retry
<1>4. pick = None => pc = "rescue"
  BY <1>2 DEF Retry, InShell
<1> HIDE DEF change, pick
<1>5. CASE pick # None
  BY <1>1, <1>2, <1>3, <1>5
<1>6. CASE pick = None
  BY <1>1, <1>3, <1>4, <1>6
<1> QED
  BY <1>5, <1>6

LEMMA TypingStep ==
    ASSUME Typing, [Next]_vars
    PROVE  Typing'
<1> USE DEF Typing, Booting, given, flags, edits
<1>1. CASE PressKey
  BY <1>1 DEF PressKey
<1>2. ASSUME NEW finished \in BOOLEAN, Select(finished) PROVE Typing'
  <2>1. selected' \in Names \cup {None}
    BY <1>2, RangeNames DEF Select
  <2> QED
    BY <1>2, <2>1, ScreenType DEF Select, IntroPlays, Config
<1>3. CASE MenuEdit
  BY <1>3, ApplyType DEF MenuEdit
<1>4. ASSUME NEW n \in DOMAIN config.list, MenuBoots(n) PROVE Typing'
  <2>1. /\ DOMAIN pending' = Fields /\ pending' = [f \in Fields |-> pending'[f]]
        /\ DOMAIN typed' = Fields /\ typed' = [f \in Fields |-> typed'[f]]
    BY <1>4, ApplyType DEF MenuBoots
  <2> QED
    <3>1. selected' \in Names
      BY <1>4, RangeNames DEF MenuBoots
    <3>2. screen' \in [text : BOOLEAN, started : BOOLEAN, closed : BOOLEAN,
                       keep : BOOLEAN, splash : BOOLEAN, covered : BOOLEAN]
      BY <1>4 DEF MenuBoots, Typing
    <3>3. /\ UNCHANGED <<config, secret, autobooted, retry, boots>>
          /\ force' \in BOOLEAN /\ pc' = "chosen"
      BY <1>4 DEF MenuBoots, LeaveMenu, given
    <3> QED
      BY <2>1, <3>1, <3>2, <3>3 DEF Typing, Booting
<1>5. CASE MenuRescue
  BY <1>5 DEF MenuRescue, LeaveMenu
<1>6. CASE MenuEnds
  BY <1>6 DEF MenuEnds, LeaveMenu
<1>7. CASE Chosen
  <2>1. /\ UNCHANGED <<config, screen, secret, typed, selected, force, autobooted, boots>>
        /\ retry' \in BOOLEAN
        /\ \/ selected = None /\ pc' = "ended" /\ pending' = pending
           \/ selected # None /\ pc' \in {"password", "last"} /\ pending' = NoEdits
    BY <1>7 DEF Chosen, BootSelected, given
  <2>2. DOMAIN pending' = Fields /\ pending' = [f \in Fields |-> pending'[f]]
    BY <2>1 DEF Typing, NoEdits
  <2> QED
    BY <2>1, <2>2 DEF Typing, Booting
<1>8. ASSUME NEW p, Password(p) PROVE Typing'
  <2>1. /\ pc = "password" /\ pc' = "last" /\ screen' = Prompted
        /\ secret' = [secret EXCEPT ![selected] = p]
        /\ UNCHANGED <<config, pending, typed, selected, force, autobooted, retry, boots>>
    BY <1>8 DEF Password, given, edits, flags
  <2>2. DOMAIN secret' = Names /\ secret' = [e \in Names |-> secret'[e]]
    BY <2>1 DEF Typing
  <2> QED
    BY <2>1, <2>2, ScreenType DEF Typing, Booting
<1>9. CASE PasswordFails
  BY <1>9 DEF PasswordFails, Wipe
<1>10. CASE LastChance
  BY <1>10, ScreenType DEF LastChance, Wipe
<1>11. CASE HandOver
  BY <1>11, ScreenType DEF HandOver
<1>12. CASE BootReturns
  BY <1>12 DEF BootReturns, Wipe, NoEdits
<1>13. ASSUME NEW n \in DOMAIN config.list, Use(n) PROVE Typing'
  BY <1>13 DEF Use, InShell
<1>14. ASSUME NEW edit \in Commands, Command(edit) PROVE Typing'
  BY <1>14, ApplyType DEF Command, InShell
<1>15. ASSUME NEW edit \in {NoEdits} \cup BrowsedKernels, Retry(edit) PROVE Typing'
  <2>1. /\ DOMAIN pending' = Fields /\ pending' = [f \in Fields |-> pending'[f]]
        /\ DOMAIN typed' = Fields /\ typed' = [f \in Fields |-> typed'[f]]
    BY <1>15, RetryCases DEF BootSelected, NoEdits, Changed
  <2>2. /\ selected' \in Names \cup {None} /\ retry' \in BOOLEAN /\ force' \in BOOLEAN
        /\ pc' \in {"password", "last"} => selected' \in Names
        /\ pc' \in {"password", "last", "select"}
    BY <1>15, RetryCases DEF BootSelected
  <2> QED
    BY <1>15, <2>1, <2>2 DEF Retry
<1>16. CASE BackToMenu
  BY <1>16 DEF BackToMenu, Wipe, InShell
<1>17. CASE ShellEnds
  BY <1>17 DEF ShellEnds, InShell
<1>18. CASE UNCHANGED vars
  BY <1>18 DEF vars
<1> QED
  BY <1>1, <1>2, <1>3, <1>4, <1>5, <1>6, <1>7, <1>8, <1>9, <1>10, <1>11, <1>12,
     <1>13, <1>14, <1>15, <1>16, <1>17, <1>18 DEF Next

-----------------------------------------------------------------------------
(* The overrides go into the selected entry and come out of it again.        *)
LEMMA OverridesIn ==
    ASSUME Clean, NEW e \in Names, NEW over, BootSelected(e, over), typed' = over
    PROVE  /\ entries' = [EntryOf EXCEPT ![e] = Edited(e, typed')]
           /\ saved' = [f \in Fields |-> IF typed'[f] = Unset THEN Unset
                                         ELSE EntryOf[e][f]]
           /\ pending' = NoEdits
           /\ pc' \in {"password", "last"}
BY DEF Clean, BootSelected, Overridden, Taken, Edited

LEMMA OverridesOut ==
    ASSUME EditsInv, Booting, selected \in Names
    PROVE  Restored(selected) = EntryOf
<1>1. /\ entries = [EntryOf EXCEPT ![selected] = Edited(selected, typed)]
      /\ saved = [f \in Fields |-> IF typed[f] = Unset THEN Unset
                                   ELSE EntryOf[selected][f]]
  BY DEF EditsInv
<1>2. entries[selected] = Edited(selected, typed)
  BY <1>1, FieldsAssumption
<1>3. EntryOf[selected] = [f \in Fields |-> EntryOf[selected][f]]
  BY FieldsAssumption
<1>4. [f \in Fields |-> IF saved[f] = Unset THEN entries[selected][f] ELSE saved[f]]
        = EntryOf[selected]
  BY <1>1, <1>2, <1>3, FieldsAssumption DEF Edited
<1>5. [EntryOf EXCEPT ![selected] = EntryOf[selected]] = EntryOf
  BY FieldsAssumption
<1> QED
  BY <1>1, <1>4, <1>5 DEF Restored

(* Nothing was changed for an autoboot: its entry is as boot.conf made it.   *)
LEMMA NothingIn ==
    ASSUME EditsInv, Booting, selected \in Names, typed = NoEdits
    PROVE  Clean
<1>1. Edited(selected, typed) = [f \in Fields |-> EntryOf[selected][f]]
  BY DEF Edited, NoEdits
<1>2. entries = EntryOf
  BY <1>1, FieldsAssumption DEF EditsInv
<1> QED
  BY <1>2 DEF EditsInv, Clean

LEMMA EditsStep ==
    ASSUME Typing, EditsInv, AutobootInv, [Next]_vars
    PROVE  EditsInv'
<1> USE DEF Booting, given, flags, edits
<1>1. CASE PressKey
  BY <1>1 DEF PressKey, EditsInv, Clean
<1>2. ASSUME NEW finished \in BOOLEAN, Select(finished) PROVE EditsInv'
  BY <1>2 DEF Select, EditsInv, Clean, Typing
<1>3. CASE MenuEdit
  BY <1>3 DEF MenuEdit, Apply, EditsInv, Clean
<1>4. ASSUME NEW n \in DOMAIN config.list, MenuBoots(n) PROVE EditsInv'
  BY <1>4 DEF MenuBoots, LeaveMenu, Apply, EditsInv, Clean
<1>5. CASE MenuRescue
  BY <1>5 DEF MenuRescue, LeaveMenu, EditsInv, Clean
<1>6. CASE MenuEnds
  BY <1>6 DEF MenuEnds, LeaveMenu, EditsInv
<1>7. CASE Chosen
  <2>1. CASE selected = None
    BY <1>7, <2>1 DEF Chosen, EditsInv
  <2>2. CASE selected # None
    <3>1. /\ Clean /\ selected \in Names
          /\ BootSelected(selected, pending) /\ typed' = pending
      BY <1>7, <2>2 DEF Chosen, EditsInv, Typing, Clean
    <3>2. selected' = selected
      BY <1>7 DEF Chosen
    <3> QED
      BY <3>1, <3>2, OverridesIn DEF EditsInv
  <2> QED
    BY <2>1, <2>2
<1>8. ASSUME NEW p, Password(p) PROVE EditsInv'
  BY <1>8 DEF Password, EditsInv
<1>9. CASE PasswordFails
  BY <1>9 DEF PasswordFails, EditsInv
<1>10. CASE LastChance
  <2>1. typed = NoEdits \/ retry
    BY <1>10 DEF LastChance, AutobootInv, Typing
  <2>2. Clean \/ retry
    BY <1>10, <2>1, NothingIn DEF LastChance, Typing
  <2> QED
    BY <1>10, <2>2 DEF LastChance, EditsInv, Clean
<1>11. CASE HandOver
  BY <1>11 DEF HandOver, EditsInv
<1>12. CASE BootReturns
  <2>1. entries' = EntryOf
    BY <1>12, OverridesOut DEF BootReturns, Typing
  <2> QED
    BY <1>12, <2>1 DEF BootReturns, EditsInv, Clean
<1>13. ASSUME NEW n \in DOMAIN config.list, Use(n) PROVE EditsInv'
  BY <1>13 DEF Use, InShell, EditsInv, Clean
<1>14. ASSUME NEW edit \in Commands, Command(edit) PROVE EditsInv'
  BY <1>14 DEF Command, InShell, Apply, EditsInv, Clean
<1>15. ASSUME NEW edit \in {NoEdits} \cup BrowsedKernels, Retry(edit) PROVE EditsInv'
  <2>1. Clean
    BY <1>15 DEF Retry, InShell, EditsInv
  <2>2. PICK change :
          /\ typed' = Changed(change, typed)
          /\ \/ selected' \in Names /\ BootSelected(selected', Changed(change, pending))
             \/ /\ pc' = "select"
                /\ pending' = Changed(change, pending) /\ entries' = entries
    BY <1>15, RetryCases
  <2>3. CASE selected' \in Names /\ BootSelected(selected', Changed(change, pending))
    <3>1. typed' = Changed(change, pending)
      BY <2>1, <2>2 DEF Clean
    <3> QED
      BY <2>1, <2>3, <3>1, OverridesIn DEF EditsInv
  <2>4. CASE /\ pc' = "select"
             /\ pending' = Changed(change, pending) /\ entries' = entries
    BY <2>1, <2>2, <2>4 DEF EditsInv, Clean
  <2> QED
    BY <2>2, <2>3, <2>4
<1>16. CASE BackToMenu
  BY <1>16 DEF BackToMenu, InShell, EditsInv, Clean
<1>17. CASE ShellEnds
  BY <1>17 DEF ShellEnds, InShell, EditsInv
<1>18. CASE UNCHANGED vars
  BY <1>18 DEF vars, EditsInv, Clean
<1> QED
  BY <1>1, <1>2, <1>3, <1>4, <1>5, <1>6, <1>7, <1>8, <1>9, <1>10, <1>11, <1>12,
     <1>13, <1>14, <1>15, <1>16, <1>17, <1>18 DEF Next

LEMMA AutobootStep ==
    ASSUME Typing, AutobootInv, [Next]_vars
    PROVE  AutobootInv'
<1> USE DEF given, flags, edits
<1>1. CASE PressKey
  BY <1>1 DEF PressKey, AutobootInv
<1>2. ASSUME NEW finished \in BOOLEAN, Select(finished) PROVE AutobootInv'
  BY <1>2 DEF Select, Typing, AutobootInv
<1>3. CASE MenuEdit
  BY <1>3 DEF MenuEdit, AutobootInv
<1>4. ASSUME NEW n \in DOMAIN config.list, MenuBoots(n) PROVE AutobootInv'
  BY <1>4 DEF MenuBoots, LeaveMenu, AutobootInv
<1>5. CASE MenuRescue
  BY <1>5 DEF MenuRescue, LeaveMenu, AutobootInv
<1>6. CASE MenuEnds
  BY <1>6 DEF MenuEnds, LeaveMenu, AutobootInv
<1>7. CASE Chosen
  BY <1>7 DEF Chosen, BootSelected, AutobootInv
<1>8. ASSUME NEW p, Password(p) PROVE AutobootInv'
  BY <1>8 DEF Password, AutobootInv
<1>9. CASE PasswordFails
  BY <1>9 DEF PasswordFails, AutobootInv
<1>10. CASE LastChance
  BY <1>10 DEF LastChance, NoEdits, AutobootInv
<1>11. CASE HandOver
  BY <1>11 DEF HandOver, AutobootInv
<1>12. CASE BootReturns
  BY <1>12 DEF BootReturns, AutobootInv
<1>13. ASSUME NEW n \in DOMAIN config.list, Use(n) PROVE AutobootInv'
  BY <1>13 DEF Use, InShell, AutobootInv
<1>14. ASSUME NEW edit \in Commands, Command(edit) PROVE AutobootInv'
  BY <1>14 DEF Command, InShell, AutobootInv
<1>15. ASSUME NEW edit \in {NoEdits} \cup BrowsedKernels, Retry(edit) PROVE AutobootInv'
  BY <1>15, RetryCases DEF Retry, BootSelected, AutobootInv
<1>16. CASE BackToMenu
  BY <1>16 DEF BackToMenu, InShell, AutobootInv
<1>17. CASE ShellEnds
  BY <1>17 DEF ShellEnds, InShell, AutobootInv
<1>18. CASE UNCHANGED vars
  BY <1>18 DEF vars, AutobootInv
<1> QED
  BY <1>1, <1>2, <1>3, <1>4, <1>5, <1>6, <1>7, <1>8, <1>9, <1>10, <1>11, <1>12,
     <1>13, <1>14, <1>15, <1>16, <1>17, <1>18 DEF Next

-----------------------------------------------------------------------------
(* Nothing the user does makes an entry with a path one without: only such   *)
(* an entry's passphrase is wiped when visor_boot returns.                   *)
LEMMA KernelStays ==
    ASSUME NEW edit, NEW over, over["kernel"] # None,
           "kernel" \in DOMAIN edit => edit["kernel"] # None
    PROVE  Changed(edit, over)["kernel"] # None
BY DEF Changed, Fields

LEMMA KernelPending ==
    ASSUME SecretInv, NEW edit, Apply(edit),
           "kernel" \in DOMAIN edit => edit["kernel"] # None
    PROVE  pending'["kernel"] # None /\ typed'["kernel"] # None
BY KernelStays DEF SecretInv, Apply

LEMMA Wiped ==
    ASSUME Typing, OnlyItsSecret, selected \in Names, secret' = Wipe(selected)
    PROVE  \A e \in Names : EntryOf[e].kernel # None => secret'[e] = None
BY EntriesAssumption DEF Typing, OnlyItsSecret, Wipe

LEMMA SecretStep ==
    ASSUME Typing, EditsInv, SecretInv, [Next]_vars
    PROVE  SecretInv'
<1> USE DEF given, flags, edits
<1>1. CASE PressKey
  BY <1>1 DEF PressKey, SecretInv, OnlyItsSecret
<1>2. ASSUME NEW finished \in BOOLEAN, Select(finished) PROVE SecretInv'
  BY <1>2 DEF Select, SecretInv, OnlyItsSecret
<1>3. CASE MenuEdit
  <2>1. pending'["kernel"] # None /\ typed'["kernel"] # None
    BY <1>3, KernelPending DEF MenuEdit, BrowsedInitrd, SecretInv
  <2> QED
    BY <1>3, <2>1 DEF MenuEdit, SecretInv, OnlyItsSecret
<1>4. ASSUME NEW n \in DOMAIN config.list, MenuBoots(n) PROVE SecretInv'
  <2>1. pending'["kernel"] # None /\ typed'["kernel"] # None
    <3>1. CASE UNCHANGED edits
      BY <3>1 DEF SecretInv
    <3>2. ASSUME NEW s \in Snapshots[EntryAt(n)], Apply(OfSnapshot(s))
          PROVE  pending'["kernel"] # None /\ typed'["kernel"] # None
      <4>1. OfSnapshot(s)["kernel"] # None
        BY <1>4, RangeNames, FieldsAssumption DEF MenuBoots, OfSnapshot
      <4> QED
        BY <3>2, <4>1, KernelPending
    <3>3. ASSUME NEW edit \in BrowsedKernels, Apply(edit)
          PROVE  pending'["kernel"] # None /\ typed'["kernel"] # None
      BY <3>3, KernelPending, BrowsedChange, FieldsAssumption
    <3> QED
      BY <1>4, <3>1, <3>2, <3>3 DEF MenuBoots
  <2> QED
    BY <1>4, <2>1 DEF MenuBoots, LeaveMenu, SecretInv, OnlyItsSecret
<1>5. CASE MenuRescue
  BY <1>5 DEF MenuRescue, LeaveMenu, SecretInv, OnlyItsSecret
<1>6. CASE MenuEnds
  BY <1>6 DEF MenuEnds, LeaveMenu, SecretInv, OnlyItsSecret
<1>7. CASE Chosen
  BY <1>7, FieldsAssumption DEF Chosen, BootSelected, NoEdits, Fields, SecretInv, OnlyItsSecret
<1>8. ASSUME NEW p, Password(p) PROVE SecretInv'
  BY <1>8 DEF Password, SecretInv, OnlyItsSecret, Typing
<1>9. CASE PasswordFails
  BY <1>9 DEF PasswordFails, Wipe, SecretInv, OnlyItsSecret, Typing
<1>10. CASE LastChance
  <2>1. secret' = Wipe(selected) /\ UNCHANGED edits
    BY <1>10 DEF LastChance
  <2>2. pc = "last"
    BY <1>10, Zenon DEF LastChance
  <2>3. selected \in Names
    BY <2>2 DEF Typing, Booting
  <2> QED
    BY <2>1, <2>3, Wiped DEF SecretInv, OnlyItsSecret
<1>11. CASE HandOver
  BY <1>11 DEF HandOver, SecretInv, OnlyItsSecret
<1>12. CASE BootReturns
  <2>1. entries[selected].kernel = None => EntryOf[selected].kernel = None
    BY FieldsAssumption, <1>12 DEF BootReturns, EditsInv, Booting, Edited, Fields, SecretInv, Typing
  <2> QED
    <3>1. selected \in Names /\ pc' = "recovery" /\ selected' = selected
      BY <1>12 DEF BootReturns, Typing, Booting
    <3>2. typed'["kernel"] # None /\ pending'["kernel"] # None
      BY <1>12, FieldsAssumption DEF BootReturns, NoEdits, Fields, SecretInv
    <3>3. CASE entries[selected].kernel = None
      <4>1. secret' = secret
        BY <1>12, <3>3 DEF BootReturns
      <4> QED
        BY <2>1, <3>1, <3>2, <3>3, <4>1 DEF SecretInv, OnlyItsSecret
    <3>4. CASE entries[selected].kernel # None
      <4>1. secret' = Wipe(selected)
        BY <1>12, <3>4 DEF BootReturns
      <4> QED
        BY <3>1, <3>2, <4>1, Wiped DEF SecretInv, OnlyItsSecret
    <3> QED
      BY <3>3, <3>4
<1>13. ASSUME NEW n \in DOMAIN config.list, Use(n) PROVE SecretInv'
  BY <1>13 DEF Use, InShell, SecretInv, OnlyItsSecret
<1>14. ASSUME NEW edit \in Commands, Command(edit) PROVE SecretInv'
  <2>1. pending'["kernel"] # None /\ typed'["kernel"] # None
    BY <1>14, KernelPending, CommandChange, FieldsAssumption DEF Command, SecretInv
  <2> QED
    BY <1>14, <2>1 DEF Command, InShell, SecretInv, OnlyItsSecret
<1>15. ASSUME NEW edit \in {NoEdits} \cup BrowsedKernels, Retry(edit) PROVE SecretInv'
  <2>1. PICK change :
          /\ "kernel" \in DOMAIN change => change["kernel"] \in Paths
          /\ typed' = Changed(change, typed)
          /\ \/ BootSelected(selected', Changed(change, pending))
             \/ pending' = Changed(change, pending)
    BY <1>15, RetryCases
  <2>2. /\ Changed(change, typed)["kernel"] # None
        /\ Changed(change, pending)["kernel"] # None
    BY <2>1, KernelStays, FieldsAssumption DEF SecretInv
  <2>3. pending'["kernel"] # None
    BY <2>1, <2>2, FieldsAssumption DEF BootSelected, NoEdits, Fields
  <2>4. secret' = secret /\ pc \notin {"last", "running"}
    BY <1>15 DEF Retry, InShell
  <2> QED
    BY <2>1, <2>2, <2>3, <2>4 DEF SecretInv, OnlyItsSecret
<1>16. CASE BackToMenu
  BY <1>16 DEF BackToMenu, InShell, Wipe, SecretInv, OnlyItsSecret, Typing
<1>17. CASE ShellEnds
  BY <1>17 DEF ShellEnds, InShell, SecretInv, OnlyItsSecret
<1>18. CASE UNCHANGED vars
  BY <1>18 DEF vars, SecretInv, OnlyItsSecret
<1> QED
  BY <1>1, <1>2, <1>3, <1>4, <1>5, <1>6, <1>7, <1>8, <1>9, <1>10, <1>11, <1>12,
     <1>13, <1>14, <1>15, <1>16, <1>17, <1>18 DEF Next

-----------------------------------------------------------------------------
(* The first menu.                                                           *)
LEMMA EnsuredMenu ==
    ASSUME Typing
    PROVE  /\ EnsuredCursor \in {cursor, Preselected}
           /\ Ensured(screen).closed = screen.closed
           /\ config.gop /\ ~config.textMenu =>
                /\ Ensured(screen).started
                /\ (screen.started => ~screen.text) => ~Ensured(screen).text
BY DEF EnsuredCursor, Ensured, Typing, Config

LEMMA SamePreselection ==
    ASSUME config' = config, last' = last
    PROVE  Preselected' = Preselected /\ Fast' = Fast
<1>1. IndexOf(last)' = IndexOf(last)
  BY DEF IndexOf
<1>2. Range(config.list)' = Range(config.list)
  BY DEF Range
<1>3. Preselected' = Preselected
  BY <1>1, <1>2 DEF Preselected
<1> QED
  BY <1>3 DEF Fast

LEMMA MenuStep ==
    ASSUME Typing, AutobootInv, MenuInv, [Next]_vars
    PROVE  MenuInv'
<1> USE DEF given, flags, edits
<1>1. CASE PressKey
  BY <1>1, SamePreselection DEF PressKey, MenuInv
<1>2. ASSUME NEW finished \in BOOLEAN, Select(finished) PROVE MenuInv'
  <2> DEFINE asks == /\ ~force /\ (config.autoboot \/ (finished /\ config.introBoot))
                     /\ config.list # <<>>
  <2>1. /\ pc = "select" /\ UNCHANGED <<config, last, boots, visited, force, retry>>
        /\ autobooted' = (asks /\ ~key)
        /\ pc' = IF ~(asks /\ ~key) /\ ~retry THEN "menu" ELSE "chosen"
        /\ \/ asks /\ key /\ screen' = Ensured(screen) /\ cursor' = EnsuredCursor
           \/ ~(asks /\ key) /\ screen' = screen /\ cursor' = cursor
    BY <1>2 DEF Select
  <2>2. ~force /\ Fast => asks
    BY DEF Fast
  <2>3. Preselected' = Preselected /\ Fast' = Fast
    BY <2>1, SamePreselection
  <2> HIDE DEF asks
  <2> QED
    BY <2>1, <2>2, <2>3, EnsuredMenu DEF MenuInv
<1>3. CASE MenuEdit
  BY <1>3, SamePreselection DEF MenuEdit, MenuInv
<1>4. ASSUME NEW n \in DOMAIN config.list, MenuBoots(n) PROVE MenuInv'
  BY <1>4, SamePreselection DEF MenuBoots, LeaveMenu, MenuInv, AutobootInv
<1>5. CASE MenuRescue
  BY <1>5, SamePreselection DEF MenuRescue, LeaveMenu, MenuInv
<1>6. CASE MenuEnds
  BY <1>6, SamePreselection DEF MenuEnds, LeaveMenu, MenuInv
<1>7. CASE Chosen
  BY <1>7, SamePreselection DEF Chosen, BootSelected, MenuInv
<1>8. ASSUME NEW p, Password(p) PROVE MenuInv'
  BY <1>8, SamePreselection DEF Password, Prompted, MenuInv, Typing
<1>9. CASE PasswordFails
  BY <1>9, SamePreselection DEF PasswordFails, MenuInv
<1>10. CASE LastChance
  <2> QED
    BY <1>10, EnsuredMenu, SamePreselection DEF LastChance, MenuInv
<1>11. CASE HandOver
  <2>1. boots' # 0
    BY <1>11, SamePreselection DEF HandOver, Typing
  <2> QED
    BY <2>1 DEF MenuInv
<1>12. CASE BootReturns
  BY <1>12, SamePreselection DEF BootReturns, MenuInv
<1>13. ASSUME NEW n \in DOMAIN config.list, Use(n) PROVE MenuInv'
  BY <1>13, SamePreselection DEF Use, InShell, MenuInv
<1>14. ASSUME NEW edit \in Commands, Command(edit) PROVE MenuInv'
  BY <1>14, SamePreselection DEF Command, InShell, MenuInv
<1>15. ASSUME NEW edit \in {NoEdits} \cup BrowsedKernels, Retry(edit) PROVE MenuInv'
  BY <1>15, SamePreselection DEF Retry, InShell, MenuInv
<1>16. CASE BackToMenu
  BY <1>16, SamePreselection DEF BackToMenu, InShell, MenuInv
<1>17. CASE ShellEnds
  BY <1>17, SamePreselection DEF ShellEnds, InShell, MenuInv
<1>18. CASE UNCHANGED vars
  BY <1>18, SamePreselection DEF vars, MenuInv
<1> QED
  BY <1>1, <1>2, <1>3, <1>4, <1>5, <1>6, <1>7, <1>8, <1>9, <1>10, <1>11, <1>12,
     <1>13, <1>14, <1>15, <1>16, <1>17, <1>18 DEF Next

LEMMA Inductive == IInv /\ [Next]_vars => IInv'
BY TypingStep, EditsStep, AutobootStep, SecretStep, MenuStep DEF IInv

LEMMA Invariant == Spec => []IInv
BY InitInv, Inductive, PTL DEF Spec

-----------------------------------------------------------------------------
(* Overrides are "one-shot, not saved": after any number of retries, other   *)
(* entries, refused prompts and boots that return, boot_selected has given   *)
(* each boot what was changed for it and taken it out of the entry again.    *)
THEOREM SpecOneShotEdits == Spec => []OneShotEdits
<1>1. IInv => OneShotEdits
  <2> SUFFICES ASSUME IInv PROVE OneShotEdits
    OBVIOUS
  <2>1. pc \in {"menu", "rescue", "recovery"} => entries = EntryOf
    BY DEF IInv, EditsInv, Clean
  <2>2. CASE pc = "running"
    <3>1. /\ selected \in Names
          /\ entries = [EntryOf EXCEPT ![selected] = Edited(selected, typed)]
      BY <2>2 DEF IInv, Typing, EditsInv, Booting
    <3> QED
      BY <2>1, <3>1, FieldsAssumption DEF OneShotEdits, Edited
  <2> QED
    BY <2>1, <2>2 DEF OneShotEdits
<1> QED
  BY Invariant, <1>1, PTL

(* A passphrase typed for an entry with a path is in memory only while that  *)
(* entry is about to be booted or running; main.c and visor_boot wipe it on  *)
(* every other way out.                                                      *)
THEOREM SpecOnlyItsSecret == Spec => []OnlyItsSecret
<1>1. IInv => OnlyItsSecret
  BY DEF IInv, SecretInv
<1> QED
  BY Invariant, <1>1, PTL

(* Whichever way the first menu is reached - at once, by the autoboot key or *)
(* by the last-chance key - main_gui_ensure shows the one configured, on the *)
(* entry that autoboot would have booted.                                    *)
THEOREM SpecFirstMenu == Spec => []FirstMenu
<1>1. IInv => FirstMenu
  BY DEF IInv, MenuInv, FirstMenu, Typing, Config
<1> QED
  BY Invariant, <1>1, PTL

-----------------------------------------------------------------------------
(* What a value of boot.conf changes: LookRules to BootRules of Settings.    *)

(* Induction over the naturals, for a set.                                   *)
LEMMA NatSet ==
    ASSUME NEW T, 0 \in T, \A k \in Nat : k \in T => k + 1 \in T
    PROVE  \A n \in Nat : n \in T
<1> SUFFICES ASSUME NEW n \in Nat, n \notin T PROVE FALSE
  OBVIOUS
<1> DEFINE Less == {ss \in Nat \X Nat : ss[1] < ss[2]}
           S == {k \in Nat : k \notin T}
<1>1. IsWellFoundedOn(Less, Nat)
  BY NatLessThanWellFounded, Zenon DEF OpToRel
<1>2. S # {} /\ S \subseteq Nat
  OBVIOUS
<1>3. PICK m \in S : \A k \in S : ~ (<<k, m>> \in Less)
  <2> HIDE DEF Less, S
  <2> QED BY <1>1, <1>2, WFMin
<1>4. m \in Nat /\ m \notin T /\ m # 0
  OBVIOUS
<1>5. m - 1 \in Nat /\ m - 1 < m /\ (m - 1) + 1 = m
  BY <1>4
<1>6. m - 1 \notin T
  BY <1>4, <1>5
<1>7. m - 1 \in S
  BY <1>5, <1>6
<1> QED BY <1>3, <1>4, <1>5, <1>7

(* The fields the proofs follow.                                             *)
Watched == {"log", "checkpoints", "default", "cmdline"}

(* The rules for the look of the menu leave the fields followed alone.       *)
LEMMA LookApart == ASSUME NEW word, NEW v PROVE DOMAIN LookRules(word, v) \cap Watched = {}
BY DEF LookRules, Set, ++, Tint, OwnTint, Accent, OneOf, LookNumbers, Specs, Owned, Unchanged, Watched

(* So do the rules for the menu.                                             *)
LEMMA MenuApart == ASSUME NEW word, NEW v PROVE DOMAIN MenuRules(word, v) \cap Watched = {}
BY DEF MenuRules, Set, ++, Tint, OwnTint, Accent, OneOf, MenuSwitches, Specs, Owned, Unchanged, Watched

(* So do the rules for the clock.                                            *)
LEMMA ClockApart == ASSUME NEW word, NEW v PROVE DOMAIN ClockRules(word, v) \cap Watched = {}
BY DEF ClockRules, Set, ++, Tint, OwnTint, Accent, OneOf, Specs, Owned, Unchanged, Watched

(* So do the rules tried last.                                               *)
LEMMA LastApart == ASSUME NEW word, NEW v PROVE DOMAIN LastRules(word, v) \cap Watched = {}
BY DEF LastRules, Set, ++, Unchanged, Watched

(* The keys that set each field followed, and to what.                       *)
LEMMA BootWatched == 
  ASSUME NEW word, NEW v
  PROVE  /\ "log" \in DOMAIN BootRules(word, v) <=> word \in {"log", "no_log"}
         /\ "checkpoints" \in DOMAIN BootRules(word, v) <=> word = "checkpoints"
         /\ "default" \in DOMAIN BootRules(word, v) <=> word = "default"
         /\ "cmdline" \in DOMAIN BootRules(word, v) <=> word = "cmdline"
         /\ word = "log" => BootRules(word, v)["log"] = Lower(v)
         /\ word = "no_log" => BootRules(word, v)["log"] = ~Lower(v)
         /\ word = "checkpoints" => BootRules(word, v)["checkpoints"] = AnyCase(v)
         /\ word = "default" => BootRules(word, v)["default"] = Number[v]
         /\ word = "cmdline" => BootRules(word, v)["cmdline"] = PathOf(v)
<1>1. /\ "log" \in DOMAIN BootRules(word, v) <=> word \in {"log", "no_log"}
      /\ "checkpoints" \in DOMAIN BootRules(word, v) <=> word = "checkpoints"
      /\ "default" \in DOMAIN BootRules(word, v) <=> word = "default"
      /\ "cmdline" \in DOMAIN BootRules(word, v) <=> word = "cmdline"
  BY DEF BootRules, Set, ++, OneOf, Unchanged, BootSwitches, Marks
<1>2. word = "log" => BootRules(word, v)["log"] = Lower(v)
  BY DEF BootRules, Set, BootSwitches
<1>3. word = "no_log" => BootRules(word, v)["log"] = ~Lower(v)
  BY DEF BootRules, BootSwitches
<1>4. word = "checkpoints" => BootRules(word, v)["checkpoints"] = AnyCase(v)
  BY DEF BootRules, BootSwitches
<1>5. /\ word = "default" => BootRules(word, v)["default"] = Number[v]
      /\ word = "cmdline" => BootRules(word, v)["cmdline"] = PathOf(v)
  BY DEF BootRules, BootSwitches
<1> QED BY <1>1, <1>2, <1>3, <1>4, <1>5

(* No_log is the only name of no_log: no alias leads to it.                  *)
LEMMA NamedIs == ASSUME NEW word PROVE Named(word) = "no_log" <=> word = "no_log"
BY DEF Named, Alias, LateAlias

(* What a line leaves in the fields followed: the value of its own key or    *)
(* what was there.                                                           *)
LEMMA AppliedIs ==
    ASSUME NEW s, NEW word, NEW v
    PROVE  LET t == Applied(s, word, v) IN
           /\ Get(t, "log") = IF Named(word) = "log" THEN Lower(v)
                              ELSE IF word = "no_log" THEN ~Lower(v) ELSE Get(s, "log")
           /\ Get(t, "checkpoints")
                = IF Named(word) = "checkpoints" THEN AnyCase(v) ELSE Get(s, "checkpoints")
           /\ Get(t, "default")
                = IF Named(word) = "default" THEN Number[v] ELSE Get(s, "default")
           /\ Get(t, "cmdline")
                = IF Named(word) = "cmdline" THEN PathOf(v) ELSE Get(s, "cmdline")
<1> DEFINE k == Named(word)
           b == BootRules(k, v)
           u == Update(k, v)
           t == Applied(s, word, v)
<1>1. ASSUME NEW f \in Watched
      PROVE  /\ f \in DOMAIN u <=> f \in DOMAIN b
             /\ f \in DOMAIN b => u[f] = b[f]
  <2>1. /\ f \notin DOMAIN LookRules(k, v) /\ f \notin DOMAIN MenuRules(k, v)
        /\ f \notin DOMAIN ClockRules(k, v) /\ f \notin DOMAIN LastRules(k, v)
    BY LookApart, MenuApart, ClockApart, LastApart
  <2> QED BY <2>1 DEF Update, ++
<1>2. ASSUME NEW f \in Watched
      PROVE  Get(t, f) = IF f \in DOMAIN b THEN b[f] ELSE Get(s, f)
  <2>1. t = u ++ s BY DEF Applied
  <2> HIDE DEF t, u, b
  <2> QED BY <1>1, <2>1 DEF Get, ++
<1>3. /\ "log" \in Watched /\ "checkpoints" \in Watched
      /\ "default" \in Watched /\ "cmdline" \in Watched
  BY DEF Watched
<1> HIDE DEF t, u, b
<1>4. k = "no_log" <=> word = "no_log"
  BY NamedIs
<1> QED
  BY <1>2, <1>3, <1>4, BootWatched DEF t, b

(* The folds of Settings and Discovery over sequences, each with a lemma     *)
(* that gives what they return one element after the other. The operator of  *)
(* a fold cannot be a parameter of a lemma, so each has its own.             *)
EarlyFold(start, seq) == Folded(EarlyLine, start, seq)

(* Config_early_flags goes through the file one line after the other.        *)
LEMMA EarlySteps ==
    ASSUME NEW start, NEW seq, Len(seq) \in Nat
    PROVE  \E r : /\ r[0] = start
                  /\ \A i \in 1..Len(seq) : r[i] = EarlyLine(r[i - 1], seq[i])
                  /\ EarlyFold(start, seq) = r[Len(seq)]
<1> DEFINE n == Len(seq)
           Is(g, k) == g = [i \in 0..k |-> IF i = 0 THEN start ELSE EarlyLine(g[i - 1], seq[i])]
           T == {k \in Nat : \E g : Is(g, k)}
           r == CHOOSE g : Is(g, n)
<1>1. 0 \in T
  <2> DEFINE g == [i \in 0..0 |-> start]
  <2>1. Is(g, 0) OBVIOUS
  <2> HIDE DEF g
  <2> QED BY <2>1
<1>2. ASSUME NEW k \in Nat, k \in T PROVE k + 1 \in T
  <2>1. PICK g : Is(g, k) BY <1>2
  <2> DEFINE h == [i \in 0..(k + 1) |-> IF i = k + 1 THEN EarlyLine(g[k], seq[k + 1]) ELSE g[i]]
  <2>2. Is(h, k + 1)
    <3>1. ASSUME NEW i \in 0..k + 1
          PROVE  h[i] = IF i = 0 THEN start ELSE EarlyLine(h[i - 1], seq[i])
      <4>1. i \in 0..k => g[i] = IF i = 0 THEN start ELSE EarlyLine(g[i - 1], seq[i])
        BY <2>1
      <4>2. i # 0 => i - 1 \in 0..k /\ h[i - 1] = g[i - 1]
        OBVIOUS
      <4>3. CASE i = k + 1
        <5>1. i - 1 = k /\ i # 0 /\ h[i] = EarlyLine(g[k], seq[i]) BY <4>3
        <5> HIDE DEF h
        <5> QED BY <4>2, <5>1
      <4>4. CASE i # k + 1
        <5>1. i \in 0..k /\ h[i] = g[i] BY <4>4
        <5> HIDE DEF h
        <5> QED BY <4>1, <4>2, <5>1
      <4> QED BY <4>3, <4>4
    <3>2. h = [i \in 0..k + 1 |-> h[i]] OBVIOUS
    <3> HIDE DEF h
    <3> QED BY <3>1, <3>2
  <2> HIDE DEF h, Is
  <2> QED BY <2>2
<1>3. n \in T
  <2> HIDE DEF T
  <2> QED BY <1>1, <1>2, NatSet
<1>4. Is(r, n)
  <2>1. \E g : Is(g, n) BY <1>3
  <2> HIDE DEF Is
  <2> QED BY <2>1
<1>5. EarlyFold(start, seq) = r[n]
  BY DEF EarlyFold, Folded
<1> HIDE DEF r
<1>6. r[0] = start /\ \A i \in 1..n : r[i] = EarlyLine(r[i - 1], seq[i])
  BY <1>4
<1> QED BY <1>5, <1>6

(* The lines of boot.conf, parsed.                                           *)
ParseFold(start, seq) == Folded(ParseLine, start, seq)

(* So does the parser.                                                       *)
LEMMA ParseSteps ==
    ASSUME NEW start, NEW seq, Len(seq) \in Nat
    PROVE  \E r : /\ r[0] = start
                  /\ \A i \in 1..Len(seq) : r[i] = ParseLine(r[i - 1], seq[i])
                  /\ ParseFold(start, seq) = r[Len(seq)]
<1> DEFINE n == Len(seq)
           Is(g, k) == g = [i \in 0..k |-> IF i = 0 THEN start ELSE ParseLine(g[i - 1], seq[i])]
           T == {k \in Nat : \E g : Is(g, k)}
           r == CHOOSE g : Is(g, n)
<1>1. 0 \in T
  <2> DEFINE g == [i \in 0..0 |-> start]
  <2>1. Is(g, 0) OBVIOUS
  <2> HIDE DEF g
  <2> QED BY <2>1
<1>2. ASSUME NEW k \in Nat, k \in T PROVE k + 1 \in T
  <2>1. PICK g : Is(g, k) BY <1>2
  <2> DEFINE h == [i \in 0..(k + 1) |-> IF i = k + 1 THEN ParseLine(g[k], seq[k + 1]) ELSE g[i]]
  <2>2. Is(h, k + 1)
    <3>1. ASSUME NEW i \in 0..k + 1
          PROVE  h[i] = IF i = 0 THEN start ELSE ParseLine(h[i - 1], seq[i])
      <4>1. i \in 0..k => g[i] = IF i = 0 THEN start ELSE ParseLine(g[i - 1], seq[i])
        BY <2>1
      <4>2. i # 0 => i - 1 \in 0..k /\ h[i - 1] = g[i - 1]
        OBVIOUS
      <4>3. CASE i = k + 1
        <5>1. i - 1 = k /\ i # 0 /\ h[i] = ParseLine(g[k], seq[i]) BY <4>3
        <5> HIDE DEF h
        <5> QED BY <4>2, <5>1
      <4>4. CASE i # k + 1
        <5>1. i \in 0..k /\ h[i] = g[i] BY <4>4
        <5> HIDE DEF h
        <5> QED BY <4>1, <4>2, <5>1
      <4> QED BY <4>3, <4>4
    <3>2. h = [i \in 0..k + 1 |-> h[i]] OBVIOUS
    <3> HIDE DEF h
    <3> QED BY <3>1, <3>2
  <2> HIDE DEF h, Is
  <2> QED BY <2>2
<1>3. n \in T
  <2> HIDE DEF T
  <2> QED BY <1>1, <1>2, NatSet
<1>4. Is(r, n)
  <2>1. \E g : Is(g, n) BY <1>3
  <2> HIDE DEF Is
  <2> QED BY <2>1
<1>5. ParseFold(start, seq) = r[n]
  BY DEF ParseFold, Folded
<1> HIDE DEF r
<1>6. r[0] = start /\ \A i \in 1..n : r[i] = ParseLine(r[i - 1], seq[i])
  BY <1>4
<1> QED BY <1>5, <1>6

(* The lines of a theme, applied.                                            *)
ThemeFold(start, seq) == Folded(ThemeLine, start, seq)

(* So does the reading of a theme.                                           *)
LEMMA ThemeSteps ==
    ASSUME NEW start, NEW seq, Len(seq) \in Nat
    PROVE  \E r : /\ r[0] = start
                  /\ \A i \in 1..Len(seq) : r[i] = ThemeLine(r[i - 1], seq[i])
                  /\ ThemeFold(start, seq) = r[Len(seq)]
<1> DEFINE n == Len(seq)
           Is(g, k) == g = [i \in 0..k |-> IF i = 0 THEN start ELSE ThemeLine(g[i - 1], seq[i])]
           T == {k \in Nat : \E g : Is(g, k)}
           r == CHOOSE g : Is(g, n)
<1>1. 0 \in T
  <2> DEFINE g == [i \in 0..0 |-> start]
  <2>1. Is(g, 0) OBVIOUS
  <2> HIDE DEF g
  <2> QED BY <2>1
<1>2. ASSUME NEW k \in Nat, k \in T PROVE k + 1 \in T
  <2>1. PICK g : Is(g, k) BY <1>2
  <2> DEFINE h == [i \in 0..(k + 1) |-> IF i = k + 1 THEN ThemeLine(g[k], seq[k + 1]) ELSE g[i]]
  <2>2. Is(h, k + 1)
    <3>1. ASSUME NEW i \in 0..k + 1
          PROVE  h[i] = IF i = 0 THEN start ELSE ThemeLine(h[i - 1], seq[i])
      <4>1. i \in 0..k => g[i] = IF i = 0 THEN start ELSE ThemeLine(g[i - 1], seq[i])
        BY <2>1
      <4>2. i # 0 => i - 1 \in 0..k /\ h[i - 1] = g[i - 1]
        OBVIOUS
      <4>3. CASE i = k + 1
        <5>1. i - 1 = k /\ i # 0 /\ h[i] = ThemeLine(g[k], seq[i]) BY <4>3
        <5> HIDE DEF h
        <5> QED BY <4>2, <5>1
      <4>4. CASE i # k + 1
        <5>1. i \in 0..k /\ h[i] = g[i] BY <4>4
        <5> HIDE DEF h
        <5> QED BY <4>1, <4>2, <5>1
      <4> QED BY <4>3, <4>4
    <3>2. h = [i \in 0..k + 1 |-> h[i]] OBVIOUS
    <3> HIDE DEF h
    <3> QED BY <3>1, <3>2
  <2> HIDE DEF h, Is
  <2> QED BY <2>2
<1>3. n \in T
  <2> HIDE DEF T
  <2> QED BY <1>1, <1>2, NatSet
<1>4. Is(r, n)
  <2>1. \E g : Is(g, n) BY <1>3
  <2> HIDE DEF Is
  <2> QED BY <2>1
<1>5. ThemeFold(start, seq) = r[n]
  BY DEF ThemeFold, Folded
<1> HIDE DEF r
<1>6. r[0] = start /\ \A i \in 1..n : r[i] = ThemeLine(r[i - 1], seq[i])
  BY <1>4
<1> QED BY <1>5, <1>6

(* The lines of a manifest, read.                                            *)
SnapFold(start, seq) == Folded(SnapLine, start, seq)

(* So does load_snapshots, with the lines of the manifest.                   *)
LEMMA SnapSteps ==
    ASSUME NEW start, NEW seq, Len(seq) \in Nat
    PROVE  \E r : /\ r[0] = start
                  /\ \A i \in 1..Len(seq) : r[i] = SnapLine(r[i - 1], seq[i])
                  /\ SnapFold(start, seq) = r[Len(seq)]
<1> DEFINE n == Len(seq)
           Is(g, k) == g = [i \in 0..k |-> IF i = 0 THEN start ELSE SnapLine(g[i - 1], seq[i])]
           T == {k \in Nat : \E g : Is(g, k)}
           r == CHOOSE g : Is(g, n)
<1>1. 0 \in T
  <2> DEFINE g == [i \in 0..0 |-> start]
  <2>1. Is(g, 0) OBVIOUS
  <2> HIDE DEF g
  <2> QED BY <2>1
<1>2. ASSUME NEW k \in Nat, k \in T PROVE k + 1 \in T
  <2>1. PICK g : Is(g, k) BY <1>2
  <2> DEFINE h == [i \in 0..(k + 1) |-> IF i = k + 1 THEN SnapLine(g[k], seq[k + 1]) ELSE g[i]]
  <2>2. Is(h, k + 1)
    <3>1. ASSUME NEW i \in 0..k + 1
          PROVE  h[i] = IF i = 0 THEN start ELSE SnapLine(h[i - 1], seq[i])
      <4>1. i \in 0..k => g[i] = IF i = 0 THEN start ELSE SnapLine(g[i - 1], seq[i])
        BY <2>1
      <4>2. i # 0 => i - 1 \in 0..k /\ h[i - 1] = g[i - 1]
        OBVIOUS
      <4>3. CASE i = k + 1
        <5>1. i - 1 = k /\ i # 0 /\ h[i] = SnapLine(g[k], seq[i]) BY <4>3
        <5> HIDE DEF h
        <5> QED BY <4>2, <5>1
      <4>4. CASE i # k + 1
        <5>1. i \in 0..k /\ h[i] = g[i] BY <4>4
        <5> HIDE DEF h
        <5> QED BY <4>1, <4>2, <5>1
      <4> QED BY <4>3, <4>4
    <3>2. h = [i \in 0..k + 1 |-> h[i]] OBVIOUS
    <3> HIDE DEF h
    <3> QED BY <3>1, <3>2
  <2> HIDE DEF h, Is
  <2> QED BY <2>2
<1>3. n \in T
  <2> HIDE DEF T
  <2> QED BY <1>1, <1>2, NatSet
<1>4. Is(r, n)
  <2>1. \E g : Is(g, n) BY <1>3
  <2> HIDE DEF Is
  <2> QED BY <2>1
<1>5. SnapFold(start, seq) = r[n]
  BY DEF SnapFold, Folded
<1> HIDE DEF r
<1>6. r[0] = start /\ \A i \in 1..n : r[i] = SnapLine(r[i - 1], seq[i])
  BY <1>4
<1> QED BY <1>5, <1>6

(* The names of a directory, sorted.                                         *)
InsertFold(start, seq) == Folded(Insert, start, seq)

(* The sort inserts one name after the other.                                *)
LEMMA InsertSteps ==
    ASSUME NEW start, NEW seq, Len(seq) \in Nat
    PROVE  \E r : /\ r[0] = start
                  /\ \A i \in 1..Len(seq) : r[i] = Insert(r[i - 1], seq[i])
                  /\ InsertFold(start, seq) = r[Len(seq)]
<1> DEFINE n == Len(seq)
           Is(g, k) == g = [i \in 0..k |-> IF i = 0 THEN start ELSE Insert(g[i - 1], seq[i])]
           T == {k \in Nat : \E g : Is(g, k)}
           r == CHOOSE g : Is(g, n)
<1>1. 0 \in T
  <2> DEFINE g == [i \in 0..0 |-> start]
  <2>1. Is(g, 0) OBVIOUS
  <2> HIDE DEF g
  <2> QED BY <2>1
<1>2. ASSUME NEW k \in Nat, k \in T PROVE k + 1 \in T
  <2>1. PICK g : Is(g, k) BY <1>2
  <2> DEFINE h == [i \in 0..(k + 1) |-> IF i = k + 1 THEN Insert(g[k], seq[k + 1]) ELSE g[i]]
  <2>2. Is(h, k + 1)
    <3>1. ASSUME NEW i \in 0..k + 1
          PROVE  h[i] = IF i = 0 THEN start ELSE Insert(h[i - 1], seq[i])
      <4>1. i \in 0..k => g[i] = IF i = 0 THEN start ELSE Insert(g[i - 1], seq[i])
        BY <2>1
      <4>2. i # 0 => i - 1 \in 0..k /\ h[i - 1] = g[i - 1]
        OBVIOUS
      <4>3. CASE i = k + 1
        <5>1. i - 1 = k /\ i # 0 /\ h[i] = Insert(g[k], seq[i]) BY <4>3
        <5> HIDE DEF h
        <5> QED BY <4>2, <5>1
      <4>4. CASE i # k + 1
        <5>1. i \in 0..k /\ h[i] = g[i] BY <4>4
        <5> HIDE DEF h
        <5> QED BY <4>1, <4>2, <5>1
      <4> QED BY <4>3, <4>4
    <3>2. h = [i \in 0..k + 1 |-> h[i]] OBVIOUS
    <3> HIDE DEF h
    <3> QED BY <3>1, <3>2
  <2> HIDE DEF h, Is
  <2> QED BY <2>2
<1>3. n \in T
  <2> HIDE DEF T
  <2> QED BY <1>1, <1>2, NatSet
<1>4. Is(r, n)
  <2>1. \E g : Is(g, n) BY <1>3
  <2> HIDE DEF Is
  <2> QED BY <2>1
<1>5. InsertFold(start, seq) = r[n]
  BY DEF InsertFold, Folded
<1> HIDE DEF r
<1>6. r[0] = start /\ \A i \in 1..n : r[i] = Insert(r[i - 1], seq[i])
  BY <1>4
<1> QED BY <1>5, <1>6

(* The places of one attempt, scanned.                                       *)
ScanFold(start, seq, words) == Folded(LAMBDA a, p : ScanDir(a, words, p), start, seq)

(* An attempt scans one place after the other.                               *)
LEMMA ScanSteps ==
    ASSUME NEW words, NEW start, NEW seq, Len(seq) \in Nat
    PROVE  \E r : /\ r[0] = start
                  /\ \A i \in 1..Len(seq) : r[i] = ScanDir(r[i - 1], words, seq[i])
                  /\ ScanFold(start, seq, words) = r[Len(seq)]
<1> DEFINE n == Len(seq)
           Is(g, k) == g = [i \in 0..k |-> IF i = 0 THEN start ELSE ScanDir(g[i - 1], words, seq[i])]
           T == {k \in Nat : \E g : Is(g, k)}
           r == CHOOSE g : Is(g, n)
<1>1. 0 \in T
  <2> DEFINE g == [i \in 0..0 |-> start]
  <2>1. Is(g, 0) OBVIOUS
  <2> HIDE DEF g
  <2> QED BY <2>1
<1>2. ASSUME NEW k \in Nat, k \in T PROVE k + 1 \in T
  <2>1. PICK g : Is(g, k) BY <1>2
  <2> DEFINE h == [i \in 0..(k + 1) |-> IF i = k + 1 THEN ScanDir(g[k], words, seq[k + 1]) ELSE g[i]]
  <2>2. Is(h, k + 1)
    <3>1. ASSUME NEW i \in 0..k + 1
          PROVE  h[i] = IF i = 0 THEN start ELSE ScanDir(h[i - 1], words, seq[i])
      <4>1. i \in 0..k => g[i] = IF i = 0 THEN start ELSE ScanDir(g[i - 1], words, seq[i])
        BY <2>1
      <4>2. i # 0 => i - 1 \in 0..k /\ h[i - 1] = g[i - 1]
        OBVIOUS
      <4>3. CASE i = k + 1
        <5>1. i - 1 = k /\ i # 0 /\ h[i] = ScanDir(g[k], words, seq[i]) BY <4>3
        <5> HIDE DEF h
        <5> QED BY <4>2, <5>1
      <4>4. CASE i # k + 1
        <5>1. i \in 0..k /\ h[i] = g[i] BY <4>4
        <5> HIDE DEF h
        <5> QED BY <4>1, <4>2, <5>1
      <4> QED BY <4>3, <4>4
    <3>2. h = [i \in 0..k + 1 |-> h[i]] OBVIOUS
    <3> HIDE DEF h
    <3> QED BY <3>1, <3>2
  <2> HIDE DEF h, Is
  <2> QED BY <2>2
<1>3. n \in T
  <2> HIDE DEF T
  <2> QED BY <1>1, <1>2, NatSet
<1>4. Is(r, n)
  <2>1. \E g : Is(g, n) BY <1>3
  <2> HIDE DEF Is
  <2> QED BY <2>1
<1>5. ScanFold(start, seq, words) = r[n]
  BY DEF ScanFold, Folded
<1> HIDE DEF r
<1>6. r[0] = start /\ \A i \in 1..n : r[i] = ScanDir(r[i - 1], words, seq[i])
  BY <1>4
<1> QED BY <1>5, <1>6

(* The attempts at all volumes.                                              *)
AttemptFold(start, seq, words) == Folded(LAMBDA a, p : Attempt(a, words, p), start, seq)

(* The autodetection makes one attempt after the other.                      *)
LEMMA AttemptSteps ==
    ASSUME NEW words, NEW start, NEW seq, Len(seq) \in Nat
    PROVE  \E r : /\ r[0] = start
                  /\ \A i \in 1..Len(seq) : r[i] = Attempt(r[i - 1], words, seq[i])
                  /\ AttemptFold(start, seq, words) = r[Len(seq)]
<1> DEFINE n == Len(seq)
           Is(g, k) == g = [i \in 0..k |-> IF i = 0 THEN start ELSE Attempt(g[i - 1], words, seq[i])]
           T == {k \in Nat : \E g : Is(g, k)}
           r == CHOOSE g : Is(g, n)
<1>1. 0 \in T
  <2> DEFINE g == [i \in 0..0 |-> start]
  <2>1. Is(g, 0) OBVIOUS
  <2> HIDE DEF g
  <2> QED BY <2>1
<1>2. ASSUME NEW k \in Nat, k \in T PROVE k + 1 \in T
  <2>1. PICK g : Is(g, k) BY <1>2
  <2> DEFINE h == [i \in 0..(k + 1) |-> IF i = k + 1 THEN Attempt(g[k], words, seq[k + 1]) ELSE g[i]]
  <2>2. Is(h, k + 1)
    <3>1. ASSUME NEW i \in 0..k + 1
          PROVE  h[i] = IF i = 0 THEN start ELSE Attempt(h[i - 1], words, seq[i])
      <4>1. i \in 0..k => g[i] = IF i = 0 THEN start ELSE Attempt(g[i - 1], words, seq[i])
        BY <2>1
      <4>2. i # 0 => i - 1 \in 0..k /\ h[i - 1] = g[i - 1]
        OBVIOUS
      <4>3. CASE i = k + 1
        <5>1. i - 1 = k /\ i # 0 /\ h[i] = Attempt(g[k], words, seq[i]) BY <4>3
        <5> HIDE DEF h
        <5> QED BY <4>2, <5>1
      <4>4. CASE i # k + 1
        <5>1. i \in 0..k /\ h[i] = g[i] BY <4>4
        <5> HIDE DEF h
        <5> QED BY <4>1, <4>2, <5>1
      <4> QED BY <4>3, <4>4
    <3>2. h = [i \in 0..k + 1 |-> h[i]] OBVIOUS
    <3> HIDE DEF h
    <3> QED BY <3>1, <3>2
  <2> HIDE DEF h, Is
  <2> QED BY <2>2
<1>3. n \in T
  <2> HIDE DEF T
  <2> QED BY <1>1, <1>2, NatSet
<1>4. Is(r, n)
  <2>1. \E g : Is(g, n) BY <1>3
  <2> HIDE DEF Is
  <2> QED BY <2>1
<1>5. AttemptFold(start, seq, words) = r[n]
  BY DEF AttemptFold, Folded
<1> HIDE DEF r
<1>6. r[0] = start /\ \A i \in 1..n : r[i] = Attempt(r[i - 1], words, seq[i])
  BY <1>4
<1> QED BY <1>5, <1>6

-----------------------------------------------------------------------------
(* The two passes over boot.conf, line by line: config_early_flags and the   *)
(* parser.                                                                   *)

(* The keys of a block do not touch how it is closed or whether it is for    *)
(* Windows.                                                                  *)
LEMMA BlockApart == ASSUME NEW word, NEW v PROVE {"braced", "windows"} \cap DOMAIN BlockKey(word, v) = {}
BY DEF BlockKey, BlockSwitches, BlockTexts, Set, Unchanged

(* What the first pass holds: two flags, and whether it is in a block.       *)
Early(a) == a = [log |-> a.log, checkpoints |-> a.checkpoints, inside |-> a.inside]

(* What the parser holds.                                                    *)
Parsing(p) ==
    p = [settings |-> p.settings, entries |-> p.entries, inside |-> p.inside, block |-> p.block]

(* The passes after the same lines: the same flags, both inside a block with *)
(* braces or both outside.                                                   *)
Agree(a, p) ==
    /\ Early(a) /\ Parsing(p) /\ a.inside \in BOOLEAN /\ p.inside = a.inside
    /\ p.inside => "braced" \in DOMAIN p.block /\ p.block.braced = TRUE
    /\ a.log = Get(p.settings, "log") /\ a.checkpoints = Get(p.settings, "checkpoints")

(* A line keeps the two passes together, unless it is the header of a block  *)
(* without braces.                                                           *)
LEMMA AgreeLine ==
    ASSUME NEW a, NEW p, NEW l, Agree(a, p), l.kind # "header"
    PROVE  Agree(EarlyLine(a, l), ParseLine(p, l))
<1> DEFINE b == EarlyLine(a, l)
           q == ParseLine(p, l)
<1> SUFFICES Agree(b, q) OBVIOUS
<1>1. CASE a.inside /\ l.kind = "close"
  <2>1. b = [a EXCEPT !.inside = FALSE] BY <1>1 DEF EarlyLine
  <2>2. q = EndBlock(p) BY <1>1 DEF ParseLine, Ends, Agree
  <2> HIDE DEF b, q
  <2> QED BY <2>1, <2>2 DEF EndBlock, Agree, Early, Parsing
<1>2. CASE a.inside /\ l.kind # "close"
  <2>1. b = [a EXCEPT !.inside = TRUE] BY <1>2 DEF EarlyLine
  <2>2. \/ q = p
        \/ q = [p EXCEPT !.block = BlockKey(l.key, l.value) ++ @]
    BY <1>2 DEF ParseLine, Ends, Agree
  <2>3. LET c == BlockKey(l.key, l.value) ++ p.block
        IN  "braced" \in DOMAIN c /\ c.braced = TRUE
    BY <1>2, BlockApart DEF ++, Agree
  <2> HIDE DEF b, q
  <2> QED BY <1>2, <2>1, <2>2, <2>3 DEF Agree, Early, Parsing
<1>3. CASE ~a.inside /\ IsHeader(l)
  <2>1. b = [a EXCEPT !.inside = TRUE] BY <1>3 DEF EarlyLine
  <2>2. l.kind = "open" BY <1>3 DEF IsHeader
  <2>3. q = [p EXCEPT !.inside = TRUE,
                      !.block = [braced |-> l.kind = "open", windows |-> l.key = "windows"]]
    BY <1>3, <2>2 DEF ParseLine, Agree
  <2> HIDE DEF b, q
  <2> QED BY <2>1, <2>2, <2>3 DEF Agree, Early, Parsing
<1>4. CASE ~a.inside /\ ~IsHeader(l) /\ l.kind = "key"
  <2>1. b = EarlyKey(a, l.key, l.value) BY <1>4 DEF EarlyLine
  <2>2. q = [p EXCEPT !.settings = Applied(@, l.key, l.value)]
    BY <1>4 DEF ParseLine, Agree
  <2> DEFINE t == Applied(p.settings, l.key, l.value)
  <2>3. /\ Get(t, "log") = IF Named(l.key) = "log" THEN Lower(l.value)
                           ELSE IF l.key = "no_log" THEN ~Lower(l.value)
                           ELSE Get(p.settings, "log")
        /\ Get(t, "checkpoints") = IF Named(l.key) = "checkpoints" THEN AnyCase(l.value)
                                   ELSE Get(p.settings, "checkpoints")
    BY AppliedIs
  <2>4. Parsing(q) /\ q.settings = t /\ q.inside = p.inside /\ q.block = p.block
    BY <2>2 DEF Agree, Parsing
  <2>5. /\ Early(b) /\ b.inside = a.inside
        /\ b.log = IF Named(l.key) = "log" THEN Lower(l.value)
                   ELSE IF l.key = "no_log" THEN ~Lower(l.value) ELSE a.log
        /\ b.checkpoints = IF Named(l.key) = "checkpoints" THEN AnyCase(l.value)
                           ELSE a.checkpoints
    <3>1. l.key = "no_log" <=> Named(l.key) = "no_log" BY NamedIs
    <3> HIDE DEF b
    <3> QED BY <2>1, <3>1 DEF EarlyKey, Agree, Early
  <2> HIDE DEF b, q, t
  <2> QED BY <1>4, <2>3, <2>4, <2>5 DEF Agree
<1>5. CASE ~a.inside /\ ~IsHeader(l) /\ l.kind # "key"
  <2>1. b = a /\ q = p BY <1>5 DEF EarlyLine, ParseLine, Agree
  <2> HIDE DEF b, q
  <2> QED BY <2>1
<1> QED BY <1>1, <1>2, <1>3, <1>4, <1>5 DEF Agree

(* The two passes over a file without such headers end with the same flags.  *)
LEMMA PassesAgree ==
    ASSUME NEW conf, conf # Nothing, IsSeq(conf), \A l \in Range(conf) : l.kind # "header"
    PROVE  /\ EarlyFlags(conf).log = Get(Parsed(conf).settings, "log")
           /\ EarlyFlags(conf).checkpoints = Get(Parsed(conf).settings, "checkpoints")
<1> DEFINE n == Len(conf)
           ea == [log |-> TRUE, checkpoints |-> TRUE, inside |-> FALSE]
           pa == [settings |-> Unchanged, entries |-> <<>>, inside |-> FALSE, block |-> Unchanged]
<1>1. n \in Nat /\ \A i \in 1..n : conf[i].kind # "header"
  <2>1. conf \in Seq(Range(conf)) BY DEF IsSeq
  <2> QED BY <2>1, LenProperties, ElementOfSeq
<1>2. PICK r : /\ r[0] = ea
               /\ \A i \in 1..n : r[i] = EarlyLine(r[i - 1], conf[i])
               /\ EarlyFold(ea, conf) = r[n]
  <2> HIDE DEF ea
  <2> QED BY <1>1, EarlySteps
<1>3. PICK s : /\ s[0] = pa
               /\ \A i \in 1..n : s[i] = ParseLine(s[i - 1], conf[i])
               /\ ParseFold(pa, conf) = s[n]
  <2> HIDE DEF pa
  <2> QED BY <1>1, ParseSteps
<1> DEFINE T == {k \in Nat : k <= n => Agree(r[k], s[k])}
<1>4. 0 \in T
  <2>1. Get(Unchanged, "log") = TRUE /\ Get(Unchanged, "checkpoints") = TRUE
    <3>1. DOMAIN Unchanged = {} BY DEF Unchanged
    <3> QED BY <3>1 DEF Get, Defaults
  <2>2. Agree(ea, pa)
    BY <2>1 DEF Agree, Early, Parsing
  <2> HIDE DEF ea, pa
  <2> QED BY <1>2, <1>3, <2>2
<1>5. ASSUME NEW k \in Nat, k \in T PROVE k + 1 \in T
  <2>1. SUFFICES ASSUME k + 1 <= n PROVE Agree(r[k + 1], s[k + 1]) OBVIOUS
  <2>2. Agree(r[k], s[k]) /\ k + 1 \in 1..n /\ (k + 1) - 1 = k BY <1>1, <1>5, <2>1
  <2>3. r[k + 1] = EarlyLine(r[k], conf[k + 1]) /\ s[k + 1] = ParseLine(s[k], conf[k + 1])
    <3> HIDE DEF ea, pa
    <3> QED BY <1>2, <1>3, <2>2
  <2> QED BY <1>1, <2>2, <2>3, AgreeLine
<1>6. Agree(r[n], s[n])
  <2>1. n \in T
    <3> HIDE DEF T
    <3> QED BY <1>1, <1>4, <1>5, NatSet
  <2> QED BY <1>1, <2>1
<1>7. EarlyFlags(conf) = r[n]
  BY <1>2 DEF EarlyFlags, EarlyFold, Folded
<1>8. Parsed(conf).settings = s[n].settings
  <2>1. Parsed(conf) = IF s[n].inside THEN EndBlock(s[n]) ELSE s[n]
    BY <1>3 DEF Parsed, ParseFold, Folded
  <2>2. EndBlock(s[n]).settings = s[n].settings
    BY <1>6 DEF EndBlock, Agree, Parsing
  <2> QED BY <2>1, <2>2
<1> QED BY <1>6, <1>7, <1>8 DEF Agree

-----------------------------------------------------------------------------
(* Sequences: what the operators of the library return.                      *)

(* A sequence: its domain, its elements, itself as a function.               *)
LEMMA SeqIs ==
    ASSUME NEW s, IsSeq(s)
    PROVE  /\ Len(s) \in Nat /\ DOMAIN s = 1..Len(s) /\ s \in Seq(Range(s))
           /\ \A i \in 1..Len(s) : s[i] \in Range(s)
           /\ \A x \in Range(s) : \E i \in 1..Len(s) : x = s[i]
           /\ s = [i \in 1..Len(s) |-> s[i]]
<1>1. s \in Seq(Range(s))
  BY DEF IsSeq
<1>2. Len(s) \in Nat /\ DOMAIN s = 1..Len(s)
  BY <1>1, LenProperties
<1>3. s = [i \in 1..Len(s) |-> s[i]]
  BY <1>1, <1>2
<1> QED BY <1>1, <1>2, <1>3 DEF Range

(* A sequence over a set is a sequence.                                      *)
LEMMA SeqFrom ==
    ASSUME NEW S, NEW s \in Seq(S)
    PROVE  IsSeq(s) /\ Range(s) \subseteq S
<1>1. Len(s) \in Nat /\ DOMAIN s = 1..Len(s) /\ \A i \in 1..Len(s) : s[i] \in S
  BY LenProperties, ElementOfSeq
<1>2. Range(s) \subseteq S
  BY <1>1 DEF Range
<1>3. s \in Seq(Range(s))
  <2>1. \A i \in 1..Len(s) : s[i] \in Range(s) BY <1>1 DEF Range
  <2>2. s = [i \in 1..Len(s) |-> s[i]] BY <1>1
  <2> HIDE DEF Range
  <2> QED BY <1>1, <2>1, <2>2, IsASeq
<1> QED BY <1>2, <1>3 DEF IsSeq

(* A function from 1..n is a sequence.                                       *)
LEMMA FcnIs ==
    ASSUME NEW n \in Nat, NEW f, f = [i \in 1..n |-> f[i]]
    PROVE  IsSeq(f) /\ Len(f) = n
<1>1. \A i \in 1..n : f[i] \in Range(f)
  BY DEF Range
<1>2. f \in Seq(Range(f))
  BY <1>1, IsASeq
<1>3. Len(f) = n
  <2>1. DOMAIN f = 1..n OBVIOUS
  <2>2. Len(f) \in Nat /\ DOMAIN f = 1..Len(f) BY <1>2, LenProperties
  <2> QED BY <2>1, <2>2
<1> QED BY <1>2, <1>3 DEF IsSeq

(* The empty sequence.                                                       *)
LEMMA EmptyIs == IsSeq(<<>>) /\ Len(<<>>) = 0 /\ Range(<<>>) = {}
<1>1. IsSeq(<<>>) BY EmptySeq DEF IsSeq
<1>2. DOMAIN <<>> = {} /\ Len(<<>>) = 0 OBVIOUS
<1>3. Range(<<>>) = {} BY <1>2 DEF Range
<1> QED BY <1>1, <1>2, <1>3

(* A sequence of one element.                                                *)
LEMMA OneIs ==
    ASSUME NEW x
    PROVE  IsSeq(<<x>>) /\ Len(<<x>>) = 1 /\ <<x>>[1] = x /\ Range(<<x>>) = {x}
<1>1. <<x>> \in Seq({x}) OBVIOUS
<1>2. IsSeq(<<x>>) /\ Range(<<x>>) \subseteq {x} BY <1>1, SeqFrom
<1>3. <<x>>[1] = x /\ Len(<<x>>) = 1 OBVIOUS
<1>4. x \in Range(<<x>>) BY <1>2, <1>3, SeqIs
<1> QED BY <1>2, <1>3, <1>4

(* Two sequences joined: length, elements, range.                            *)
LEMMA ConcatIs ==
    ASSUME NEW s, NEW t, IsSeq(s), IsSeq(t)
    PROVE  /\ IsSeq(s \o t) /\ Len(s \o t) = Len(s) + Len(t)
           /\ \A i \in 1..Len(s) : (s \o t)[i] = s[i]
           /\ \A i \in 1..Len(t) : (s \o t)[Len(s) + i] = t[i]
           /\ Range(s \o t) = Range(s) \cup Range(t)
<1> DEFINE S == Range(s) \cup Range(t)
           u == s \o t
<1>1. s \in Seq(S) /\ t \in Seq(S)
  BY SeqMonotonic DEF IsSeq
<1>2. Len(s) \in Nat /\ Len(t) \in Nat
  BY SeqIs
<1>3. /\ u \in Seq(S) /\ Len(u) = Len(s) + Len(t)
      /\ \A i \in 1..Len(s) + Len(t) : u[i] = IF i <= Len(s) THEN s[i] ELSE t[i - Len(s)]
  <2> HIDE DEF S
  <2> QED BY <1>1, ConcatProperties
<1>4. IsSeq(u) /\ Range(u) \subseteq S
  <2> HIDE DEF S, u
  <2> QED BY <1>3, SeqFrom
<1>5. \A i \in 1..Len(s) : u[i] = s[i]
  BY <1>2, <1>3
<1>6. \A i \in 1..Len(t) : u[Len(s) + i] = t[i]
  BY <1>2, <1>3
<1>7. \A i \in 1..Len(u) : u[i] \in Range(u)
  <2> HIDE DEF u
  <2> QED BY <1>4, SeqIs
<1>8. S \subseteq Range(u)
  <2>1. ASSUME NEW x \in Range(s) PROVE x \in Range(u)
    <3>1. PICK i \in 1..Len(s) : x = s[i] BY SeqIs
    <3>2. i \in 1..Len(u) BY <1>2, <1>3
    <3> HIDE DEF u
    <3> QED BY <1>5, <1>7, <3>1, <3>2
  <2>2. ASSUME NEW x \in Range(t) PROVE x \in Range(u)
    <3>1. PICK i \in 1..Len(t) : x = t[i] BY SeqIs
    <3>2. Len(s) + i \in 1..Len(u) BY <1>2, <1>3
    <3> HIDE DEF u
    <3> QED BY <1>6, <1>7, <3>1, <3>2
  <2> QED BY <2>1, <2>2
<1> HIDE DEF u
<1> QED BY <1>3, <1>4, <1>5, <1>6, <1>8 DEF u

(* The start of a sequence.                                                  *)
LEMMA SubSeqIs ==
    ASSUME NEW s, IsSeq(s), NEW n \in Nat, n <= Len(s)
    PROVE  /\ IsSeq(SubSeq(s, 1, n)) /\ Len(SubSeq(s, 1, n)) = n
           /\ \A i \in 1..n : SubSeq(s, 1, n)[i] = s[i]
           /\ Range(SubSeq(s, 1, n)) \subseteq Range(s)
<1> DEFINE u == SubSeq(s, 1, n)
<1>1. Len(s) \in Nat /\ s \in Seq(Range(s)) /\ \A i \in 1..Len(s) : s[i] \in Range(s)
  BY SeqIs
<1>2. /\ u \in Seq(Range(s)) /\ Len(u) = IF 1 <= n THEN n - 1 + 1 ELSE 0
      /\ \A i \in 1..(n - 1 + 1) : u[i] = s[1 + i - 1]
  <2>1. \A i \in 1..n : s[i] \in Range(s) BY <1>1
  <2> QED BY <1>1, <2>1, SubSeqProperties
<1>3. \A i \in 1..n : i \in 1..(n - 1 + 1) /\ 1 + i - 1 = i
  OBVIOUS
<1>4. Len(u) = n BY <1>2
<1>5. IsSeq(u) /\ Range(u) \subseteq Range(s)
  <2> HIDE DEF u
  <2> QED BY <1>2, SeqFrom
<1> QED BY <1>2, <1>3, <1>4, <1>5

(* Two sequences of the same elements are the same.                          *)
LEMMA SameSeq ==
    ASSUME NEW s, NEW t, IsSeq(s), IsSeq(t), Len(s) = Len(t),
           \A i \in 1..Len(s) : s[i] = t[i]
    PROVE  s = t
<1>1. s = [i \in 1..Len(s) |-> s[i]] /\ t = [i \in 1..Len(t) |-> t[i]]
  BY SeqIs
<1> QED BY <1>1

(* Joining an empty sequence changes nothing.                                *)
LEMMA ConcatEmptyIs == ASSUME NEW s, IsSeq(s) PROVE s \o <<>> = s /\ <<>> \o s = s
  BY ConcatEmptySeq DEF IsSeq

(* Joining is associative.                                                   *)
LEMMA ConcatAssoc ==
    ASSUME NEW s, NEW t, NEW u, IsSeq(s), IsSeq(t), IsSeq(u)
    PROVE  (s \o t) \o u = s \o (t \o u)
<1> DEFINE S == Range(s) \cup Range(t) \cup Range(u)
<1>1. s \in Seq(S) /\ t \in Seq(S) /\ u \in Seq(S)
  <2>1. Range(s) \subseteq S /\ Range(t) \subseteq S /\ Range(u) \subseteq S OBVIOUS
  <2> HIDE DEF S
  <2> QED BY <2>1, SeqMonotonic DEF IsSeq
<1> HIDE DEF S
<1> QED BY <1>1, ConcatAssociative

(* Appending joins one element.                                              *)
LEMMA AppendIs == ASSUME NEW s, NEW x, IsSeq(s) PROVE Append(s, x) = s \o <<x>>
<1>1. s \in Seq(Range(s) \cup {x}) /\ x \in Range(s) \cup {x}
  BY SeqMonotonic DEF IsSeq
<1> QED BY <1>1, AppendIsConcat

(* A sequence of sequences.                                                  *)
Parts(ss) == IsSeq(ss) /\ \A i \in 1..Len(ss) : IsSeq(ss[i])

(* F[k] is the first k parts joined.                                         *)
Flat(ss, f) ==
    /\ f[0] = <<>> /\ \A i \in 0..Len(ss) : IsSeq(f[i])
    /\ \A i \in 1..Len(ss) : f[i] = f[i - 1] \o ss[i]
    /\ FlattenSeq(ss) = f[Len(ss)]

(* Flattening joins one part after the other.                                *)
LEMMA FlatSteps == ASSUME NEW ss, Parts(ss) PROVE \E f : Flat(ss, f)
<1> DEFINE n == Len(ss)
           Is(g, k) == g = [i \in 1..k |-> IF i = 1 THEN ss[i] ELSE g[i - 1] \o ss[i]]
           T == {k \in Nat : \E g : Is(g, k)}
           r == CHOOSE g : Is(g, n)
<1>0. n \in Nat BY SeqIs DEF Parts
<1>1. 0 \in T
  <2> DEFINE g == [i \in 1..0 |-> <<>>]
  <2>1. Is(g, 0) OBVIOUS
  <2> HIDE DEF g
  <2> QED BY <2>1
<1>2. ASSUME NEW k \in Nat, k \in T PROVE k + 1 \in T
  <2>1. PICK g : Is(g, k) BY <1>2
  <2> DEFINE h == [i \in 1..(k + 1) |->
                     IF i = k + 1 THEN IF i = 1 THEN ss[i] ELSE g[k] \o ss[k + 1] ELSE g[i]]
  <2>2. Is(h, k + 1)
    <3>1. ASSUME NEW i \in 1..k + 1
          PROVE  h[i] = IF i = 1 THEN ss[i] ELSE h[i - 1] \o ss[i]
      <4>1. i \in 1..k => g[i] = IF i = 1 THEN ss[i] ELSE g[i - 1] \o ss[i]
        BY <2>1
      <4>2. i # 1 => i - 1 \in 1..k /\ h[i - 1] = g[i - 1]
        OBVIOUS
      <4>3. CASE i = k + 1
        <5>1. i - 1 = k /\ h[i] = IF i = 1 THEN ss[i] ELSE g[k] \o ss[i] BY <4>3
        <5> HIDE DEF h
        <5> QED BY <4>2, <5>1
      <4>4. CASE i # k + 1
        <5>1. i \in 1..k /\ h[i] = g[i] BY <4>4
        <5> HIDE DEF h
        <5> QED BY <4>1, <4>2, <5>1
      <4> QED BY <4>3, <4>4
    <3>2. h = [i \in 1..k + 1 |-> h[i]] OBVIOUS
    <3> HIDE DEF h
    <3> QED BY <3>1, <3>2
  <2> HIDE DEF h, Is
  <2> QED BY <2>2
<1>3. n \in T
  <2> HIDE DEF T
  <2> QED BY <1>0, <1>1, <1>2, NatSet
<1>4. Is(r, n)
  <2>1. \E g : Is(g, n) BY <1>3
  <2> HIDE DEF Is
  <2> QED BY <2>1
<1>5. FlattenSeq(ss) = IF n = 0 THEN ss ELSE r[n]
  BY DEF FlattenSeq
<1> DEFINE f == [i \in 0..n |-> IF i = 0 THEN <<>> ELSE r[i]]
<1>6. f[0] = <<>>
  BY <1>0
<1>7. ASSUME NEW i \in 1..n PROVE f[i] = f[i - 1] \o ss[i]
  <2>1. r[i] = IF i = 1 THEN ss[i] ELSE r[i - 1] \o ss[i]
    <3> HIDE DEF r
    <3> QED BY <1>4
  <2>2. f[i] = r[i] /\ f[i - 1] = IF i = 1 THEN <<>> ELSE r[i - 1]
    <3> HIDE DEF r
    <3> QED BY <1>0
  <2>3. IsSeq(ss[i]) BY DEF Parts
  <2> HIDE DEF r, f
  <2> QED BY <2>1, <2>2, <2>3, ConcatEmptyIs
<1>8. ASSUME NEW i \in 0..n PROVE IsSeq(f[i])
  <2> DEFINE U == {k \in Nat : k <= n => IsSeq(f[k])}
  <2> HIDE DEF f
  <2>1. 0 \in U BY <1>6, EmptyIs
  <2>2. ASSUME NEW k \in Nat, k \in U PROVE k + 1 \in U
    <3>1. SUFFICES ASSUME k + 1 <= n PROVE IsSeq(f[k + 1]) OBVIOUS
    <3>2. k + 1 \in 1..n /\ (k + 1) - 1 = k /\ IsSeq(f[k]) BY <1>0, <2>2, <3>1
    <3>3. IsSeq(ss[k + 1]) BY <3>2 DEF Parts
    <3>4. f[k + 1] = f[k] \o ss[k + 1] BY <1>7, <3>2
    <3> QED BY <3>2, <3>3, <3>4, ConcatIs
  <2>3. i \in U
    <3>1. i \in Nat BY <1>0
    <3> HIDE DEF U
    <3> QED BY <2>1, <2>2, <3>1, NatSet
  <2> QED BY <1>0, <2>3
<1>9. FlattenSeq(ss) = f[n]
  <2>1. CASE n = 0
    <3>1. ss = <<>> BY <2>1, EmptyIs, SameSeq DEF Parts
    <3> QED BY <1>5, <1>6, <2>1, <3>1
  <2>2. CASE n # 0
    <3>1. f[n] = r[n]
      <4> HIDE DEF r
      <4> QED BY <1>0, <2>2
    <3> HIDE DEF f, r
    <3> QED BY <1>5, <2>2, <3>1
  <2> QED BY <2>1, <2>2
<1> HIDE DEF f
<1>10. Flat(ss, f)
  BY <1>6, <1>7, <1>8, <1>9 DEF Flat
<1> QED BY <1>10

(* What flattening returns: a sequence of the elements of all parts.         *)
LEMMA FlatIs ==
    ASSUME NEW ss, Parts(ss)
    PROVE  /\ IsSeq(FlattenSeq(ss))
           /\ Range(FlattenSeq(ss)) = UNION {Range(ss[i]) : i \in 1..Len(ss)}
<1> DEFINE n == Len(ss)
<1>0. n \in Nat BY SeqIs DEF Parts
<1>1. PICK f : Flat(ss, f) BY FlatSteps
<1> DEFINE U == {k \in Nat : k <= n =>
                   Range(f[k]) = UNION {Range(ss[i]) : i \in 1..k}}
<1>2. 0 \in U
  BY <1>1, EmptyIs DEF Flat
<1>3. ASSUME NEW k \in Nat, k \in U PROVE k + 1 \in U
  <2>1. SUFFICES ASSUME k + 1 <= n
                 PROVE  Range(f[k + 1]) = UNION {Range(ss[i]) : i \in 1..k + 1}
    OBVIOUS
  <2>2. k + 1 \in 1..n /\ (k + 1) - 1 = k /\ k \in 0..n BY <1>0, <2>1
  <2>3. f[k + 1] = f[k] \o ss[k + 1] /\ IsSeq(f[k]) /\ IsSeq(ss[k + 1])
    BY <1>1, <2>2 DEF Flat, Parts
  <2>4. Range(f[k + 1]) = Range(f[k]) \cup Range(ss[k + 1])
    BY <2>3, ConcatIs
  <2>5. Range(f[k]) = UNION {Range(ss[i]) : i \in 1..k}
    BY <1>0, <1>3, <2>1
  <2>6. 1..k + 1 = (1..k) \cup {k + 1} OBVIOUS
  <2> QED BY <2>4, <2>5, <2>6
<1>4. n \in U
  <2> HIDE DEF U
  <2> QED BY <1>0, <1>2, <1>3, NatSet
<1> QED BY <1>0, <1>1, <1>4 DEF Flat

-----------------------------------------------------------------------------
(* Flattening a sequence of empty and one-element sequences.                 *)

(* The empty parts among the first k.                                        *)
Gone(ss, k) == {i \in 1..k : ss[i] = <<>>}

(* Up[k] parts of the first k are not empty, and part k, if it is one, has   *)
(* become element up[k].                                                     *)
Thin(ss, up) ==
    LET n == Len(ss)
        all == FlattenSeq(ss)
    IN  /\ up[0] = 0 /\ Len(all) = up[n]
        /\ \A k \in 0..n : up[k] \in 0..k /\ up[k] <= up[n] /\ Cardinality(Gone(ss, k)) = k - up[k]
        /\ \A k \in 1..n :
             \/ up[k] = up[k - 1] /\ ss[k] = <<>>
             \/ up[k] = up[k - 1] + 1 /\ ss[k] = <<all[up[k]]>>

(* The empty parts, counted one part after the other.                        *)
LEMMA GoneIs ==
    ASSUME NEW ss, NEW k \in Nat
    PROVE  /\ Gone(ss, 0) = {} /\ IsFiniteSet(Gone(ss, k)) /\ Cardinality(Gone(ss, 0)) = 0
           /\ Cardinality(Gone(ss, k + 1))
             = Cardinality(Gone(ss, k)) + (IF ss[k + 1] = <<>> THEN 1 ELSE 0)
           /\ Cardinality(Gone(ss, k)) \in Nat
<1>1. IsFiniteSet(1..k) BY FS_Interval
<1>2. Gone(ss, k) \subseteq 1..k BY DEF Gone
<1>3. IsFiniteSet(Gone(ss, k)) /\ Cardinality(Gone(ss, k)) \in Nat
  BY <1>1, <1>2, FS_Subset, FS_CardinalityType
<1>4. Gone(ss, 0) = {} BY DEF Gone
<1>5. Cardinality(Gone(ss, 0)) = 0 BY <1>4, FS_EmptySet
<1>6. Gone(ss, k + 1) = IF ss[k + 1] = <<>> THEN Gone(ss, k) \cup {k + 1} ELSE Gone(ss, k)
  <2>1. 1..k + 1 = (1..k) \cup {k + 1} OBVIOUS
  <2> QED BY <2>1 DEF Gone
<1>7. k + 1 \notin Gone(ss, k) BY DEF Gone
<1>8. Cardinality(Gone(ss, k) \cup {k + 1}) = Cardinality(Gone(ss, k)) + 1
  BY <1>3, <1>7, FS_AddElement
<1> QED BY <1>3, <1>4, <1>5, <1>6, <1>8

(* ConcatIs, for a sequence that has a name.                                 *)
LEMMA JoinIs ==
    ASSUME NEW u, NEW s, NEW t, IsSeq(s), IsSeq(t), u = s \o t
    PROVE  /\ IsSeq(u) /\ Len(u) = Len(s) + Len(t) /\ Len(s) \in Nat /\ Len(t) \in Nat
           /\ \A i \in 1..Len(s) : u[i] = s[i]
           /\ \A i \in 1..Len(t) : u[Len(s) + i] = t[i]
           /\ Range(u) = Range(s) \cup Range(t)
<1>1. /\ IsSeq(s \o t) /\ Len(s \o t) = Len(s) + Len(t)
      /\ \A i \in 1..Len(s) : (s \o t)[i] = s[i]
      /\ \A i \in 1..Len(t) : (s \o t)[Len(s) + i] = t[i]
      /\ Range(s \o t) = Range(s) \cup Range(t)
  BY ConcatIs
<1>2. Len(s) \in Nat /\ Len(t) \in Nat
  BY SeqIs
<1> QED BY <1>1, <1>2, Zenon

(* Flattening parts of at most one element keeps those that have one, in     *)
(* order.                                                                    *)
LEMMA ThinIs ==
    ASSUME NEW ss, Parts(ss), \A i \in 1..Len(ss) : ss[i] = <<>> \/ ss[i] = <<ss[i][1]>>
    PROVE  \E up : Thin(ss, up)
<1> DEFINE n == Len(ss)
           all == FlattenSeq(ss)
<1>0. n \in Nat BY SeqIs DEF Parts
<1>1. PICK f : Flat(ss, f) BY FlatSteps
<1> DEFINE up == [k \in 0..n |-> Len(f[k])]
           P(k) == /\ up[k] \in 0..k /\ Cardinality(Gone(ss, k)) = k - up[k]
                   /\ \A j \in 1..k : /\ up[j] \in up[j - 1]..up[k] /\ up[j - 1] \in Nat
                                      /\ \/ up[j] = up[j - 1] /\ ss[j] = <<>>
                                         \/ /\ up[j] = up[j - 1] + 1
                                            /\ ss[j] = <<f[k][up[j]]>>
           U == {k \in Nat : k <= n => P(k)}
<1>2. up[0] = 0 /\ \A k \in 0..n : up[k] = Len(f[k])
  BY <1>0, <1>1, EmptyIs DEF Flat
<1> HIDE DEF up
<1>3. 0 \in U
  BY <1>2, GoneIs
<1>4. ASSUME NEW k \in Nat, k \in U PROVE k + 1 \in U
  <2>1. SUFFICES ASSUME k + 1 <= n PROVE P(k + 1) OBVIOUS
  <2>2. k + 1 \in 1..n /\ (k + 1) - 1 = k /\ k \in 0..n /\ k + 1 \in 0..n BY <1>0, <2>1
  <2>3. f[k + 1] = f[k] \o ss[k + 1] /\ IsSeq(f[k]) /\ IsSeq(ss[k + 1]) /\ IsSeq(f[k + 1])
    BY <1>1, <2>2 DEF Flat, Parts
  <2>4. P(k) BY <1>0, <1>4, <2>1
  <2>5. up[k] = Len(f[k]) /\ up[k + 1] = Len(f[k + 1]) /\ up[k] \in 0..k BY <1>2, <2>2, <2>4
  <2>6. /\ Len(f[k + 1]) = Len(f[k]) + Len(ss[k + 1])
        /\ \A i \in 1..Len(f[k]) : f[k + 1][i] = f[k][i]
        /\ \A i \in 1..Len(ss[k + 1]) : f[k + 1][Len(f[k]) + i] = ss[k + 1][i]
    <3> DEFINE u == f[k + 1]
               s == f[k]
               t == ss[k + 1]
    <3>1. u = s \o t /\ IsSeq(s) /\ IsSeq(t) BY <2>3
    <3>2. /\ Len(u) = Len(s) + Len(t) /\ \A i \in 1..Len(s) : u[i] = s[i]
          /\ \A i \in 1..Len(t) : u[Len(s) + i] = t[i]
      <4> HIDE DEF u, s, t
      <4> QED BY <3>1, JoinIs
    <3> QED BY <3>2
  <2>7. Cardinality(Gone(ss, k + 1))
          = Cardinality(Gone(ss, k)) + (IF ss[k + 1] = <<>> THEN 1 ELSE 0)
    BY GoneIs
  <2>8. \/ ss[k + 1] = <<>> /\ up[k + 1] = up[k] /\ f[k + 1] = f[k]
        \/ ss[k + 1] # <<>> /\ up[k + 1] = up[k] + 1 /\ ss[k + 1] = <<f[k + 1][up[k + 1]]>>
    <3>1. CASE ss[k + 1] = <<>>
      <4>1. f[k + 1] = f[k] BY <2>3, <3>1, ConcatEmptyIs
      <4> QED BY <2>5, <3>1, <4>1
    <3>2. CASE ss[k + 1] # <<>>
      <4>1. ss[k + 1] = <<ss[k + 1][1]>> BY <2>2, <3>2
      <4>2. Len(ss[k + 1]) = 1 BY <4>1, OneIs
      <4>3. f[k + 1][up[k] + 1] = ss[k + 1][1] BY <2>5, <2>6, <4>2
      <4> QED BY <2>5, <2>6, <3>2, <4>1, <4>2, <4>3
    <3> QED BY <3>1, <3>2
  <2> HIDE DEF U
  <2>11. up[k] \in 0..k /\ Cardinality(Gone(ss, k)) = k - up[k] BY <2>4
  <2>9. up[k + 1] \in 0..k + 1 /\ up[k] <= up[k + 1] /\ Cardinality(Gone(ss, k + 1)) = (k + 1) - up[k + 1]
    <3> HIDE DEF P
    <3> QED BY <2>11, <2>7, <2>8
  <2>10. ASSUME NEW j \in 1..k + 1
         PROVE  /\ up[j] \in up[j - 1]..up[k + 1] /\ up[j - 1] \in Nat
                /\ \/ up[j] = up[j - 1] /\ ss[j] = <<>>
                   \/ up[j] = up[j - 1] + 1 /\ ss[j] = <<f[k + 1][up[j]]>>
    <3>1. CASE j = k + 1
      <4>1. j - 1 = k BY <3>1
      <4> HIDE DEF P
      <4> QED BY <2>11, <2>8, <2>9, <3>1, <4>1
    <3>2. CASE j # k + 1
      <4>1. j \in 1..k BY <3>2
      <4>2. /\ up[j] \in up[j - 1]..up[k] /\ up[j - 1] \in Nat
            /\ \/ up[j] = up[j - 1] /\ ss[j] = <<>>
               \/ up[j] = up[j - 1] + 1 /\ ss[j] = <<f[k][up[j]]>>
        BY <2>4, <4>1
      <4>3. up[j] = up[j - 1] + 1 => up[j] \in 1..Len(f[k]) BY <2>5, <4>2
      <4>4. up[j] \in up[j - 1]..up[k + 1] BY <2>5, <2>9, <4>2
      <4> QED BY <2>6, <4>2, <4>3, <4>4
    <3> QED BY <3>1, <3>2
  <2> QED BY <2>9, <2>10
<1>5. \A k \in Nat : k \in U
  <2> HIDE DEF U
  <2> QED BY <1>3, <1>4, NatSet
<1>6. P(n) /\ \A k \in 0..n : P(k)
  BY <1>0, <1>5
<1>7. all = f[n] /\ Len(all) = up[n]
  <2>1. all = f[n] BY <1>1 DEF Flat
  <2> HIDE DEF all
  <2> QED BY <1>0, <1>2, <2>1
<1>8. ASSUME NEW k \in 0..n PROVE up[k] <= up[n]
  <2>1. CASE k = 0 BY <1>0, <1>2, <1>6, <2>1
  <2>2. CASE k # 0
    <3>1. k \in 1..n BY <2>2
    <3> QED BY <1>0, <1>6, <3>1
  <2> QED BY <2>1, <2>2
<1> HIDE DEF all
<1>9. Thin(ss, up)
  <2> HIDE DEF U
  <2> QED BY <1>2, <1>6, <1>7, <1>8 DEF Thin, all
<1> QED BY <1>9

-----------------------------------------------------------------------------
(* The two passes agree: the first invariant of Discovery.                   *)

(* What has been read so far: the flags of the first pass, then the settings *)
(* of the parser.                                                            *)
AfterEarly ==
    /\ input \in Inputs
    /\ stage = "parse" => early = EarlyFlags(input.conf)
    /\ stage = "theme" =>
         /\ input.conf # Nothing /\ early = EarlyFlags(input.conf)
         /\ settings = Parsed(input.conf).settings

(* Every step of the start keeps that.                                       *)
LEMMA AfterEarlyInductive ==
    /\ DiscoveryInit => AfterEarly
    /\ AfterEarly /\ [DiscoveryNext]_discoveryVars => AfterEarly'
<1>1. DiscoveryInit => AfterEarly
  BY DEF DiscoveryInit, AfterEarly
<1>2. ASSUME AfterEarly, [DiscoveryNext]_discoveryVars PROVE AfterEarly'
  <2>1. input' = input
    BY <1>2 DEF DiscoveryNext, EarlyPass, Parse, NoConf, Theme, Detect, Exclude,
                AttachManifest, AttachDetected, NoSnapshots, Recover, StartAgain, discoveryVars
  <2>2. CASE EarlyPass
    BY <1>2, <2>1, <2>2 DEF EarlyPass, Goto, AfterEarly
  <2>3. CASE Parse
    BY <1>2, <2>1, <2>3 DEF Parse, Goto, AfterEarly
  <2>4. CASE UNCHANGED discoveryVars
    BY <1>2, <2>4 DEF AfterEarly, discoveryVars
  <2>5. CASE \/ NoConf \/ Theme \/ Detect \/ Exclude \/ AttachManifest \/ AttachDetected
             \/ NoSnapshots \/ Recover \/ StartAgain
    <3>1. stage' \notin {"parse", "theme"}
      BY <2>5 DEF NoConf, Theme, Detect, Exclude, AttachManifest, AttachDetected, NoSnapshots,
                  Recover, StartAgain, Goto
    <3> QED BY <1>2, <2>1, <3>1 DEF AfterEarly
  <2> QED BY <1>2, <2>2, <2>3, <2>4, <2>5 DEF DiscoveryNext
<1> QED BY <1>1, <1>2

(* Config_early_flags and the parser agree on the log and the checkpoints,   *)
(* for any boot.conf whose blocks have braces: neither takes a key of a      *)
(* block for a setting.                                                      *)
THEOREM SpecEarlyAgrees == DiscoverySpec => []EarlyAgrees
<1>1. AfterEarly => EarlyAgrees
  <2> SUFFICES ASSUME AfterEarly, stage = "theme", \A l \in Range(input.conf) : l.kind # "header"
               PROVE  early.log = Default("log") /\ early.checkpoints = Default("checkpoints")
    BY DEF EarlyAgrees, AfterEarly
  <2>1. /\ input.conf # Nothing /\ early = EarlyFlags(input.conf)
        /\ settings = Parsed(input.conf).settings
    BY DEF AfterEarly
  <2>2. IsSeq(input.conf)
    BY <2>1, InputsAssumption DEF AfterEarly, Text, Known
  <2> QED BY <2>1, <2>2, PassesAgree DEF Default
<1> QED BY <1>1, AfterEarlyInductive, PTL DEF DiscoverySpec

-----------------------------------------------------------------------------
(* Flattening: parts that are empty, parts of one element, a part alone, two *)
(* halves.                                                                   *)

(* Leaving out empty parts does not change what flattening returns.          *)
LEMMA SkipEmpty ==
    ASSUME NEW os, NEW bs, NEW up, Parts(os), Parts(bs), up[0] = 0, Len(bs) = up[Len(os)],
           \A k \in 0..Len(os) : up[k] \in 0..Len(bs),
           \A k \in 1..Len(os) : \/ up[k] = up[k - 1] /\ os[k] = <<>>
                                 \/ up[k] = up[k - 1] + 1 /\ os[k] = bs[up[k]]
    PROVE  FlattenSeq(os) = FlattenSeq(bs)
<1> DEFINE n == Len(os)
<1>0. n \in Nat /\ Len(bs) \in Nat BY SeqIs DEF Parts
<1>1. PICK f : Flat(os, f) BY FlatSteps
<1>2. PICK g : Flat(bs, g) BY FlatSteps
<1> DEFINE U == {k \in Nat : k <= n => f[k] = g[up[k]]}
<1>3. 0 \in U BY <1>1, <1>2 DEF Flat
<1>4. ASSUME NEW k \in Nat, k \in U PROVE k + 1 \in U
  <2>1. SUFFICES ASSUME k + 1 <= n PROVE f[k + 1] = g[up[k + 1]] OBVIOUS
  <2>2. k + 1 \in 1..n /\ (k + 1) - 1 = k /\ k \in 0..n /\ k + 1 \in 0..n BY <1>0, <2>1
  <2>3. f[k + 1] = f[k] \o os[k + 1] /\ IsSeq(f[k])
    BY <1>1, <2>2 DEF Flat
  <2>4. f[k] = g[up[k]] BY <1>0, <1>4, <2>1
  <2>5. CASE up[k + 1] = up[k] /\ os[k + 1] = <<>>
    <3>1. f[k + 1] = f[k] BY <2>3, <2>5, ConcatEmptyIs
    <3> QED BY <2>4, <2>5, <3>1
  <2>6. CASE up[k + 1] = up[k] + 1 /\ os[k + 1] = bs[up[k + 1]]
    <3>1. up[k + 1] \in 1..Len(bs) /\ up[k + 1] - 1 = up[k] BY <1>0, <2>2, <2>6
    <3>2. g[up[k + 1]] = g[up[k]] \o bs[up[k + 1]] BY <1>2, <3>1 DEF Flat
    <3> QED BY <2>3, <2>4, <2>6, <3>2
  <2> QED BY <2>2, <2>5, <2>6
<1>5. n \in U
  <2> HIDE DEF U
  <2> QED BY <1>0, <1>3, <1>4, NatSet
<1> QED BY <1>0, <1>1, <1>2, <1>5 DEF Flat

(* Flattening one-element parts gives the sequence of the elements.          *)
LEMMA FlatSingles ==
    ASSUME NEW s, IsSeq(s), NEW ss, IsSeq(ss), Len(ss) = Len(s),
           \A i \in 1..Len(s) : ss[i] = <<s[i]>>
    PROVE  FlattenSeq(ss) = s
<1>0. Len(s) \in Nat BY SeqIs
<1>1. Parts(ss)
  <2>1. ASSUME NEW i \in 1..Len(ss) PROVE IsSeq(ss[i])
    <3>1. ss[i] = <<s[i]>> /\ IsSeq(<<s[i]>>) BY OneIs
    <3> QED BY <3>1, Zenon
  <2> QED BY <2>1 DEF Parts
<1>2. \A i \in 1..Len(ss) : ss[i] = <<>> \/ ss[i] = <<ss[i][1]>> OBVIOUS
<1>3. PICK up : Thin(ss, up) BY <1>1, <1>2, ThinIs
<1> DEFINE U == {k \in Nat : k <= Len(s) => up[k] = k}
<1>4. 0 \in U BY <1>3 DEF Thin
<1>5. ASSUME NEW k \in Nat, k \in U PROVE k + 1 \in U
  <2>1. SUFFICES ASSUME k + 1 <= Len(s) PROVE up[k + 1] = k + 1 OBVIOUS
  <2>2. k + 1 \in 1..Len(ss) /\ (k + 1) - 1 = k /\ up[k] = k BY <1>0, <1>5, <2>1
  <2>3. ss[k + 1] # <<>>
    <3>1. ss[k + 1] = <<s[k + 1]>> BY <2>2
    <3>2. Len(<<s[k + 1]>>) = 1 /\ Len(<<>>) = 0 BY OneIs, EmptyIs
    <3>3. <<s[k + 1]>> # <<>> BY <3>2
    <3> QED BY <3>1, <3>3, Zenon
  <2> QED BY <1>3, <2>2, <2>3 DEF Thin
<1>6. \A k \in Nat : k \in U
  <2> HIDE DEF U
  <2> QED BY <1>4, <1>5, NatSet
<1> DEFINE all == FlattenSeq(ss)
<1>7. Len(all) = Len(s) BY <1>0, <1>3, <1>6 DEF Thin
<1>8. ASSUME NEW k \in 1..Len(s) PROVE all[k] = s[k]
  <2>1. k \in Nat /\ up[k] = k BY <1>0, <1>6
  <2>2. ss[k] = <<s[k]>> /\ ss[k] # <<>> BY OneIs, EmptyIs
  <2>3. ss[k] = <<all[k]>> BY <1>3, <2>1, <2>2 DEF Thin
  <2> QED BY <2>2, <2>3, OneIs
<1>9. IsSeq(all) BY <1>1, FlatIs
<1> HIDE DEF all
<1> QED BY <1>7, <1>8, <1>9, SameSeq DEF all

(* Flattening a single part gives the part.                                  *)
LEMMA FlatOne == ASSUME NEW s, IsSeq(s) PROVE FlattenSeq(<<s>>) = s
<1> DEFINE ss == <<s>>
<1>1. IsSeq(ss) /\ Len(ss) = 1 /\ ss[1] = s BY OneIs
<1> HIDE DEF ss
<1>2. Parts(ss) BY <1>1 DEF Parts
<1>3. PICK f : Flat(ss, f) BY <1>2, FlatSteps
<1>4. f[1] = f[1 - 1] \o ss[1] /\ f[0] = <<>> /\ FlattenSeq(ss) = f[1]
  BY <1>1, <1>3 DEF Flat
<1>5. f[1] = <<>> \o s
  <2>1. 1 - 1 = 0 OBVIOUS
  <2> QED BY <1>1, <1>4, <2>1, Zenon
<1> QED BY <1>4, <1>5, ConcatEmptyIs DEF ss

(* Flattening two sequences of parts, joined.                                *)
LEMMA FlatConcat ==
    ASSUME NEW aa, NEW bb, NEW cc, Parts(aa), Parts(bb), cc = aa \o bb
    PROVE  FlattenSeq(cc) = FlattenSeq(aa) \o FlattenSeq(bb) /\ Parts(cc)
<1> DEFINE m == Len(aa)
           n == Len(bb)
<1>0. m \in Nat /\ n \in Nat /\ IsSeq(aa) /\ IsSeq(bb) BY SeqIs DEF Parts
<1>1. /\ IsSeq(cc) /\ Len(cc) = m + n
      /\ \A i \in 1..m : cc[i] = aa[i]
      /\ \A i \in 1..n : cc[m + i] = bb[i]
  <2>1. cc = aa \o bb OBVIOUS
  <2>2. /\ IsSeq(cc) /\ Len(cc) = Len(aa) + Len(bb)
        /\ \A i \in 1..Len(aa) : cc[i] = aa[i]
        /\ \A i \in 1..Len(bb) : cc[Len(aa) + i] = bb[i]
    <3>1. /\ IsSeq(aa \o bb) /\ Len(aa \o bb) = Len(aa) + Len(bb)
          /\ \A i \in 1..Len(aa) : (aa \o bb)[i] = aa[i]
          /\ \A i \in 1..Len(bb) : (aa \o bb)[Len(aa) + i] = bb[i]
      BY <1>0, ConcatIs
    <3> QED BY <2>1, <3>1, Zenon
  <2> QED BY <2>2
<1>2. Parts(cc)
  <2>1. ASSUME NEW i \in 1..m + n PROVE IsSeq(cc[i])
    <3>1. CASE i <= m BY <1>0, <1>1, <3>1 DEF Parts
    <3>2. CASE ~(i <= m)
      <4>1. i - m \in 1..n /\ m + (i - m) = i BY <1>0, <3>2
      <4>2. cc[i] = bb[i - m] BY <1>1, <4>1
      <4> QED BY <4>1, <4>2 DEF Parts
    <3> QED BY <3>1, <3>2
  <2> QED BY <1>1, <2>1 DEF Parts
<1>3. PICK f : Flat(aa, f) BY FlatSteps
<1>4. PICK g : Flat(bb, g) BY FlatSteps
<1>5. PICK h : Flat(cc, h) BY <1>2, FlatSteps
<1> DEFINE U == {k \in Nat : k <= m => h[k] = f[k]}
           Cat(s, t) == s \o t
           V == {k \in Nat : k <= n => h[m + k] = Cat(f[m], g[k])}
<1>6. \A k \in Nat : k \in U
  <2>1. 0 \in U BY <1>3, <1>5 DEF Flat
  <2>2. ASSUME NEW k \in Nat, k \in U PROVE k + 1 \in U
    <3>1. SUFFICES ASSUME k + 1 <= m PROVE h[k + 1] = f[k + 1] OBVIOUS
    <3>2. k + 1 \in 1..m /\ k + 1 \in 1..Len(cc) /\ (k + 1) - 1 = k /\ h[k] = f[k]
      BY <1>0, <1>1, <2>2, <3>1
    <3>3. h[k + 1] = h[k] \o cc[k + 1] /\ f[k + 1] = f[k] \o aa[k + 1] /\ cc[k + 1] = aa[k + 1]
      BY <1>1, <1>3, <1>5, <3>2 DEF Flat
    <3> QED BY <3>2, <3>3, Zenon
  <2> HIDE DEF U
  <2> QED BY <2>1, <2>2, NatSet
<1>7. \A k \in Nat : k \in V
  <2>1. 0 \in V
    <3>1. h[m + 0] = h[m] /\ g[0] = <<>> /\ IsSeq(f[m]) /\ h[m] = f[m]
      BY <1>0, <1>3, <1>4, <1>6 DEF Flat
    <3>2. Cat(f[m], g[0]) = f[m] BY <3>1, ConcatEmptyIs
    <3> HIDE DEF Cat
    <3> QED BY <3>1, <3>2
  <2>2. ASSUME NEW k \in Nat, k \in V PROVE k + 1 \in V
    <3>1. SUFFICES ASSUME k + 1 <= n PROVE h[m + (k + 1)] = Cat(f[m], g[k + 1])
      <4> HIDE DEF Cat
      <4> QED OBVIOUS
    <3>2. /\ k + 1 \in 1..n /\ m + (k + 1) \in 1..Len(cc) /\ (m + (k + 1)) - 1 = m + k
          /\ k \in 0..n /\ (k + 1) - 1 = k
      BY <1>0, <1>1, <3>1
    <3>3. h[m + k] = Cat(f[m], g[k])
      <4> HIDE DEF Cat
      <4> QED BY <1>0, <2>2, <3>1
    <3>4. h[m + (k + 1)] = h[m + k] \o cc[m + (k + 1)]
      BY <1>5, <3>2 DEF Flat
    <3>5. g[k + 1] = g[k] \o bb[k + 1] /\ cc[m + (k + 1)] = bb[k + 1]
      BY <1>1, <1>4, <3>2 DEF Flat
    <3>6. IsSeq(f[m]) /\ IsSeq(g[k]) /\ IsSeq(bb[k + 1])
      BY <1>0, <1>3, <1>4, <3>2 DEF Flat, Parts
    <3>7. (f[m] \o g[k]) \o bb[k + 1] = f[m] \o (g[k] \o bb[k + 1])
      <4> DEFINE x == f[m]
                 y == g[k]
                 z == bb[k + 1]
      <4>1. IsSeq(x) /\ IsSeq(y) /\ IsSeq(z) BY <3>6
      <4>2. (x \o y) \o z = x \o (y \o z)
        <5> HIDE DEF x, y, z
        <5> QED BY <4>1, ConcatAssoc
      <4> QED BY <4>2, Zenon
    <3> QED BY <3>3, <3>4, <3>5, <3>7, Zenon
  <2> HIDE DEF V
  <2> QED BY <2>1, <2>2, NatSet
<1>8. h[m + n] = Cat(f[m], g[n])
  <2> HIDE DEF Cat
  <2> QED BY <1>0, <1>7
<1>9. FlattenSeq(cc) = h[m + n] /\ FlattenSeq(aa) = f[m] /\ FlattenSeq(bb) = g[n]
  BY <1>1, <1>3, <1>4, <1>5 DEF Flat
<1> QED BY <1>2, <1>8, <1>9, Zenon

-----------------------------------------------------------------------------
(* Those: the elements of a sequence whose places are in a set.              *)

(* The elements at the places in K, as parts; the other parts are empty.     *)
KeptParts(s, K) == [i \in 1..Len(s) |-> IF i \in K THEN <<s[i]>> ELSE <<>>]

(* The elements at the places in K.                                          *)
Kept(s, K) == FlattenSeq(KeptParts(s, K))

(* They are parts.                                                           *)
LEMMA KeptPartsIs ==
    ASSUME NEW s, IsSeq(s), NEW K
    PROVE  /\ Len(s) \in Nat /\ Parts(KeptParts(s, K)) /\ Len(KeptParts(s, K)) = Len(s)
           /\ \A i \in 1..Len(s) : KeptParts(s, K)[i] = IF i \in K THEN <<s[i]>> ELSE <<>>
<1> DEFINE ss == KeptParts(s, K)
<1>1. Len(s) \in Nat BY SeqIs
<1>2. ss = [i \in 1..Len(s) |-> ss[i]] BY DEF KeptParts
<1>3. \A i \in 1..Len(s) : ss[i] = IF i \in K THEN <<s[i]>> ELSE <<>> BY DEF KeptParts
<1>4. ASSUME NEW i \in 1..Len(s) PROVE IsSeq(ss[i])
  <2>1. CASE i \in K
    <3>1. ss[i] = <<s[i]>> /\ IsSeq(<<s[i]>>) BY <1>3, <2>1, OneIs
    <3> HIDE DEF ss
    <3> QED BY <3>1, Zenon
  <2>2. CASE i \notin K
    <3>1. ss[i] = <<>> BY <1>3, <2>2
    <3> HIDE DEF ss
    <3> QED BY <3>1, EmptyIs
  <2> QED BY <2>1, <2>2
<1> HIDE DEF ss
<1>5. IsSeq(ss) /\ Len(ss) = Len(s) BY <1>1, <1>2, FcnIs
<1> QED BY <1>1, <1>3, <1>4, <1>5 DEF Parts, ss

(* Up[k] of the first k elements are kept, and element k, if it is, is now   *)
(* at place up[k].                                                           *)
Up(s, K, all, up) ==
    LET n == Len(s)
    IN  /\ up[0] = 0 /\ Len(all) = up[n]
        /\ \A k \in 0..n : /\ up[k] \in 0..k /\ up[k] <= up[n]
                           /\ Cardinality({i \in 1..k : i \notin K}) = k - up[k]
        /\ \A k \in 1..n : \/ k \notin K /\ up[k] = up[k - 1]
                           \/ k \in K /\ up[k] = up[k - 1] + 1 /\ all[up[k]] = s[k]

(* What is kept: a sequence, of exactly the elements at places in K.         *)
LEMMA KeptIs ==
    ASSUME NEW s, IsSeq(s), NEW K
    PROVE  /\ \E up : Up(s, K, Kept(s, K), up)
           /\ IsSeq(Kept(s, K)) /\ Range(Kept(s, K)) = {s[i] : i \in K \cap (1..Len(s))}
<1> DEFINE n == Len(s)
           ss == KeptParts(s, K)
           all == FlattenSeq(ss)
<1>1. n \in Nat /\ Parts(ss) /\ Len(ss) = n
  BY KeptPartsIs
<1>2. \A i \in 1..n : ss[i] = IF i \in K THEN <<s[i]>> ELSE <<>>
  BY KeptPartsIs
<1> HIDE DEF ss
<1>3. ASSUME NEW i \in 1..n
      PROVE  /\ i \in K => ss[i] = <<s[i]>> /\ ss[i][1] = s[i] /\ ss[i] # <<>>
                           /\ Range(ss[i]) = {s[i]}
             /\ i \notin K => ss[i] = <<>> /\ Range(ss[i]) = {}
  <2>1. CASE i \in K
    <3>1. ss[i] = <<s[i]>> BY <1>2, <2>1
    <3>2. /\ Len(<<s[i]>>) = 1 /\ Len(<<>>) = 0 /\ Range(<<s[i]>>) = {s[i]}
          /\ <<s[i]>>[1] = s[i]
      BY OneIs, EmptyIs
    <3>3. <<s[i]>> # <<>> BY <3>2
    <3> QED BY <2>1, <3>1, <3>2, <3>3, Zenon
  <2>2. CASE i \notin K
    <3>1. ss[i] = <<>> BY <1>2, <2>2
    <3>2. Range(<<>>) = {} BY EmptyIs
    <3> QED BY <2>2, <3>1, <3>2, Zenon
  <2> QED BY <2>1, <2>2
<1>4. \A i \in 1..Len(ss) : ss[i] = <<>> \/ ss[i] = <<ss[i][1]>>
  <2>1. ASSUME NEW i \in 1..n PROVE ss[i] = <<>> \/ ss[i] = <<ss[i][1]>>
    BY <1>3, Zenon
  <2> QED BY <1>1, <2>1
<1>5. PICK up : Thin(ss, up) BY <1>1, <1>4, ThinIs
<1>6. ASSUME NEW k \in 0..n PROVE Gone(ss, k) = {i \in 1..k : i \notin K}
  <2>1. ASSUME NEW i \in 1..k PROVE ss[i] = <<>> <=> i \notin K
    <3>1. i \in 1..n BY <1>1
    <3> QED BY <1>3, <3>1
  <2> QED BY <2>1 DEF Gone
<1>7. ASSUME NEW k \in 1..n
      PROVE  \/ k \notin K /\ up[k] = up[k - 1]
             \/ k \in K /\ up[k] = up[k - 1] + 1 /\ all[up[k]] = s[k]
  <2>1. \/ up[k] = up[k - 1] /\ ss[k] = <<>>
        \/ up[k] = up[k - 1] + 1 /\ ss[k] = <<all[up[k]]>>
    BY <1>1, <1>5 DEF Thin
  <2>2. CASE k \in K
    <3>1. ss[k] # <<>> /\ ss[k][1] = s[k] BY <1>3, <2>2
    <3>2. up[k] = up[k - 1] + 1 /\ ss[k] = <<all[up[k]]>> BY <2>1, <3>1
    <3>3. <<all[up[k]]>>[1] = all[up[k]] OBVIOUS
    <3>4. all[up[k]] = s[k] BY <3>1, <3>2, <3>3, Zenon
    <3> QED BY <2>2, <3>2, <3>4, Zenon
  <2>3. CASE k \notin K
    <3>1. ss[k] = <<>> /\ Len(<<>>) = 0 /\ Len(<<all[up[k]]>>) = 1 BY <1>3, <2>3, EmptyIs, OneIs
    <3>2. <<>> # <<all[up[k]]>> BY <3>1
    <3> QED BY <2>1, <2>3, <3>1, <3>2, Zenon
  <2> QED BY <2>2, <2>3
<1>8. Up(s, K, all, up)
  <2> HIDE DEF all
  <2> QED BY <1>1, <1>5, <1>6, <1>7 DEF Up, Thin, all
<1>9. Range(all) = {s[i] : i \in K \cap (1..n)}
  <2>1. Range(all) = UNION {Range(ss[i]) : i \in 1..n}
    BY <1>1, FlatIs
  <2>2. ASSUME NEW x \in Range(all) PROVE \E i \in K \cap (1..n) : x = s[i]
    <3>1. PICK i \in 1..n : x \in Range(ss[i]) BY <2>1
    <3>2. i \in K /\ Range(ss[i]) = {s[i]} BY <1>3, <3>1
    <3> QED BY <3>1, <3>2
  <2>3. ASSUME NEW i \in K \cap (1..n) PROVE s[i] \in Range(all)
    BY <1>3, <2>1
  <2> HIDE DEF all
  <2> QED BY <2>2, <2>3
<1>10. IsSeq(all) BY <1>1, FlatIs
<1>11. all = Kept(s, K) BY DEF Kept, ss
<1> HIDE DEF all
<1> QED BY <1>8, <1>9, <1>10, <1>11

(* Places among the kept ones keep their order.                              *)
LEMMA UpGrows ==
    ASSUME NEW s, IsSeq(s), NEW K, NEW all, NEW up, Up(s, K, all, up),
           NEW i \in 0..Len(s), NEW k \in 0..Len(s), i <= k
    PROVE  up[i] <= up[k]
<1> DEFINE n == Len(s)
           U == {j \in Nat : j \in i..n => up[i] <= up[j]}
<1>1. n \in Nat /\ \A j \in 0..n : up[j] \in Nat
  <2>1. n \in Nat BY SeqIs
  <2>2. ASSUME NEW j \in 0..n PROVE up[j] \in Nat
    <3>1. up[j] \in 0..j BY DEF Up
    <3> QED BY <2>1, <3>1
  <2> QED BY <2>1, <2>2
<1>2. 0 \in U
  <2>1. 0 \in i..n => i = 0 BY <1>1
  <2>2. up[0] \in Nat BY <1>1
  <2> QED BY <2>1, <2>2
<1>3. ASSUME NEW j \in Nat, j \in U PROVE j + 1 \in U
  <2>1. SUFFICES ASSUME j + 1 \in i..n PROVE up[i] <= up[j + 1] OBVIOUS
  <2>2. CASE j + 1 = i BY <1>1, <2>2
  <2>3. CASE j + 1 # i
    <3>1. j \in i..n /\ j + 1 \in 1..n /\ (j + 1) - 1 = j /\ j \in 0..n BY <1>1, <2>1, <2>3
    <3>2. up[i] <= up[j] /\ up[i] \in Nat /\ up[j] \in Nat BY <1>1, <1>3, <3>1
    <3>3. up[j + 1] = up[j] \/ up[j + 1] = up[j] + 1 BY <3>1 DEF Up
    <3> QED BY <3>2, <3>3
  <2> QED BY <2>2, <2>3
<1>4. k \in U
  <2>1. k \in Nat BY <1>1
  <2> HIDE DEF U
  <2> QED BY <1>2, <1>3, <2>1, NatSet
<1> QED BY <1>1, <1>4

(* Element j of those kept was at place from[j], and the order is the same.  *)
From(s, K, all, from) ==
    /\ \A j \in 1..Len(all) :
         from[j] \in 1..Len(s) /\ from[j] \in K /\ all[j] = s[from[j]]
    /\ \A j, k \in 1..Len(all) : j < k => from[j] < from[k]

(* There is such a from.                                                     *)
LEMMA KeptFrom ==
    ASSUME NEW s, IsSeq(s), NEW K
    PROVE  \E from : From(s, K, Kept(s, K), from)
<1> DEFINE n == Len(s)
           all == Kept(s, K)
<1>1. PICK up : Up(s, K, all, up)
  BY KeptIs
<1>2. n \in Nat BY SeqIs
<1> HIDE DEF all
<1>3. up[n] \in Nat /\ Len(all) = up[n] BY <1>1, <1>2 DEF Up
<1> DEFINE U == {k \in Nat : k <= n => \A j \in 1..up[k] : \E i \in 1..k : i \in K /\ up[i] = j}
<1>4. 0 \in U BY <1>1, <1>2 DEF Up
<1>5. ASSUME NEW k \in Nat, k \in U PROVE k + 1 \in U
  <2>1. SUFFICES ASSUME k + 1 <= n, NEW j \in 1..up[k + 1]
                 PROVE  \E i \in 1..k + 1 : i \in K /\ up[i] = j
    OBVIOUS
  <2>2. k + 1 \in 1..n /\ (k + 1) - 1 = k /\ k \in 0..n /\ k <= n BY <1>2, <2>1
  <2>3. up[k] \in Nat
    <3>1. up[k] \in 0..k BY <1>1, <2>2 DEF Up
    <3> QED BY <3>1
  <2>4. CASE j \in 1..up[k]
    <3>1. PICK i \in 1..k : i \in K /\ up[i] = j BY <1>5, <2>2, <2>4
    <3>2. i \in 1..k + 1 OBVIOUS
    <3> QED BY <3>1, <3>2
  <2>5. CASE j \notin 1..up[k]
    <3>1. \/ k + 1 \notin K /\ up[k + 1] = up[k]
          \/ k + 1 \in K /\ up[k + 1] = up[k] + 1
      BY <1>1, <2>2 DEF Up
    <3>2. k + 1 \in K /\ up[k + 1] = j BY <2>3, <2>5, <3>1
    <3>3. k + 1 \in 1..k + 1 OBVIOUS
    <3> QED BY <3>2, <3>3
  <2> QED BY <2>4, <2>5
<1>6. n \in U
  <2> HIDE DEF U
  <2> QED BY <1>2, <1>4, <1>5, NatSet
<1>7. \A j \in 1..Len(all) : \E i \in 1..n : i \in K /\ up[i] = j
  BY <1>2, <1>3, <1>6
<1> DEFINE from == [j \in 1..Len(all) |-> CHOOSE i \in 1..n : i \in K /\ up[i] = j]
<1>8. ASSUME NEW j \in 1..Len(all)
      PROVE  from[j] \in 1..n /\ from[j] \in K /\ up[from[j]] = j
  BY <1>7
<1> HIDE DEF from
<1>9. ASSUME NEW j \in 1..Len(all) PROVE all[j] = s[from[j]]
  <2>1. from[j] \in 1..n /\ from[j] \in K /\ up[from[j]] = j BY <1>8
  <2>2. all[up[from[j]]] = s[from[j]] BY <1>1, <2>1 DEF Up
  <2> QED BY <2>1, <2>2
<1>10. ASSUME NEW j \in 1..Len(all), NEW k \in 1..Len(all), j < k
       PROVE  from[j] < from[k]
  <2>1. from[j] \in 0..n /\ from[k] \in 0..n /\ up[from[j]] = j /\ up[from[k]] = k
    BY <1>2, <1>8
  <2>2. from[k] <= from[j] => up[from[k]] <= up[from[j]]
    BY <1>1, <2>1, UpGrows
  <2> QED BY <1>2, <1>3, <1>10, <2>1, <2>2
<1>11. From(s, K, all, from)
  BY <1>8, <1>9, <1>10 DEF From
<1> QED BY <1>11 DEF all

(* Keeping everything changes nothing.                                       *)
LEMMA KeptAll == ASSUME NEW s, IsSeq(s), NEW K, 1..Len(s) \subseteq K PROVE Kept(s, K) = s
<1> DEFINE ss == KeptParts(s, K)
<1>1. Parts(ss) /\ Len(ss) = Len(s) BY KeptPartsIs
<1>2. \A i \in 1..Len(s) : ss[i] = <<s[i]>> BY KeptPartsIs
<1> HIDE DEF ss
<1>3. FlattenSeq(ss) = s BY <1>1, <1>2, FlatSingles DEF Parts
<1> QED BY <1>3 DEF Kept, ss

(* Keeping nothing leaves nothing.                                           *)
LEMMA KeptNone ==
    ASSUME NEW s, IsSeq(s), NEW K, K \cap (1..Len(s)) = {} PROVE Kept(s, K) = <<>>
<1>1. IsSeq(Kept(s, K)) /\ Range(Kept(s, K)) = {} BY KeptIs
<1>2. Len(Kept(s, K)) = 0
  <2> DEFINE all == Kept(s, K)
  <2>1. IsSeq(all) /\ Range(all) = {} BY <1>1
  <2> HIDE DEF all
  <2>2. Len(all) \in Nat /\ \A i \in 1..Len(all) : all[i] \in Range(all) BY <2>1, SeqIs
  <2>3. Len(all) = 0
    <3>1. Len(all) # 0 => 1 \in 1..Len(all) BY <2>2
    <3> QED BY <2>1, <2>2, <3>1
  <2> QED BY <2>3 DEF all
<1> QED BY <1>1, <1>2, SameSeq, EmptyIs

(* Keeping in two halves.                                                    *)
LEMMA KeptConcat ==
    ASSUME NEW s, IsSeq(s), NEW t, IsSeq(t), NEW K, NEW L,
           \A i \in 1..Len(t) : i \in L <=> Len(s) + i \in K
    PROVE  Kept(s \o t, K) = Kept(s, K) \o Kept(t, L)
<1> DEFINE u == s \o t
           aa == KeptParts(s, K)
           bb == KeptParts(t, L)
           cc == KeptParts(u, K)
           dd == aa \o bb
           m == Len(s)
           n == Len(t)
<1>1. /\ IsSeq(u) /\ Len(u) = m + n /\ \A i \in 1..m : u[i] = s[i]
      /\ \A i \in 1..n : u[m + i] = t[i]
  BY ConcatIs
<1> HIDE DEF u
<1>2. /\ m \in Nat /\ Parts(aa) /\ Len(aa) = m
      /\ \A i \in 1..m : aa[i] = IF i \in K THEN <<s[i]>> ELSE <<>>
  BY KeptPartsIs
<1>3. /\ n \in Nat /\ Parts(bb) /\ Len(bb) = n
      /\ \A i \in 1..n : bb[i] = IF i \in L THEN <<t[i]>> ELSE <<>>
  BY KeptPartsIs
<1>4. /\ Parts(cc) /\ Len(cc) = Len(u)
      /\ \A i \in 1..Len(u) : cc[i] = IF i \in K THEN <<u[i]>> ELSE <<>>
  BY <1>1, KeptPartsIs
<1> HIDE DEF aa, bb, cc
<1>5. FlattenSeq(dd) = FlattenSeq(aa) \o FlattenSeq(bb) /\ Parts(dd)
  BY <1>2, <1>3, FlatConcat
<1>6. /\ IsSeq(dd) /\ Len(dd) = Len(aa) + Len(bb)
      /\ \A i \in 1..Len(aa) : dd[i] = aa[i]
      /\ \A i \in 1..Len(bb) : dd[Len(aa) + i] = bb[i]
  BY <1>2, <1>3, ConcatIs DEF Parts
<1> HIDE DEF dd
<1>7. ASSUME NEW i \in 1..m + n PROVE cc[i] = dd[i]
  <2>1. CASE i <= m
    <3>1. i \in 1..m BY <1>2, <2>1
    <3>2. u[i] = s[i] /\ i \in 1..Len(u) BY <1>1, <3>1
    <3>3. dd[i] = aa[i] BY <1>2, <1>6, <3>1
    <3>4. aa[i] = IF i \in K THEN <<s[i]>> ELSE <<>> BY <1>2, <3>1
    <3>5. cc[i] = IF i \in K THEN <<u[i]>> ELSE <<>> BY <1>4, <3>2
    <3> QED BY <3>2, <3>3, <3>4, <3>5, Zenon
  <2>2. CASE ~(i <= m)
    <3>1. i - m \in 1..n /\ m + (i - m) = i BY <1>2, <1>3, <2>2
    <3>2. i - m \in L <=> i \in K BY <3>1
    <3>3. dd[i] = bb[i - m] BY <1>2, <1>3, <1>6, <3>1
    <3>4. u[i] = t[i - m] BY <1>1, <3>1
    <3>5. bb[i - m] = IF i - m \in L THEN <<t[i - m]>> ELSE <<>> BY <1>3, <3>1
    <3>6. cc[i] = IF i \in K THEN <<u[i]>> ELSE <<>> BY <1>1, <1>4
    <3> QED BY <3>2, <3>3, <3>4, <3>5, <3>6, Zenon
  <2> QED BY <2>1, <2>2
<1>8. cc = dd
  <2>1. Len(cc) = Len(dd) /\ Len(cc) = m + n BY <1>1, <1>2, <1>3, <1>4, <1>6
  <2> QED BY <1>4, <1>6, <1>7, <2>1, SameSeq DEF Parts
<1>9. FlattenSeq(cc) = FlattenSeq(aa) \o FlattenSeq(bb)
  BY <1>5, <1>8, Zenon
<1> QED BY <1>9, Zenon DEF Kept, aa, bb, cc, u

-----------------------------------------------------------------------------
(* The parser makes entries of one file, and settings that are typed.        *)

(* Settings whose default is a number and whose options, if any, are known.  *)
Typed(s) ==
    /\ Get(s, "default") \in Nat
    /\ Get(s, "cmdline") = Nothing \/ Get(s, "cmdline") \in DOMAIN Cmdline

(* No settings at all are typed.                                             *)
LEMMA TypedUnchanged == Typed(Unchanged)
<1>1. DOMAIN Unchanged = {} BY DEF Unchanged
<1>2. Get(Unchanged, "default") = 0 /\ Get(Unchanged, "cmdline") = Nothing
  BY <1>1 DEF Get, Defaults
<1> QED BY <1>2 DEF Typed

(* A line keeps them typed.                                                  *)
LEMMA TypedApplied ==
    ASSUME NEW s, Typed(s), NEW word, NEW v \in DOMAIN Number \cap DOMAIN Cmdline
    PROVE  Typed(Applied(s, word, v))
<1> DEFINE t == Applied(s, word, v)
<1>1. /\ Get(t, "default") = IF Named(word) = "default" THEN Number[v] ELSE Get(s, "default")
      /\ Get(t, "cmdline") = IF Named(word) = "cmdline" THEN PathOf(v) ELSE Get(s, "cmdline")
  BY AppliedIs
<1> HIDE DEF t
<1>2. Typed(t)
  BY <1>1, TextAssumption DEF Typed, PathOf
<1> QED BY <1>2 DEF t

(* So does a theme.                                                          *)
LEMMA TypedThemed ==
    ASSUME NEW s, Typed(s), NEW theme, Known(theme)
    PROVE  Typed(Themed(s, theme))
<1> DEFINE n == Len(theme)
<1>1. n \in Nat /\ \A i \in 1..n : theme[i].value \in DOMAIN Number \cap DOMAIN Cmdline
  BY SeqIs DEF Known
<1>2. PICK r : /\ r[0] = s
               /\ \A i \in 1..n : r[i] = ThemeLine(r[i - 1], theme[i])
               /\ ThemeFold(s, theme) = r[n]
  BY <1>1, ThemeSteps
<1> DEFINE U == {k \in Nat : k <= n => Typed(r[k])}
<1>3. 0 \in U BY <1>2
<1>4. ASSUME NEW k \in Nat, k \in U PROVE k + 1 \in U
  <2>1. SUFFICES ASSUME k + 1 <= n PROVE Typed(r[k + 1]) OBVIOUS
  <2>2. Typed(r[k]) /\ k + 1 \in 1..n /\ (k + 1) - 1 = k BY <1>1, <1>4, <2>1
  <2>3. r[k + 1] = ThemeLine(r[k], theme[k + 1]) BY <1>2, <2>2
  <2>4. theme[k + 1].value \in DOMAIN Number \cap DOMAIN Cmdline BY <1>1, <2>2
  <2> QED BY <2>2, <2>3, <2>4, TypedApplied DEF ThemeLine
<1>5. n \in U
  <2> HIDE DEF U
  <2> QED BY <1>1, <1>3, <1>4, NatSet
<1>6. Themed(s, theme) = r[n]
  BY <1>2 DEF Themed, ThemeFold
<1> QED BY <1>1, <1>5, <1>6

(* A record with the fields of an entry.                                     *)
IsEntry(e) ==
    e = [name |-> e.name, path |-> e.path, type |-> e.type, volume |-> e.volume,
         uuid |-> e.uuid, cmdline |-> e.cmdline, initrd |-> e.initrd, secret |-> e.secret,
         deps |-> e.deps, dflt |-> e.dflt, sel |-> e.sel, snapshots |-> e.snapshots]

(* An entry of one file: no group, no snapshots.                             *)
Single(e) == IsEntry(e) /\ e.deps = <<>> /\ e.snapshots = <<>> /\ Maybe(e.cmdline)

(* A list of such entries.                                                   *)
Singles(es) == IsSeq(es) /\ \A e \in Range(es) : Single(e)

(* NewEntry makes an entry of one file.                                      *)
LEMMA NewEntryIs ==
    ASSUME NEW name, NEW path, NEW cmdline, Maybe(cmdline), NEW type, NEW s, Typed(s)
    PROVE  LET e == NewEntry(name, path, cmdline, type, s)
           IN  /\ Single(e) /\ e.name = name /\ e.path = path /\ e.type = type
               /\ e.volume = Nothing
<1> DEFINE e == NewEntry(name, path, cmdline, type, s)
<1>1. Maybe(e.cmdline)
  <2>1. \/ e.cmdline = cmdline \/ e.cmdline = Nothing
        \/ Get(s, "cmdline") # Nothing /\ e.cmdline = Cmdline[Get(s, "cmdline")]
    BY DEF NewEntry
  <2> HIDE DEF e
  <2> QED BY <2>1, TextAssumption DEF Typed, Maybe
<1>2. IsEntry(e) /\ e.deps = <<>> /\ e.snapshots = <<>>
      /\ e.name = name /\ e.path = path /\ e.type = type /\ e.volume = Nothing
  BY DEF NewEntry, IsEntry
<1> HIDE DEF e
<1>3. Single(e) BY <1>1, <1>2 DEF Single
<1> QED BY <1>2, <1>3 DEF e

(* The options of a block are known.                                         *)
Block(b) == "cmdline" \in DOMAIN b => b.cmdline \in DOMAIN Cmdline

(* What a block ends in: at most one entry of one file.                      *)
LEMMA OfBlockIs ==
    ASSUME NEW block, Block(block), NEW s, Typed(s)
    PROVE  Singles(OfBlock(block, s))
<1> DEFINE es == OfBlock(block, s)
           kernel == Had(block, "kernel", Nothing)
           type == IF block.windows \/ kernel \in WindowsPaths THEN 1 ELSE 0
           had == Had(block, "cmdline", Nothing)
           cmdline == IF had = Nothing THEN Nothing ELSE Cmdline[had]
           e == NewEntry(block.name, kernel, cmdline, type, s)
           x == [e EXCEPT !.uuid = Had(block, "uuid", Nothing),
                          !.initrd = Had(block, "initrd", Nothing), !.secret = Secret(block)]
<1>1. es = <<>> \/ es = <<x>>
  BY DEF OfBlock
<1>2. Maybe(cmdline)
  BY TextAssumption DEF Maybe, Had, Block
<1> HIDE DEF cmdline
<1>3. Single(e)
  BY <1>2, NewEntryIs
<1> HIDE DEF e
<1>4. Single(x)
  <2> DEFINE u == Had(block, "uuid", Nothing)
             i == Had(block, "initrd", Nothing)
             c == Secret(block)
  <2> HIDE DEF u, i, c
  <2>1. IsEntry(e) BY <1>3 DEF Single
  <2>2. /\ IsEntry(x) /\ x.deps = e.deps /\ x.snapshots = e.snapshots /\ x.cmdline = e.cmdline
    <3>1. x = [e EXCEPT !.uuid = u, !.initrd = i, !.secret = c] BY DEF u, i, c
    <3> HIDE DEF x
    <3> QED BY <2>1, <3>1 DEF IsEntry
  <2> HIDE DEF x
  <2> QED BY <1>3, <2>2 DEF Single
<1> HIDE DEF es, x
<1>5. Singles(<<x>>)
  BY <1>4, OneIs DEF Singles
<1>6. Singles(<<>>)
  BY EmptyIs DEF Singles
<1> QED BY <1>1, <1>5, <1>6, Zenon DEF es

(* What the parser holds, typed.                                             *)
PState(p) ==
    Parsing(p) /\ Typed(p.settings) /\ Singles(p.entries) /\ Block(p.block)

(* The end of a block keeps it typed.                                        *)
LEMMA EndBlockIs == ASSUME NEW p, PState(p) PROVE PState(EndBlock(p))
<1> DEFINE q == EndBlock(p)
           own == OfBlock(p.block, p.settings)
<1>1. /\ Parsing(q) /\ q.settings = p.settings /\ q.block = Unchanged
      /\ q.entries = p.entries \o own
  <2> DEFINE new == p.entries \o own
  <2>1. q = [p EXCEPT !.inside = FALSE, !.block = Unchanged, !.entries = new]
    BY DEF EndBlock
  <2>2. Parsing(p) BY DEF PState
  <2> HIDE DEF q, new, own
  <2>3. Parsing(q) /\ q.settings = p.settings /\ q.block = Unchanged /\ q.entries = new
    BY <2>1, <2>2 DEF Parsing
  <2> QED BY <2>3 DEF new
<1>2. Singles(own) BY OfBlockIs DEF PState
<1> HIDE DEF q, own
<1>3. Singles(q.entries)
  <2> DEFINE u == q.entries
             s == p.entries
  <2>1. u = s \o own /\ Singles(s) BY <1>1 DEF PState
  <2>3. IsSeq(s) /\ IsSeq(own) BY <1>2, <2>1 DEF Singles
  <2>2. IsSeq(u) /\ Range(u) = Range(s) \cup Range(own)
    <3> HIDE DEF u, s
    <3>1. IsSeq(s \o own) /\ Range(s \o own) = Range(s) \cup Range(own) BY <2>3, ConcatIs
    <3> QED BY <2>1, <3>1, Zenon
  <2> QED BY <1>2, <2>1, <2>2 DEF Singles
<1>4. DOMAIN Unchanged = {} BY DEF Unchanged
<1>5. PState(q) BY <1>1, <1>3, <1>4 DEF PState, Block
<1> QED BY <1>5 DEF q

(* So does a key of a block.                                                 *)
LEMMA BlockKeyIs ==
    ASSUME NEW b, Block(b), NEW word, NEW v \in DOMAIN Cmdline
    PROVE  Block(BlockKey(word, v) ++ b)
<1> DEFINE k == BlockKey(word, v)
<1>1. "cmdline" \in DOMAIN k => k["cmdline"] = v
  BY DEF BlockKey, BlockSwitches, BlockTexts, Set, Unchanged
<1> DEFINE c == k ++ b
<1>2. /\ "cmdline" \in DOMAIN c => "cmdline" \in DOMAIN k \/ "cmdline" \in DOMAIN b
      /\ "cmdline" \in DOMAIN c =>
           c.cmdline = IF "cmdline" \in DOMAIN k THEN k["cmdline"] ELSE b.cmdline
  <2> HIDE DEF k
  <2> QED BY DEF ++
<1> HIDE DEF k, c
<1>3. Block(c) BY <1>1, <1>2 DEF Block
<1> QED BY <1>3 DEF c, k

(* So does any line.                                                         *)
LEMMA PStateLine ==
    ASSUME NEW p, PState(p), NEW l, l.value \in DOMAIN Number \cap DOMAIN Cmdline
    PROVE  PState(ParseLine(p, l))
<1> DEFINE q == ParseLine(p, l)
<1> SUFFICES PState(q) OBVIOUS
<1>1. \/ q = EndBlock(p) \/ q = p
      \/ q = [p EXCEPT !.block = BlockKey(l.key, l.value) ++ @]
      \/ q = [p EXCEPT !.settings = Applied(@, l.key, l.value)]
      \/ q = [p EXCEPT !.inside = TRUE,
                       !.block = [braced |-> l.kind = "open", windows |-> l.key = "windows"]]
  BY DEF ParseLine
<1> HIDE DEF q
<1>2. CASE q = EndBlock(p) BY <1>2, EndBlockIs
<1>3. CASE q = [p EXCEPT !.block = BlockKey(l.key, l.value) ++ @]
  <2> DEFINE b == BlockKey(l.key, l.value) ++ p.block
  <2>1. Block(b) BY BlockKeyIs DEF PState
  <2>2. q = [p EXCEPT !.block = b] BY <1>3
  <2> HIDE DEF b
  <2> QED BY <2>1, <2>2 DEF PState, Parsing
<1>4. CASE q = [p EXCEPT !.settings = Applied(@, l.key, l.value)]
  <2> DEFINE t == Applied(p.settings, l.key, l.value)
  <2>1. Typed(t) BY TypedApplied DEF PState
  <2>2. q = [p EXCEPT !.settings = t] BY <1>4
  <2> HIDE DEF t
  <2> QED BY <2>1, <2>2 DEF PState, Parsing
<1>5. CASE q = [p EXCEPT !.inside = TRUE,
                       !.block = [braced |-> l.kind = "open", windows |-> l.key = "windows"]]
  BY <1>5 DEF PState, Parsing, Block
<1> QED BY <1>1, <1>2, <1>3, <1>4, <1>5

(* The parser returns typed settings and entries of one file.                *)
LEMMA ParsedIs ==
    ASSUME NEW conf, Known(conf)
    PROVE  Typed(Parsed(conf).settings) /\ Singles(Parsed(conf).entries)
<1> DEFINE n == Len(conf)
           pa == [settings |-> Unchanged, entries |-> <<>>, inside |-> FALSE, block |-> Unchanged]
<1>1. n \in Nat /\ \A i \in 1..n : conf[i].value \in DOMAIN Number \cap DOMAIN Cmdline
  BY SeqIs DEF Known
<1>2. PICK r : /\ r[0] = pa
               /\ \A i \in 1..n : r[i] = ParseLine(r[i - 1], conf[i])
               /\ ParseFold(pa, conf) = r[n]
  <2> HIDE DEF pa
  <2> QED BY <1>1, ParseSteps
<1> DEFINE U == {k \in Nat : k <= n => PState(r[k])}
<1>3. 0 \in U
  <2>1. DOMAIN Unchanged = {} BY DEF Unchanged
  <2>2. PState(pa) BY <2>1, TypedUnchanged, EmptyIs DEF PState, Parsing, Singles, Block
  <2> QED BY <1>2, <2>2
<1>4. ASSUME NEW k \in Nat, k \in U PROVE k + 1 \in U
  <2>1. SUFFICES ASSUME k + 1 <= n PROVE PState(r[k + 1]) OBVIOUS
  <2>2. PState(r[k]) /\ k + 1 \in 1..n /\ (k + 1) - 1 = k BY <1>1, <1>4, <2>1
  <2>3. r[k + 1] = ParseLine(r[k], conf[k + 1])
    <3> HIDE DEF pa
    <3> QED BY <1>2, <2>2
  <2>4. conf[k + 1].value \in DOMAIN Number \cap DOMAIN Cmdline BY <1>1, <2>2
  <2> QED BY <2>2, <2>3, <2>4, PStateLine
<1>5. n \in U
  <2> HIDE DEF U
  <2> QED BY <1>1, <1>3, <1>4, NatSet
<1>6. Parsed(conf) = IF r[n].inside THEN EndBlock(r[n]) ELSE r[n]
  BY <1>2 DEF Parsed, ParseFold
<1>7. PState(Parsed(conf)) BY <1>1, <1>5, <1>6, EndBlockIs
<1> QED BY <1>7 DEF PState

-----------------------------------------------------------------------------
(* Entries the search finds are whole: volumes, and the first option known.  *)

(* A group boots its default deployment: its file, its initrd, and the       *)
(* options NewEntry gives that deployment.                                   *)
BootsDefault(s, e) ==
    /\ e.dflt \in 1..Len(e.deps) /\ e.sel \in 1..Len(e.deps)
    /\ LET d == e.deps[e.dflt]
       IN  /\ e.path = d.path /\ e.initrd = d.initrd
           /\ e.cmdline = NewEntry(e.name, d.path, d.cmdline, e.type, s).cmdline

(* Deployments, with their options.                                          *)
Deployments(deps) == IsSeq(deps) /\ \A d \in Range(deps) : Maybe(d.cmdline)

(* An entry before snapshots are attached: one file, or a group that boots   *)
(* its default.                                                              *)
Whole(s, e) ==
    /\ IsEntry(e) /\ e.snapshots = <<>> /\ Maybe(e.cmdline) /\ Deployments(e.deps)
    /\ e.deps # <<>> => BootsDefault(s, e)

(* A list of such entries.                                                   *)
Wholes(s, es) == IsSeq(es) /\ \A e \in Range(es) : Whole(s, e)

(* An entry of one file is whole.                                            *)
LEMMA SingleWhole == ASSUME NEW s, NEW e, Single(e) PROVE Whole(s, e)
  BY EmptyIs DEF Single, Whole, Deployments

(* So is a list of them.                                                     *)
LEMMA SinglesWhole == ASSUME NEW s, NEW es, Singles(es) PROVE Wholes(s, es)
  BY SingleWhole DEF Singles, Wholes

(* An empty list is whole.                                                   *)
LEMMA EmptyWholes == ASSUME NEW s PROVE Wholes(s, <<>>)
  BY EmptyIs DEF Wholes

(* A list of one whole entry is.                                             *)
LEMMA OneWholes == ASSUME NEW s, NEW e, Whole(s, e) PROVE Wholes(s, <<e>>)
  BY OneIs DEF Wholes

(* Two whole lists joined are.                                               *)
LEMMA ConcatWholes ==
    ASSUME NEW s, NEW a, NEW b, Wholes(s, a), Wholes(s, b) PROVE Wholes(s, a \o b)
<1>1. IsSeq(a \o b) /\ Range(a \o b) = Range(a) \cup Range(b)
  BY ConcatIs DEF Wholes
<1> QED BY <1>1 DEF Wholes

(* A list made element by element is, if each element is.                    *)
LEMMA MapWholes ==
    ASSUME NEW s, NEW n \in Nat, NEW f, f = [i \in 1..n |-> f[i]],
           \A i \in 1..n : Whole(s, f[i])
    PROVE  Wholes(s, f)
<1>1. IsSeq(f) /\ Len(f) = n BY FcnIs
<1>2. \A e \in Range(f) : \E i \in 1..n : e = f[i] BY <1>1, SeqIs
<1> QED BY <1>1, <1>2 DEF Wholes

(* Whole lists joined by Each are.                                           *)
LEMMA FlatWholes ==
    ASSUME NEW s, NEW n \in Nat, NEW ss, ss = [i \in 1..n |-> ss[i]],
           \A i \in 1..n : Wholes(s, ss[i])
    PROVE  Wholes(s, FlattenSeq(ss))
<1>1. Parts(ss) /\ Len(ss) = n BY FcnIs DEF Wholes, Parts
<1>2. /\ IsSeq(FlattenSeq(ss))
      /\ Range(FlattenSeq(ss)) = UNION {Range(ss[i]) : i \in 1..n}
  BY <1>1, FlatIs
<1> QED BY <1>2 DEF Wholes

(* Tag_entries_since keeps entries whole.                                    *)
LEMMA TaggedIs ==
    ASSUME NEW s, NEW found, Wholes(s, found), NEW v
    PROVE  Wholes(s, Tagged(found, v))
<1> DEFINE t == Tagged(found, v)
           n == Len(found)
<1>1. n \in Nat /\ DOMAIN found = 1..n /\ \A i \in 1..n : Whole(s, found[i])
  BY SeqIs DEF Wholes
<1>2. t = [i \in 1..n |-> [found[i] EXCEPT !.volume = v,
                              !.uuid = IF @ = Nothing THEN Uuid(v) ELSE @]]
  BY <1>1 DEF Tagged
<1> HIDE DEF t, n
<1>3. ASSUME NEW i \in 1..n PROVE Whole(s, t[i])
  <2> DEFINE e == found[i]
             u == IF e.uuid = Nothing THEN Uuid(v) ELSE e.uuid
             x == t[i]
  <2>1. x = [e EXCEPT !.volume = v, !.uuid = u] BY <1>2
  <2>2. Whole(s, e) BY <1>1
  <2> HIDE DEF e, u, x
  <2>3. /\ IsEntry(x) /\ x.name = e.name /\ x.path = e.path /\ x.type = e.type
        /\ x.cmdline = e.cmdline /\ x.initrd = e.initrd /\ x.deps = e.deps
        /\ x.dflt = e.dflt /\ x.sel = e.sel /\ x.snapshots = e.snapshots
    BY <2>1, <2>2 DEF Whole, IsEntry
  <2>4. Whole(s, x)
    BY <2>2, <2>3 DEF Whole, BootsDefault
  <2> QED BY <2>4 DEF x
<1>4. t = [i \in 1..n |-> t[i]] BY <1>2
<1>5. Wholes(s, t) BY <1>1, <1>3, <1>4, MapWholes
<1> QED BY <1>5 DEF t

(* What the assumptions say of one volume.                                   *)
OnVolume(vol) ==
    /\ IsSeq(vol.bls) /\ IsSeq(vol.ukis) /\ IsSeq(vol.raw) /\ IsSeq(vol.vendors)
    /\ Maybe(vol.fstab) /\ \A k \in DOMAIN vol.options : Maybe(vol.options[k])
    /\ \A u \in Range(vol.ukis) : Maybe(u.cmdline)
    /\ \A deps \in Range(vol.bls) : deps # <<>> /\ Deployments(deps)

(* They say it of every volume of a machine.                                 *)
LEMMA VolumesAre ==
    ASSUME input \in Inputs
    PROVE  /\ \A v \in AllVolumes : OnVolume(Vol(v))
           /\ IsSeq(input.roots) /\ \A r \in Range(input.roots) : Maybe(r.cmdline)
<1>1. IsSeq(input.roots) /\ \A r \in Range(input.roots) : Maybe(r.cmdline)
  BY InputsAssumption
<1>2. ASSUME NEW v \in AllVolumes PROVE OnVolume(Vol(v))
  BY InputsAssumption DEF OnVolume, Vol, Deployments
<1> QED BY <1>1, <1>2

(* The handles are a sequence of the volumes.                                *)
LEMMA OrderIs == IsSeq(VolumeOrder) /\ AllVolumes = Range(VolumeOrder)
  BY DiscoveryAssumption DEF AllVolumes

(* The volumes opened are volumes.                                           *)
LEMMA ScannedIs ==
    ASSUME NEW quick
    PROVE  IsSeq(Scanned(quick)) /\ Range(Scanned(quick)) \subseteq AllVolumes
<1> DEFINE K == {i \in 1..Len(VolumeOrder) :
                   Wants(quick, VolumeOrder[i]) /\ Vol(VolumeOrder[i]).opens}
<1>1. DOMAIN VolumeOrder = 1..Len(VolumeOrder) BY OrderIs, SeqIs
<1>2. Scanned(quick) = Kept(VolumeOrder, K)
  BY <1>1 DEF Scanned, Those, Kept, KeptParts
<1> HIDE DEF K
<1>3. IsSeq(Kept(VolumeOrder, K))
      /\ Range(Kept(VolumeOrder, K)) = {VolumeOrder[i] : i \in K \cap (1..Len(VolumeOrder))}
  BY OrderIs, KeptIs
<1>4. \A i \in 1..Len(VolumeOrder) : VolumeOrder[i] \in AllVolumes
  BY OrderIs, SeqIs
<1> QED BY <1>2, <1>3, <1>4

(* The first known command line is a command line, or there is none.         *)
LEMMA EarliestIs ==
    ASSUME NEW seq, IsSeq(seq), \A i \in 1..Len(seq) : Maybe(seq[i])
    PROVE  Maybe(Earliest(seq))
<1> DEFINE K == {i \in 1..Len(seq) : seq[i] # Nothing}
           all == Kept(seq, K)
<1>1. DOMAIN seq = 1..Len(seq) BY SeqIs
<1>2. Earliest(seq) = First(all)
  BY <1>1 DEF Earliest, Those, Kept, KeptParts
<1>3. IsSeq(all) /\ Range(all) = {seq[i] : i \in K \cap (1..Len(seq))}
  <2> HIDE DEF K
  <2> QED BY KeptIs
<1>4. \A x \in Range(all) : Maybe(x) BY <1>3
<1> HIDE DEF all, K
<1>5. all # <<>> => 1 \in 1..Len(all)
  <2>1. Len(all) \in Nat BY <1>3, SeqIs
  <2>2. Len(all) = 0 => all = <<>> BY <1>3, EmptyIs, SameSeq
  <2> QED BY <2>1, <2>2
<1>6. all # <<>> => all[1] \in Range(all) BY <1>3, <1>5, SeqIs
<1> QED BY <1>2, <1>4, <1>6 DEF First, Maybe

-----------------------------------------------------------------------------
(* Groups, unified images and Windows.                                       *)

(* A group of Group boots its default deployment.                            *)
LEMMA GroupWhole ==
    ASSUME Typed(settings), NEW v, NEW deps, deps # <<>>, Deployments(deps)
    PROVE  Whole(settings, Group(v, deps))
<1> DEFINE at == IF Len(deps) > 1 /\ deps[1].left = 0 THEN 2 ELSE 1
           e == NewEntry(deps[1].title, deps[at].path, deps[at].cmdline, 0, settings)
           x == [e EXCEPT !.deps = deps, !.dflt = at, !.sel = at, !.initrd = deps[at].initrd]
<1>1. Len(deps) \in Nat /\ Len(deps) # 0 /\ IsSeq(deps)
  BY SeqIs, SameSeq, EmptyIs DEF Deployments
<1>2. at \in 1..Len(deps)
  BY <1>1
<1>3. Group(v, deps) = x
  BY DEF Group
<1> HIDE DEF at
<1>4. Maybe(deps[at].cmdline)
  BY <1>1, <1>2, SeqIs DEF Deployments
<1>5. /\ Single(e) /\ e.name = deps[1].title /\ e.path = deps[at].path /\ e.type = 0
  BY <1>4, NewEntryIs
<1>6. e.cmdline = NewEntry(e.name, deps[at].path, deps[at].cmdline, e.type, settings).cmdline
  BY <1>5
<1> HIDE DEF e, x
<1>7. /\ IsEntry(x) /\ x.name = e.name /\ x.path = e.path /\ x.type = e.type
      /\ x.cmdline = e.cmdline /\ x.snapshots = <<>> /\ Maybe(x.cmdline)
      /\ x.deps = deps /\ x.dflt = at /\ x.sel = at /\ x.initrd = deps[at].initrd
  <2> DEFINE y == deps[at].initrd
  <2> HIDE DEF y
  <2>1. x = [e EXCEPT !.deps = deps, !.dflt = at, !.sel = at, !.initrd = y] BY DEF x, y
  <2>2. /\ IsEntry(x) /\ x.name = e.name /\ x.path = e.path /\ x.type = e.type
        /\ x.cmdline = e.cmdline /\ x.snapshots = <<>> /\ Maybe(x.cmdline)
        /\ x.deps = deps /\ x.dflt = at /\ x.sel = at /\ x.initrd = y
    BY <1>5, <2>1 DEF Single, IsEntry
  <2> QED BY <2>2 DEF y
<1>8. BootsDefault(settings, x)
  BY <1>2, <1>5, <1>6, <1>7 DEF BootsDefault
<1>9. Whole(settings, x)
  BY <1>7, <1>8 DEF Whole
<1> QED BY <1>3, <1>9, Zenon

(* NewEntry makes a whole entry.                                             *)
LEMMA NewWhole ==
    ASSUME Typed(settings), NEW name, NEW path, NEW cmdline, Maybe(cmdline), NEW type
    PROVE  Whole(settings, NewEntry(name, path, cmdline, type, settings))
  BY NewEntryIs, SingleWhole

(* Bls_detect finds whole entries.                                           *)
LEMMA GroupsWhole ==
    ASSUME Typed(settings), input \in Inputs, NEW quick
    PROVE  Wholes(settings, Groups(quick))
<1> DEFINE sc == Scanned(quick)
           n == Len(sc)
           ss == [i \in 1..n |-> Tagged([g \in DOMAIN Vol(sc[i]).bls |->
                                           Group(sc[i], Vol(sc[i]).bls[g])], sc[i])]
<1>1. n \in Nat /\ DOMAIN sc = 1..n /\ \A i \in 1..n : sc[i] \in AllVolumes
  BY ScannedIs, SeqIs
<1>2. Groups(quick) = FlattenSeq(ss)
  BY <1>1 DEF Groups, Each
<1> HIDE DEF sc, n
<1>3. ASSUME NEW i \in 1..n PROVE Wholes(settings, ss[i])
  <2> DEFINE v == sc[i]
             bls == Vol(v).bls
             m == Len(bls)
             f == [g \in DOMAIN bls |-> Group(v, bls[g])]
  <2>1. IsSeq(bls) /\ \A deps \in Range(bls) : deps # <<>> /\ Deployments(deps)
    BY <1>1, VolumesAre DEF OnVolume
  <2>2. ss[i] = Tagged(f, v) OBVIOUS
  <2> HIDE DEF v, bls, ss
  <2>3. m \in Nat /\ DOMAIN bls = 1..m /\ \A g \in 1..m : bls[g] \in Range(bls)
    BY <2>1, SeqIs
  <2>4. f = [g \in 1..m |-> f[g]] /\ \A g \in 1..m : f[g] = Group(v, bls[g])
    BY <2>3
  <2> HIDE DEF f, m
  <2>5. \A g \in 1..m : Whole(settings, f[g])
    BY <2>1, <2>3, <2>4, GroupWhole
  <2>6. Wholes(settings, f) BY <2>3, <2>4, <2>5, MapWholes
  <2> QED BY <2>2, <2>6, TaggedIs
<1>4. ss = [i \in 1..n |-> ss[i]] OBVIOUS
<1> HIDE DEF ss
<1> QED BY <1>1, <1>2, <1>3, <1>4, FlatWholes

(* So does the search for unified images.                                    *)
LEMMA UkisWhole ==
    ASSUME Typed(settings), input \in Inputs, NEW v \in AllVolumes
    PROVE  Wholes(settings, Ukis(v))
<1> DEFINE all == Vol(v).ukis
           K == {i \in 1..Len(all) : ~all[i].loader}
           usable == Kept(all, K)
           m == Len(usable)
           f == [i \in 1..m |-> NewEntry(usable[i].name, usable[i].path, Nothing, 0, settings)]
<1>1. IsSeq(all) BY VolumesAre DEF OnVolume
<1>2. DOMAIN all = 1..Len(all) BY <1>1, SeqIs
<1>3. IsSeq(usable)
  <2> HIDE DEF all, K
  <2> QED BY <1>1, KeptIs
<1>4. m \in Nat /\ DOMAIN usable = 1..m
  <2> HIDE DEF usable
  <2> QED BY <1>3, SeqIs
<1>5. usable = Those(all, LAMBDA u : ~u.loader)
  BY <1>2 DEF Those, Kept, KeptParts
<1>6. Ukis(v) = f
  BY <1>4, <1>5 DEF Ukis
<1> HIDE DEF all, K, usable, m
<1>7. Maybe(Nothing) BY DEF Maybe
<1>8. f = [i \in 1..m |-> f[i]] /\ \A i \in 1..m : Whole(settings, f[i])
  BY <1>7, NewWhole
<1> HIDE DEF f
<1> QED BY <1>4, <1>6, <1>8, MapWholes

(* So does the search for Windows.                                           *)
LEMMA WindowsWhole ==
    ASSUME Typed(settings), NEW v
    PROVE  Wholes(settings, Windows(v))
<1>1. Maybe(Nothing) BY DEF Maybe
<1> DEFINE e == NewEntry("Windows Boot Manager", Vol(v).windows[1], Nothing, 1, settings)
<1>2. Windows(v) = <<>> \/ Windows(v) = <<e>> BY DEF Windows
<1>3. Whole(settings, e) BY <1>1, NewWhole
<1> HIDE DEF e
<1> QED BY <1>2, <1>3, EmptyWholes, OneWholes, Zenon

(* So does the pass that looks for both.                                     *)
LEMMA WindowsAndUkisWhole ==
    ASSUME Typed(settings), input \in Inputs, NEW quick
    PROVE  Wholes(settings, WindowsAndUkis(quick))
<1> DEFINE vols == Scanned(quick)
           n == Len(vols)
           with == {i \in DOMAIN vols : Vol(vols[i]).windows # <<>>}
           first(i) == i \in with /\ \A j \in with : i <= j
           win(i) == IF first(i) THEN Windows(vols[i]) ELSE <<>>
           ss == [i \in 1..n |-> Tagged(win(i) \o Ukis(vols[i]), vols[i])]
<1>1. n \in Nat /\ DOMAIN vols = 1..n /\ \A i \in 1..n : vols[i] \in AllVolumes
  BY ScannedIs, SeqIs
<1>2. WindowsAndUkis(quick) = FlattenSeq(ss)
  BY <1>1 DEF WindowsAndUkis
<1> HIDE DEF vols, n
<1>3. ASSUME NEW i \in 1..n PROVE Wholes(settings, ss[i])
  <2>1. Wholes(settings, win(i)) BY WindowsWhole, EmptyWholes
  <2>2. Wholes(settings, Ukis(vols[i])) BY <1>1, UkisWhole
  <2>3. ss[i] = Tagged(win(i) \o Ukis(vols[i]), vols[i])
    <3> HIDE DEF win
    <3> QED OBVIOUS
  <2> HIDE DEF win, ss
  <2>4. Wholes(settings, win(i) \o Ukis(vols[i])) BY <2>1, <2>2, ConcatWholes
  <2>5. Wholes(settings, Tagged(win(i) \o Ukis(vols[i]), vols[i])) BY <2>4, TaggedIs
  <2> QED BY <2>3, <2>5, Zenon
<1>4. ss = [i \in 1..n |-> ss[i]] OBVIOUS
<1> HIDE DEF ss
<1> QED BY <1>1, <1>2, <1>3, <1>4, FlatWholes

(* Dc_derive_cmdline returns a command line or none.                         *)
LEMMA DerivedIs ==
    ASSUME input \in Inputs, NEW v \in AllVolumes
    PROVE  Maybe(Derived(v))
<1>1. Maybe(UkiCmdline(v))
  <2> DEFINE all == Vol(v).ukis
             n == Len(all)
             f == [i \in 1..n |-> all[i].cmdline]
  <2>1. IsSeq(all) /\ \A u \in Range(all) : Maybe(u.cmdline)
    BY VolumesAre DEF OnVolume
  <2> HIDE DEF all
  <2>2. n \in Nat /\ DOMAIN all = 1..n /\ \A i \in 1..n : all[i] \in Range(all)
    BY <2>1, SeqIs
  <2>3. UkiCmdline(v) = Earliest(f) BY <2>2 DEF UkiCmdline, all
  <2>4. f = [i \in 1..n |-> f[i]] /\ \A i \in 1..n : Maybe(f[i]) BY <2>1, <2>2
  <2> HIDE DEF f, n
  <2>5. IsSeq(f) /\ Len(f) = n BY <2>2, <2>4, FcnIs
  <2> QED BY <2>3, <2>4, <2>5, EarliestIs
<1>2. Maybe(Fstab(v))
  BY VolumesAre DEF OnVolume, Fstab
<1>3. ASSUME NEW same PROVE Maybe(OthersFstab(v, same))
  <2> DEFINE K == {i \in 1..Len(VolumeOrder) :
                     /\ VolumeOrder[i] # v /\ (SameDisk(VolumeOrder[i], v) <=> same)
                     /\ Vol(VolumeOrder[i]).opens}
             vols == Kept(VolumeOrder, K)
             n == Len(vols)
             f == [i \in 1..n |-> Fstab(vols[i])]
  <2>1. DOMAIN VolumeOrder = 1..Len(VolumeOrder) BY OrderIs, SeqIs
  <2>2. vols = Those(VolumeOrder,
                  LAMBDA u : u # v /\ (SameDisk(u, v) <=> same) /\ Vol(u).opens)
    BY <2>1 DEF Those, Kept, KeptParts
  <2>3. IsSeq(vols) /\ Range(vols) \subseteq AllVolumes
    <3> HIDE DEF K
    <3>1. IsSeq(vols) /\ Range(vols) = {VolumeOrder[i] : i \in K \cap (1..Len(VolumeOrder))}
      BY OrderIs, KeptIs
    <3>2. \A i \in 1..Len(VolumeOrder) : VolumeOrder[i] \in AllVolumes
      BY OrderIs, SeqIs
    <3> HIDE DEF vols
    <3> QED BY <3>1, <3>2
  <2>4. n \in Nat /\ DOMAIN vols = 1..n /\ \A i \in 1..n : vols[i] \in AllVolumes
    <3> HIDE DEF vols
    <3> QED BY <2>3, SeqIs
  <2>5. OthersFstab(v, same) = Earliest(f)
    BY <2>2, <2>4 DEF OthersFstab
  <2> HIDE DEF vols, n
  <2>6. f = [i \in 1..n |-> f[i]] /\ \A i \in 1..n : Maybe(f[i])
    BY <2>4, VolumesAre DEF Fstab, OnVolume
  <2> HIDE DEF f
  <2>7. IsSeq(f) /\ Len(f) = n BY <2>4, <2>6, FcnIs
  <2> QED BY <2>5, <2>6, <2>7, EarliestIs
<1>4. Maybe(GptRoot(v))
  <2> DEFINE roots == input.roots
             K(same) == {i \in 1..Len(roots) : SameDisk(roots[i].disk, v) <=> same}
             d(same) == Kept(roots, K(same))
             all == d(TRUE) \o d(FALSE)
  <2>1. IsSeq(roots) /\ \A r \in Range(roots) : Maybe(r.cmdline) BY VolumesAre
  <2>2. DOMAIN roots = 1..Len(roots) /\ \A i \in 1..Len(roots) : roots[i] \in Range(roots)
    BY <2>1, SeqIs
  <2>3. \A same \in BOOLEAN :
          d(same) = Those(roots, LAMBDA r : SameDisk(r.disk, v) <=> same)
    BY <2>2 DEF Those, Kept, KeptParts
  <2>4. GptRoot(v) = IF all = <<>> THEN Nothing ELSE all[1].cmdline
    BY <2>3 DEF GptRoot
  <2>5. \A same \in BOOLEAN : IsSeq(d(same)) /\ Range(d(same)) \subseteq Range(roots)
    <3> SUFFICES ASSUME NEW same \in BOOLEAN
                 PROVE  IsSeq(d(same)) /\ Range(d(same)) \subseteq Range(roots)
      OBVIOUS
    <3> HIDE DEF K, roots
    <3>1. /\ IsSeq(d(same))
          /\ Range(d(same)) = {roots[i] : i \in K(same) \cap (1..Len(roots))}
      BY <2>1, KeptIs
    <3> QED BY <2>2, <3>1
  <2> HIDE DEF d, roots
  <2>6. IsSeq(all) /\ Range(all) \subseteq Range(roots)
    <3>1. IsSeq(all) /\ Range(all) = Range(d(TRUE)) \cup Range(d(FALSE))
      BY <2>5, ConcatIs
    <3> QED BY <2>5, <3>1
  <2> HIDE DEF all
  <2>7. all # <<>> => all[1] \in Range(roots)
    <3>1. Len(all) \in Nat BY <2>6, SeqIs
    <3>2. Len(all) = 0 => all = <<>> BY <2>6, EmptyIs, SameSeq
    <3>3. all # <<>> => all[1] \in Range(all) BY <2>6, <3>1, <3>2, SeqIs
    <3> QED BY <2>6, <3>3
  <2> QED BY <2>1, <2>4, <2>7 DEF Maybe
<1> DEFINE f == <<UkiCmdline(v), Fstab(v), OthersFstab(v, TRUE), OthersFstab(v, FALSE), GptRoot(v)>>
<1>5. Derived(v) = Earliest(f) BY DEF Derived
<1>6. IsSeq(f) /\ \A i \in 1..Len(f) : Maybe(f[i])
  <2>1. Len(f) = 5 /\ f = [i \in 1..5 |-> f[i]] OBVIOUS
  <2>2. f[1] = UkiCmdline(v) /\ f[2] = Fstab(v) /\ f[3] = OthersFstab(v, TRUE)
        /\ f[4] = OthersFstab(v, FALSE) /\ f[5] = GptRoot(v)
    OBVIOUS
  <2> HIDE DEF f
  <2>4. Maybe(f[1]) /\ Maybe(f[2]) /\ Maybe(f[3]) /\ Maybe(f[4]) /\ Maybe(f[5])
    BY <1>1, <1>2, <1>3, <1>4, <2>2, Zenon
  <2>3. ASSUME NEW i \in 1..5 PROVE Maybe(f[i])
    <3>1. i = 1 \/ i = 2 \/ i = 3 \/ i = 4 \/ i = 5 OBVIOUS
    <3> QED BY <2>4, <3>1, Zenon
  <2> QED BY <2>1, <2>3, FcnIs
<1> HIDE DEF f
<1> QED BY <1>5, <1>6, EarliestIs

-----------------------------------------------------------------------------
(* Kernels and vendor loaders, and all that Found puts together.             *)

(* The entry of a bare kernel is whole.                                      *)
LEMMA KernelWhole ==
    ASSUME Typed(settings), input \in Inputs, NEW v \in AllVolumes, NEW k
    PROVE  Whole(settings, Kernel(v, k))
<1> DEFINE f == <<Options(v, k.name), Derived(v)>>
           e == NewEntry(k.name, k.path, Earliest(f), 0, settings)
           y == First(k.initrds)
           x == [e EXCEPT !.initrd = y]
<1>1. Maybe(Options(v, k.name))
  BY VolumesAre DEF Options, OnVolume, Maybe
<1>2. Maybe(Derived(v)) BY DerivedIs
<1>3. IsSeq(f) /\ \A i \in 1..Len(f) : Maybe(f[i])
  <2>1. Len(f) = 2 /\ f = [i \in 1..2 |-> f[i]] OBVIOUS
  <2>2. f[1] = Options(v, k.name) /\ f[2] = Derived(v) OBVIOUS
  <2> HIDE DEF f
  <2>4. Maybe(f[1]) /\ Maybe(f[2]) BY <1>1, <1>2, <2>2, Zenon
  <2>3. ASSUME NEW i \in 1..2 PROVE Maybe(f[i])
    <3>1. i = 1 \/ i = 2 OBVIOUS
    <3> QED BY <2>4, <3>1, Zenon
  <2> QED BY <2>1, <2>3, FcnIs
<1>4. Kernel(v, k) = x BY DEF Kernel
<1> HIDE DEF f
<1>5. Single(e)
  BY <1>3, EarliestIs, NewEntryIs
<1> HIDE DEF e, y
<1>6. Single(x)
  BY <1>5 DEF Single, IsEntry
<1> HIDE DEF x
<1>7. Whole(settings, x) BY <1>6, SingleWhole
<1> QED BY <1>4, <1>7, Zenon

(* So are those of all bare kernels.                                         *)
LEMMA RawKernelsWhole ==
    ASSUME Typed(settings), input \in Inputs, NEW quick
    PROVE  Wholes(settings, RawKernels(quick))
<1> DEFINE sc == Scanned(quick)
           n == Len(sc)
           K(v) == {i \in 1..Len(Vol(v).raw) : Vol(v).raw[i].kernel}
           kernels(v) == Kept(Vol(v).raw, K(v))
           f(v) == [i \in DOMAIN kernels(v) |-> Kernel(v, kernels(v)[i])]
           ss == [i \in 1..n |-> Tagged(f(sc[i]), sc[i])]
<1>1. n \in Nat /\ DOMAIN sc = 1..n /\ \A i \in 1..n : sc[i] \in AllVolumes
  BY ScannedIs, SeqIs
<1>2. \A v \in AllVolumes : kernels(v) = Those(Vol(v).raw, LAMBDA k : k.kernel)
  <2> SUFFICES ASSUME NEW v \in AllVolumes
               PROVE  kernels(v) = Those(Vol(v).raw, LAMBDA k : k.kernel)
    OBVIOUS
  <2>1. DOMAIN Vol(v).raw = 1..Len(Vol(v).raw) BY VolumesAre, SeqIs DEF OnVolume
  <2> QED BY <2>1 DEF Those, Kept, KeptParts
<1> DEFINE F(v) == LET ks == Those(Vol(v).raw, LAMBDA k : k.kernel)
                   IN  Tagged([i \in DOMAIN ks |-> Kernel(v, ks[i])], v)
<1>3. ASSUME NEW v \in AllVolumes PROVE F(v) = Tagged(f(v), v)
  <2>1. Those(Vol(v).raw, LAMBDA k : k.kernel) = kernels(v) BY <1>2
  <2> HIDE DEF kernels
  <2> QED BY <2>1
<1>4. RawKernels(quick) = FlattenSeq([i \in DOMAIN sc |-> F(sc[i])])
  BY DEF RawKernels, Each
<1> HIDE DEF F
<1>5. RawKernels(quick) = FlattenSeq(ss)
  <2> HIDE DEF f, sc, n
  <2>1. [i \in DOMAIN sc |-> F(sc[i])] = ss BY <1>1, <1>3
  <2> QED BY <1>4, <2>1, Zenon
<1> HIDE DEF sc, n
<1>6. ASSUME NEW i \in 1..n PROVE Wholes(settings, ss[i])
  <2> DEFINE v == sc[i]
             all == Vol(v).raw
             ks == kernels(v)
             m == Len(ks)
             g == f(v)
  <2>1. IsSeq(all) BY <1>1, VolumesAre DEF OnVolume
  <2>2. IsSeq(ks)
    <3> HIDE DEF K, all
    <3>1. IsSeq(Kept(all, K(v))) BY <2>1, KeptIs
    <3> QED BY <3>1 DEF all
  <2>3. ss[i] = Tagged(g, v) OBVIOUS
  <2> HIDE DEF kernels, ss
  <2>4. m \in Nat /\ DOMAIN ks = 1..m
    <3> HIDE DEF ks
    <3> QED BY <2>2, SeqIs
  <2>5. g = [j \in 1..m |-> g[j]] /\ \A j \in 1..m : g[j] = Kernel(v, ks[j])
    <3> HIDE DEF ks, v
    <3> QED BY <2>4 DEF ks
  <2>6. v \in AllVolumes BY <1>1
  <2> HIDE DEF g, v, m
  <2>7. \A j \in 1..m : Whole(settings, g[j]) BY <2>5, <2>6, KernelWhole
  <2>8. Wholes(settings, g) BY <2>4, <2>5, <2>7, MapWholes
  <2> QED BY <2>3, <2>8, TaggedIs
<1>7. ss = [i \in 1..n |-> ss[i]]
  <2> HIDE DEF f
  <2> QED OBVIOUS
<1> HIDE DEF ss
<1> QED BY <1>1, <1>5, <1>6, <1>7, FlatWholes

(* So are those of the vendors' loaders.                                     *)
LEMMA VendorsWhole ==
    ASSUME Typed(settings), input \in Inputs, NEW quick
    PROVE  Wholes(settings, Vendors(quick))
<1> DEFINE sc == Scanned(quick)
           n == Len(sc)
           f(v) == [i \in DOMAIN Vol(v).vendors |->
                      NewEntry("vendor", Vol(v).vendors[i], Nothing, 0, settings)]
           ss == [i \in 1..n |-> Tagged(f(sc[i]), sc[i])]
<1>1. n \in Nat /\ DOMAIN sc = 1..n /\ \A i \in 1..n : sc[i] \in AllVolumes
  BY ScannedIs, SeqIs
<1>2. Vendors(quick) = FlattenSeq(ss)
  BY <1>1 DEF Vendors, Each
<1> HIDE DEF sc, n
<1>3. ASSUME NEW i \in 1..n PROVE Wholes(settings, ss[i])
  <2> DEFINE v == sc[i]
             all == Vol(v).vendors
             m == Len(all)
             g == f(v)
  <2>1. IsSeq(all) BY <1>1, VolumesAre DEF OnVolume
  <2>2. ss[i] = Tagged(g, v) OBVIOUS
  <2>3. m \in Nat /\ DOMAIN all = 1..m
    <3> HIDE DEF all
    <3> QED BY <2>1, SeqIs
  <2>4. Maybe(Nothing) BY DEF Maybe
  <2>5. /\ g = [j \in 1..m |-> g[j]]
        /\ \A j \in 1..m : g[j] = NewEntry("vendor", all[j], Nothing, 0, settings)
    BY <2>3
  <2> HIDE DEF v, all, ss, m, g
  <2>6. \A j \in 1..m : Whole(settings, g[j]) BY <2>4, <2>5, NewWhole
  <2>7. Wholes(settings, g) BY <2>3, <2>5, <2>6, MapWholes
  <2> QED BY <2>2, <2>7, TaggedIs
<1>4. ss = [i \in 1..n |-> ss[i]] OBVIOUS
<1> HIDE DEF ss
<1> QED BY <1>1, <1>2, <1>3, <1>4, FlatWholes

(* Everything detection finds is whole.                                      *)
LEMMA FoundWhole ==
    ASSUME Typed(settings), input \in Inputs
    PROVE  Wholes(settings, Found)
<1>1. ASSUME NEW quick PROVE Wholes(settings, Search(quick))
  <2> DEFINE groups == Groups(quick)
             plain == WindowsAndUkis(quick)
             raw == IF groups = <<>> THEN RawKernels(quick) ELSE <<>>
             quiet == groups = <<>> /\ raw = <<>> /\ \A e \in Range(plain) : e.type = 1
             rest == IF quiet THEN Vendors(quick) ELSE <<>>
  <2>1. Search(quick) = groups \o plain \o raw \o rest
    BY DEF Search
  <2>2. /\ Wholes(settings, groups) /\ Wholes(settings, plain)
        /\ Wholes(settings, raw) /\ Wholes(settings, rest)
    BY GroupsWhole, WindowsAndUkisWhole, RawKernelsWhole, VendorsWhole, EmptyWholes
  <2> HIDE DEF groups, plain, raw, rest
  <2>3. Wholes(settings, groups \o plain) BY <2>2, ConcatWholes
  <2>4. Wholes(settings, (groups \o plain) \o raw) BY <2>2, <2>3, ConcatWholes
  <2>5. Wholes(settings, ((groups \o plain) \o raw) \o rest) BY <2>2, <2>4, ConcatWholes
  <2> QED BY <2>1, <2>5, Zenon
<1> QED BY <1>1 DEF Found

-----------------------------------------------------------------------------
(* The second invariant of Discovery, of values instead of variables.        *)

(* IsSelf, of the machine as a value.                                        *)
SelfIn(in, e, path) ==
    /\ path = in.self.path
    /\ e.volume \in {Nothing, in.self.volume}
    /\ e.volume = Nothing /\ e.uuid # Nothing =>
         in.volumes[in.self.volume].guid /\ e.uuid = in.self.volume

(* Others, of the machine and the settings as values.                        *)
OthersIn(in, s, e) ==
    Those(Boots(e), LAMBDA b : ~SelfIn(in, e, b.path) \/ ~Get(s, "exclude_self"))

(* All files but the loader's own are kept: the lists before (bs) and after  *)
(* (es), as values.                                                          *)
OnlySelf(in, s, es, at, bs, was) ==
    /\ FlattenSeq([i \in DOMAIN es |-> Boots(es[i])])
         = FlattenSeq([i \in DOMAIN bs |-> OthersIn(in, s, bs[i])])
    /\ was < Len(bs) /\ OthersIn(in, s, bs[was + 1]) # <<>>
       => at < Len(es) /\ OthersIn(in, s, bs[was + 1]) = Boots(es[at + 1])
    /\ \A e \in Range(es) : e.deps # <<>> =>
         LET d == e.deps[e.dflt]
             fresh == NewEntry(e.name, d.path, d.cmdline, e.type, s)
         IN  e.path = d.path /\ e.initrd = d.initrd /\ e.cmdline = fresh.cmdline
    /\ \A b \in Range(bs) :
         b.deps # <<>> /\ ~SelfIn(in, b, b.deps[b.dflt].path) =>
           \E e \in Range(es) :
             /\ e.name = b.name /\ e.volume = b.volume /\ Boots(e) = OthersIn(in, s, b)
             /\ e.deps[e.dflt] = b.deps[b.dflt]

(* OnlySelfExcluded, of the same values: it claims nothing of copies.        *)
NoCopiesIn(in, seq) == Those(seq, LAMBDA b : <<b.volume, b.path>> \notin in.self.copies)
NoneLost(in, s, es, at, bs, was) ==
    /\ NoCopiesIn(in, FlattenSeq([i \in DOMAIN es |-> Boots(es[i])]))
         = NoCopiesIn(in, FlattenSeq([i \in DOMAIN bs |-> OthersIn(in, s, bs[i])]))
    /\ LET files == OthersIn(in, s, bs[was + 1])
       IN  /\ was < Len(bs)
           /\ \E b \in Range(files) : ~(<<b.volume, b.path>> \in in.self.copies)
           => /\ at < Len(es)
              /\ NoCopiesIn(in, files) = NoCopiesIn(in, Boots(es[at + 1]))
    /\ \A e \in Range(es) : e.deps # <<>> =>
         LET d == e.deps[e.dflt]
             fresh == NewEntry(e.name, d.path, d.cmdline, e.type, s)
         IN  e.path = d.path /\ e.initrd = d.initrd /\ e.cmdline = fresh.cmdline
    /\ \A b \in Range(bs) :
         /\ b.deps # <<>> /\ ~SelfIn(in, b, b.deps[b.dflt].path)
         /\ ~(<<Boots(b)[b.dflt].volume, Boots(b)[b.dflt].path>> \in in.self.copies)
         => \E e \in Range(es) :
              /\ e.name = b.name /\ e.volume = b.volume
              /\ NoCopiesIn(in, Boots(e)) = NoCopiesIn(in, OthersIn(in, s, b))
              /\ e.deps[e.dflt] = b.deps[b.dflt]

(* It is the invariant, of this state and of the next.                       *)
LEMMA OnlySelfNow ==
    OnlySelfExcluded <=>
      (stage = "snapshots" =>
         NoneLost(input, settings, entryList, default, before.entries, before.default))
  BY DEF NoneLost, NoCopiesIn, NotCopies, IsCopy, OnlySelfExcluded, Each, Others, OthersIn, Those,
         IsSelf, SelfIn, Default, Vol

LEMMA OnlySelfNext ==
    NoneLost(input', settings', entryList', default', before'.entries, before'.default)
      => OnlySelfExcluded'
  BY DEF NoneLost, NoCopiesIn, NotCopies, IsCopy, OnlySelfExcluded, Each, Others, OthersIn, Those,
         IsSelf, SelfIn, Default, Vol

(* The code does more: it keeps every file but its own, copies too.          *)
LEMMA KeepsCopies ==
    ASSUME NEW in, NEW s, NEW es, NEW at, NEW bs, NEW was, OnlySelf(in, s, es, at, bs, was)
    PROVE  NoneLost(in, s, es, at, bs, was)
<1> DEFINE files == OthersIn(in, s, bs[was + 1])
<1>1. \A b \in Range(files) : files # <<>>
  <2>1. Range(<<>>) = {} BY DEF Range
  <2> QED BY <2>1
<1>2. NoCopiesIn(in, FlattenSeq([i \in DOMAIN es |-> Boots(es[i])]))
        = NoCopiesIn(in, FlattenSeq([i \in DOMAIN bs |-> OthersIn(in, s, bs[i])]))
  BY DEF OnlySelf
<1>3. was < Len(bs) /\ files # <<>>
      => at < Len(es) /\ NoCopiesIn(in, files) = NoCopiesIn(in, Boots(es[at + 1]))
  BY DEF OnlySelf
<1>4. \A e \in Range(es) : e.deps # <<>> =>
        LET d == e.deps[e.dflt]
            fresh == NewEntry(e.name, d.path, d.cmdline, e.type, s)
        IN  e.path = d.path /\ e.initrd = d.initrd /\ e.cmdline = fresh.cmdline
  BY DEF OnlySelf
<1>5. \A b \in Range(bs) :
        b.deps # <<>> /\ ~SelfIn(in, b, b.deps[b.dflt].path)
        => \E e \in Range(es) :
             /\ e.name = b.name /\ e.volume = b.volume
             /\ NoCopiesIn(in, Boots(e)) = NoCopiesIn(in, OthersIn(in, s, b))
             /\ e.deps[e.dflt] = b.deps[b.dflt]
  BY DEF OnlySelf
<1>6. was < Len(bs) /\ (\E b \in Range(files) : ~(<<b.volume, b.path>> \in in.self.copies))
      => at < Len(es) /\ NoCopiesIn(in, files) = NoCopiesIn(in, Boots(es[at + 1]))
  BY <1>1, <1>3
<1> QED BY <1>2, <1>4, <1>5, <1>6 DEF NoneLost

-----------------------------------------------------------------------------
(* Taking the running loader out of an entry that has one file.              *)

(* The options prune_self_deployments gives the new default are those        *)
(* NewEntry would have given it.                                             *)
LEMMA PrunedCmdlineIs ==
    ASSUME NEW e, BootsDefault(settings, e), NEW d
    PROVE  PrunedCmdline(e, d) = NewEntry(e.name, d.path, d.cmdline, e.type, settings).cmdline
<1> DEFINE c == Get(settings, "cmdline")
           old == e.deps[e.dflt]
           own == IF old.cmdline = Nothing THEN e.cmdline ELSE Nothing
           Fresh(p, k) == IF k # Nothing THEN k
                          ELSE IF TakesDefault(p, e.type) /\ c # Nothing THEN Cmdline[c] ELSE Nothing
<1>1. e.cmdline = Fresh(old.path, old.cmdline)
  BY DEF BootsDefault, NewEntry
<1>2. NewEntry(e.name, d.path, d.cmdline, e.type, settings).cmdline = Fresh(d.path, d.cmdline)
  BY DEF NewEntry
<1>3. PrunedCmdline(e, d)
        = IF d.cmdline # Nothing THEN d.cmdline
          ELSE IF ~TakesDefault(d.path, e.type) THEN Nothing
          ELSE IF own # Nothing THEN own
          ELSE IF c # Nothing THEN Cmdline[c] ELSE Nothing
  BY DEF PrunedCmdline, Default
<1>4. own # Nothing => c # Nothing /\ own = Cmdline[c]
  BY <1>1
<1> HIDE DEF c, own, old
<1> QED BY <1>2, <1>3, <1>4

(* Keeping in a sequence of one.                                             *)
LEMMA OneKept ==
    ASSUME NEW b, NEW K
    PROVE  Kept(<<b>>, K) = IF 1 \in K THEN <<b>> ELSE <<>>
<1> DEFINE s == <<b>>
<1>1. IsSeq(s) /\ Len(s) = 1 BY OneIs
<1> HIDE DEF s
<1>2. 1..Len(s) = {1} BY <1>1
<1>3. 1 \in K => Kept(s, K) = s BY <1>1, <1>2, KeptAll
<1>4. 1 \notin K => Kept(s, K) = <<>> BY <1>1, <1>2, KeptNone
<1> QED BY <1>3, <1>4, Zenon DEF s

(* An entry of one file stays or goes, as Others says.                       *)
LEMMA RemainingSingle ==
    ASSUME NEW e, Whole(settings, e), e.deps = <<>>, Default("exclude_self")
    PROVE  LET O == OthersIn(input, settings, e)
           IN  \/ Remaining(e) = <<>> /\ O = <<>>
               \/ Remaining(e) = <<e>> /\ O = Boots(e)
<1> DEFINE b == [name |-> e.name, volume |-> e.volume, path |-> e.path]
           s == Boots(e)
           K == {i \in 1..Len(s) : ~SelfIn(input, e, s[i].path)}
<1>1. s = <<b>> BY DEF Boots
<1>2. IsSeq(<<b>>) /\ Len(<<b>>) = 1 /\ <<b>>[1] = b BY OneIs
<1>3. IsSeq(s) /\ Len(s) = 1 /\ s[1] = b BY <1>1, <1>2, Zenon
<1>4. b.path = e.path OBVIOUS
<1> HIDE DEF s, b
<1>5. DOMAIN s = 1..Len(s) BY <1>3, SeqIs
<1>6. OthersIn(input, settings, e) = Kept(s, K)
  BY <1>5 DEF OthersIn, Those, Kept, KeptParts, s, Default
<1>7. 1 \in K <=> ~SelfIn(input, e, e.path)
  BY <1>3, <1>4
<1>8. SelfIn(input, e, e.path) <=> IsSelf(e, e.path)
  BY DEF SelfIn, IsSelf, Vol
<1>9. Remaining(e) = IF IsSelf(e, e.path) THEN <<>> ELSE <<e>>
  BY DEF Remaining
<1> HIDE DEF K
<1>10. Kept(s, K) = IF 1 \in K THEN s ELSE <<>>
  BY <1>1, OneKept
<1> QED BY <1>6, <1>7, <1>8, <1>9, <1>10 DEF s

-----------------------------------------------------------------------------
(* Taking it out of a group of deployments.                                  *)

(* The deployments that are not the running loader.                          *)
DepsLeft(e) == {i \in 1..Len(e.deps) : ~IsSelf(e, e.deps[i].path)}

(* What booting each of them means.                                          *)
Booted(e, ds) == [i \in 1..Len(ds) |-> [name |-> e.name, volume |-> e.volume, path |-> ds[i].path]]

(* Others of a group are its deployments that stay.                          *)
LEMMA OthersAre ==
    ASSUME NEW e, IsSeq(e.deps), e.deps # <<>>, Default("exclude_self")
    PROVE  /\ Boots(e) = Booted(e, e.deps)
           /\ OthersIn(input, settings, e) = Booted(e, Kept(e.deps, DepsLeft(e)))
<1> DEFINE ds == e.deps
           n == Len(ds)
           K == DepsLeft(e)
           kept == Kept(ds, K)
           s == Booted(e, ds)
           t == Booted(e, kept)
<1>1. n \in Nat /\ DOMAIN ds = 1..n /\ IsSeq(ds) BY SeqIs
<1>2. Boots(e) = s BY <1>1 DEF Boots, Booted
<1>3. /\ s = [i \in 1..n |-> s[i]]
      /\ \A i \in 1..n : /\ s[i] = [name |-> e.name, volume |-> e.volume, path |-> ds[i].path]
                         /\ s[i].path = ds[i].path
  BY DEF Booted
<1>4. IsSeq(s) /\ Len(s) = n
  <2> HIDE DEF s, n
  <2> QED BY <1>1, <1>3, FcnIs
<1>5. IsSeq(kept) BY KeptIs
<1>6. Len(kept) \in Nat
  <2> HIDE DEF kept
  <2> QED BY <1>5, SeqIs
<1>7. /\ t = [i \in 1..Len(kept) |-> t[i]]
      /\ \A i \in 1..Len(kept) :
           t[i] = [name |-> e.name, volume |-> e.volume, path |-> kept[i].path]
  BY DEF Booted
<1>8. IsSeq(t) /\ Len(t) = Len(kept)
  <2> HIDE DEF t, kept
  <2> QED BY <1>6, <1>7, FcnIs
<1>9. OthersIn(input, settings, e) = Kept(s, K)
  <2> DEFINE L == {i \in 1..Len(s) : ~SelfIn(input, e, s[i].path)}
  <2>1. DOMAIN s = 1..Len(s)
    <3> HIDE DEF s
    <3> QED BY <1>4, SeqIs
  <2>2. OthersIn(input, settings, e) = Kept(s, L)
    <3> HIDE DEF s
    <3> QED BY <1>2, <2>1 DEF OthersIn, Those, Kept, KeptParts, Default
  <2>3. L = K
    <3> HIDE DEF s
    <3> QED BY <1>3, <1>4 DEF DepsLeft, SelfIn, IsSelf, Vol
  <2> QED BY <2>2, <2>3, Zenon
<1>10. PICK up : Up(ds, K, kept, up) BY KeptIs
<1> DEFINE os == KeptParts(s, K)
           bs == [j \in 1..Len(kept) |-> <<t[j]>>]
<1> HIDE DEF s, t, kept, K
<1>11. /\ Parts(os) /\ Len(os) = n
       /\ \A i \in 1..n : os[i] = IF i \in K THEN <<s[i]>> ELSE <<>>
  BY <1>4, KeptPartsIs
<1>12. /\ bs = [j \in 1..Len(kept) |-> bs[j]] /\ \A j \in 1..Len(kept) : bs[j] = <<t[j]>>
  OBVIOUS
<1> HIDE DEF os, bs
<1>13. IsSeq(bs) /\ Len(bs) = Len(kept) BY <1>6, <1>12, FcnIs
<1>14. Parts(bs)
  <2>1. ASSUME NEW j \in 1..Len(kept) PROVE IsSeq(bs[j])
    <3>1. bs[j] = <<t[j]>> /\ IsSeq(<<t[j]>>) BY <1>12, OneIs
    <3> QED BY <3>1, Zenon
  <2> QED BY <1>13, <2>1 DEF Parts
<1> HIDE DEF n, ds
<1>15. /\ up[0] = 0 /\ Len(bs) = up[Len(os)]
       /\ \A k \in 0..Len(os) : up[k] \in 0..Len(bs)
  <2>1. up[0] = 0 /\ up[n] = Len(bs) BY <1>10, <1>13 DEF Up, n
  <2>2. ASSUME NEW k \in 0..n PROVE up[k] \in 0..Len(bs)
    <3>1. up[k] \in 0..k /\ up[k] <= up[n] BY <1>10 DEF Up, n
    <3> QED BY <1>6, <1>13, <2>1, <3>1
  <2> QED BY <1>11, <2>1, <2>2
<1>16. ASSUME NEW k \in 1..n
       PROVE  \/ up[k] = up[k - 1] /\ os[k] = <<>>
              \/ up[k] = up[k - 1] + 1 /\ os[k] = bs[up[k]]
  <2>1. \/ k \notin K /\ up[k] = up[k - 1]
        \/ k \in K /\ up[k] = up[k - 1] + 1 /\ kept[up[k]] = ds[k]
    BY <1>10 DEF Up, n
  <2>2. CASE k \notin K
    BY <1>11, <2>1, <2>2
  <2>3. CASE k \in K
    <3>1. up[k] = up[k - 1] + 1 /\ kept[up[k]] = ds[k] BY <2>1, <2>3
    <3>2. k - 1 \in 0..n /\ k \in 0..n BY <1>1
    <3>3. up[k] \in 1..Len(kept)
      <4>1. up[k] \in 0..Len(bs) /\ up[k - 1] \in 0..Len(bs) BY <1>11, <1>15, <3>2
      <4> QED BY <1>6, <1>13, <3>1, <4>1
    <3>4. t[up[k]] = s[k]
      <4>1. t[up[k]] = [name |-> e.name, volume |-> e.volume, path |-> kept[up[k]].path]
        BY <1>7, <3>3
      <4>2. s[k] = [name |-> e.name, volume |-> e.volume, path |-> ds[k].path]
        BY <1>3
      <4> QED BY <3>1, <4>1, <4>2
    <3>5. bs[up[k]] = <<t[up[k]]>> BY <1>12, <3>3
    <3>6. os[k] = <<s[k]>> BY <1>11, <2>3
    <3>7. os[k] = bs[up[k]] BY <3>4, <3>5, <3>6, Zenon
    <3> QED BY <3>1, <3>7
  <2> QED BY <2>2, <2>3
<1>17. FlattenSeq(os) = FlattenSeq(bs)
  <2>1. \A k \in 1..Len(os) : \/ up[k] = up[k - 1] /\ os[k] = <<>>
                              \/ up[k] = up[k - 1] + 1 /\ os[k] = bs[up[k]]
    BY <1>11, <1>16
  <2> QED BY <1>11, <1>14, <1>15, <2>1, SkipEmpty
<1>18. FlattenSeq(bs) = t
  BY <1>8, <1>12, <1>13, FlatSingles
<1>19. Kept(s, K) = t
  BY <1>17, <1>18, Zenon DEF Kept, os
<1> QED BY <1>2, <1>9, <1>19, Zenon DEF s, t, kept, K, ds

-----------------------------------------------------------------------------
(* The deployments of a group that stay, and its default among them.         *)

(* A place moved by prune_self_deployments is a place of those that stay,    *)
(* and it is the same deployment unless that is gone.                        *)
LEMMA MovedIs ==
    ASSUME NEW e, IsSeq(e.deps), NEW at \in 1..Len(e.deps),
           Kept(e.deps, DepsLeft(e)) # <<>>
    PROVE  LET kept == Kept(e.deps, DepsLeft(e))
               m == Moved(e, at, kept)
           IN  /\ m \in 1..Len(kept)
               /\ ~IsSelf(e, e.deps[at].path) => kept[m] = e.deps[at]
<1> DEFINE ds == e.deps
           n == Len(ds)
           K == DepsLeft(e)
           kept == Kept(ds, K)
<1>1. n \in Nat BY SeqIs
<1>2. PICK up : Up(ds, K, kept, up) BY KeptIs
<1>3. IsSeq(kept) BY KeptIs
<1>4. Len(kept) \in Nat /\ Len(kept) >= 1
  <2> HIDE DEF kept
  <2>1. Len(kept) \in Nat BY <1>3, SeqIs
  <2>2. Len(kept) = 0 => kept = <<>> BY <1>3, EmptyIs, SameSeq
  <2>3. kept # <<>> BY DEF kept
  <2> QED BY <2>1, <2>2, <2>3
<1>5. at \in Nat /\ at - 1 \in 0..n /\ at \in 0..n BY <1>1
<1>6. Below(e, at) = (at - 1) - up[at - 1]
  <2>1. {i \in 1..at - 1 : i \notin K} = {i \in 1..at - 1 : IsSelf(e, e.deps[i].path)}
    BY <1>1, <1>5 DEF DepsLeft
  <2>2. Cardinality({i \in 1..at - 1 : i \notin K}) = (at - 1) - up[at - 1]
    <3> HIDE DEF kept, K, ds
    <3> QED BY <1>2, <1>5 DEF Up, n, ds
  <2> QED BY <2>1, <2>2 DEF Below
<1> HIDE DEF K, kept
<1>7. up[at - 1] \in Nat /\ up[at] \in Nat /\ up[at] <= Len(kept)
  <2>1. up[at - 1] \in 0..at - 1 /\ up[at] \in 0..at /\ up[at] <= up[n] /\ Len(kept) = up[n]
    BY <1>2, <1>5 DEF Up
  <2> QED BY <2>1, <1>5
<1>8. at - Below(e, at) = up[at - 1] + 1
  BY <1>5, <1>6, <1>7
<1>9. Moved(e, at, kept) \in 1..Len(kept)
  BY <1>4, <1>7, <1>8 DEF Moved, Least
<1>10. ASSUME ~IsSelf(e, e.deps[at].path) PROVE kept[Moved(e, at, kept)] = ds[at]
  <2>1. at \in K BY <1>10 DEF DepsLeft, K
  <2>2. up[at] = up[at - 1] + 1 /\ kept[up[at]] = ds[at] BY <1>2, <2>1 DEF Up
  <2>3. Moved(e, at, kept) = up[at] BY <1>4, <1>7, <1>8, <2>2 DEF Moved, Least
  <2> QED BY <2>2, <2>3
<1> QED BY <1>9, <1>10 DEF kept, K

(* A group goes if nothing of it stays; else it keeps its name, offers what  *)
(* stays, boots its default, and that is the one it was unless that is gone. *)
LEMMA RemainingGroup ==
    ASSUME NEW e, Typed(settings), Whole(settings, e), e.deps # <<>>, Default("exclude_self")
    PROVE  LET O == OthersIn(input, settings, e)
           IN  \/ /\ Remaining(e) = <<>> /\ O = <<>>
                  /\ IsSelf(e, e.deps[e.dflt].path)
               \/ \E x : /\ Remaining(e) = <<x>> /\ Whole(settings, x) /\ O = Boots(x)
                         /\ x.name = e.name /\ x.volume = e.volume
                         /\ ~IsSelf(e, e.deps[e.dflt].path) => x.deps[x.dflt] = e.deps[e.dflt]
<1> DEFINE ds == e.deps
           n == Len(ds)
           K == DepsLeft(e)
           kept == Kept(ds, K)
           at == Moved(e, e.dflt, kept)
           sel == Moved(e, e.sel, kept)
           d == kept[at]
           y == d.initrd
           p == d.path
           c == PrunedCmdline(e, d)
           x == [e EXCEPT !.deps = kept, !.dflt = at, !.sel = sel, !.path = p,
                          !.initrd = y, !.cmdline = c]
<1>1. /\ IsEntry(e) /\ e.snapshots = <<>> /\ Maybe(e.cmdline) /\ Deployments(ds)
      /\ BootsDefault(settings, e) /\ e.dflt \in 1..n /\ e.sel \in 1..n
  BY DEF Whole, BootsDefault
<1>2. IsSeq(ds) /\ n \in Nat /\ DOMAIN ds = 1..n BY <1>1, SeqIs DEF Deployments
<1>3. Remaining(e) = IF Len(kept) = n THEN <<e>> ELSE IF kept = <<>> THEN <<>> ELSE <<x>>
  <2>1. Those(e.deps, LAMBDA f : ~IsSelf(e, f.path)) = kept
    BY <1>2 DEF Those, Kept, KeptParts, DepsLeft
  <2>2. Remaining(e) = Pruned(e) BY DEF Remaining
  <2> HIDE DEF kept
  <2> QED BY <2>1, <2>2 DEF Pruned
<1>4. /\ Boots(e) = Booted(e, ds) /\ OthersIn(input, settings, e) = Booted(e, kept)
  BY <1>2, OthersAre
<1>5. IsSeq(kept) /\ Range(kept) = {ds[i] : i \in K \cap (1..n)}
  BY <1>2, KeptIs
<1>6. CASE Len(kept) = n
  <2>1. PICK up : Up(ds, K, kept, up) BY <1>2, KeptIs
  <2>2. Cardinality({i \in 1..n : i \notin K}) = n - up[n] /\ up[n] = n
    <3> HIDE DEF kept, K
    <3>1. n \in 0..n BY <1>2
    <3>2. /\ Cardinality({i \in 1..n : i \notin K}) = n - up[n]
          /\ Len(kept) = up[n]
      BY <2>1, <3>1 DEF Up
    <3> QED BY <1>6, <3>2
  <2>3. {i \in 1..n : i \notin K} = {}
    <3> DEFINE S == {i \in 1..n : i \notin K}
    <3>1. IsFiniteSet(S)
      <4>1. IsFiniteSet(1..n) BY <1>2, FS_Interval
      <4>2. S \subseteq 1..n OBVIOUS
      <4> HIDE DEF S
      <4> QED BY <4>1, <4>2, FS_Subset
    <3>2. Cardinality(S) = 0 BY <1>2, <2>2
    <3> HIDE DEF S
    <3>3. S = {} BY <3>1, <3>2, FS_EmptySet
    <3> QED BY <3>3 DEF S
  <2>4. 1..n \subseteq K BY <2>3
  <2>5. kept = ds BY <1>2, <2>4, KeptAll
  <2>6. OthersIn(input, settings, e) = Boots(e) BY <1>4, <2>5, Zenon
  <2>7. Remaining(e) = <<e>> BY <1>3, <1>6
  <2> QED BY <2>6, <2>7, Zenon
<1>7. CASE Len(kept) # n /\ kept = <<>>
  <2>1. Remaining(e) = <<>> BY <1>3, <1>7
  <2>2. OthersIn(input, settings, e) = <<>>
    <3>1. Len(kept) = 0 BY <1>7, EmptyIs
    <3> HIDE DEF kept
    <3>2. Booted(e, kept) = <<>>
      <4> DEFINE b == Booted(e, kept)
      <4>1. b = [i \in 1..0 |-> b[i]] BY <3>1 DEF Booted
      <4> HIDE DEF b
      <4>2. IsSeq(b) /\ Len(b) = 0 BY <4>1, FcnIs
      <4>3. b = <<>> BY <4>2, EmptyIs, SameSeq
      <4> QED BY <4>3 DEF b
    <3> QED BY <1>4, <3>2, Zenon
  <2>3. IsSelf(e, e.deps[e.dflt].path)
    <3>1. Range(kept) = {} BY <1>7, EmptyIs
    <3>2. e.dflt \notin K BY <1>1, <1>5, <3>1
    <3> QED BY <1>1, <3>2 DEF DepsLeft
  <2> QED BY <2>1, <2>2, <2>3
<1>8. CASE Len(kept) # n /\ kept # <<>>
  <2>1. Remaining(e) = <<x>> BY <1>3, <1>8
  <2>2. /\ at \in 1..Len(kept) /\ sel \in 1..Len(kept)
        /\ ~IsSelf(e, e.deps[e.dflt].path) => d = e.deps[e.dflt]
    BY <1>1, <1>2, <1>8, MovedIs
  <2>3. c = NewEntry(e.name, p, d.cmdline, e.type, settings).cmdline
    BY <1>1, PrunedCmdlineIs
  <2>4. Deployments(kept)
    <3>1. \A i \in 1..n : ds[i] \in Range(ds) BY <1>2, SeqIs
    <3> HIDE DEF kept, K
    <3> QED BY <1>1, <1>5, <3>1 DEF Deployments
  <2>5. Maybe(d.cmdline)
    <3> HIDE DEF kept, at
    <3>1. d \in Range(kept) BY <1>5, <2>2, SeqIs
    <3> QED BY <2>4, <3>1 DEF Deployments
  <2>6. Maybe(c)
    <3>1. Single(NewEntry(e.name, p, d.cmdline, e.type, settings)) BY <2>5, NewEntryIs
    <3> QED BY <2>3, <3>1 DEF Single
  <2>7. x = [e EXCEPT !.deps = kept, !.dflt = at, !.sel = sel, !.path = p,
                      !.initrd = y, !.cmdline = c]
    OBVIOUS
  <2>8. d = kept[at] /\ p = d.path /\ y = d.initrd OBVIOUS
  <2> HIDE DEF kept, at, sel, d, y, p, c, x, K
  <2>9. /\ IsEntry(x) /\ x.name = e.name /\ x.type = e.type /\ x.volume = e.volume
        /\ x.snapshots = <<>> /\ x.deps = kept /\ x.dflt = at /\ x.sel = sel /\ x.path = p
        /\ x.initrd = y /\ x.cmdline = c
    BY <1>1, <2>7 DEF IsEntry
  <2>10. BootsDefault(settings, x)
    BY <2>2, <2>3, <2>8, <2>9 DEF BootsDefault
  <2>11. Whole(settings, x)
    BY <2>4, <2>6, <2>9, <2>10 DEF Whole
  <2>12. Boots(x) = Booted(e, kept)
    <3>1. DOMAIN kept = 1..Len(kept) BY <1>5, SeqIs
    <3> QED BY <1>8, <2>9, <3>1 DEF Boots, Booted
  <2>13. OthersIn(input, settings, e) = Boots(x) BY <1>4, <2>12, Zenon
  <2>14. ~IsSelf(e, e.deps[e.dflt].path) => x.deps[x.dflt] = e.deps[e.dflt]
    BY <2>2, <2>8, <2>9
  <2> QED BY <2>1, <2>9, <2>11, <2>13, <2>14
<1> QED BY <1>6, <1>7, <1>8

-----------------------------------------------------------------------------
(* Taking it out of the whole list.                                          *)

(* The same of any entry.                                                    *)
LEMMA RemainingIs ==
    ASSUME NEW e, Typed(settings), Whole(settings, e), Default("exclude_self")
    PROVE  LET O == OthersIn(input, settings, e)
           IN  \/ /\ Remaining(e) = <<>> /\ O = <<>>
                  /\ e.deps # <<>> => IsSelf(e, e.deps[e.dflt].path)
               \/ \E x : /\ Remaining(e) = <<x>> /\ Whole(settings, x) /\ O = Boots(x)
                         /\ x.name = e.name /\ x.volume = e.volume
                         /\ e.deps # <<>> /\ ~IsSelf(e, e.deps[e.dflt].path)
                              => x.deps[x.dflt] = e.deps[e.dflt]
<1>1. CASE e.deps = <<>>
  <2>1. \/ Remaining(e) = <<>> /\ OthersIn(input, settings, e) = <<>>
        \/ Remaining(e) = <<e>> /\ OthersIn(input, settings, e) = Boots(e)
    BY <1>1, RemainingSingle
  <2> QED BY <1>1, <2>1
<1>2. CASE e.deps # <<>>
  <2>1. \/ /\ Remaining(e) = <<>> /\ OthersIn(input, settings, e) = <<>>
           /\ IsSelf(e, e.deps[e.dflt].path)
        \/ \E x : /\ Remaining(e) = <<x>> /\ Whole(settings, x)
                  /\ OthersIn(input, settings, e) = Boots(x)
                  /\ x.name = e.name /\ x.volume = e.volume
                  /\ ~IsSelf(e, e.deps[e.dflt].path) => x.deps[x.dflt] = e.deps[e.dflt]
    BY <1>2, RemainingGroup
  <2> QED BY <1>2, <2>1
<1> QED BY <1>1, <1>2

(* An entry boots something.                                                 *)
LEMMA BootsSeq == ASSUME NEW s, NEW e, Whole(s, e) PROVE IsSeq(Boots(e)) /\ Boots(e) # <<>>
<1>1. CASE e.deps = <<>>
  <2> DEFINE b == [name |-> e.name, volume |-> e.volume, path |-> e.path]
  <2>1. Boots(e) = <<b>> BY <1>1 DEF Boots
  <2>2. IsSeq(<<b>>) /\ Len(<<b>>) = 1 /\ Len(<<>>) = 0 BY OneIs, EmptyIs
  <2> HIDE DEF b
  <2>3. <<b>> # <<>> BY <2>2
  <2> QED BY <2>1, <2>2, <2>3, Zenon
<1>2. CASE e.deps # <<>>
  <2> DEFINE f == Boots(e)
             n == Len(e.deps)
  <2>1. IsSeq(e.deps) BY DEF Whole, Deployments
  <2>2. n \in Nat /\ DOMAIN e.deps = 1..n BY <2>1, SeqIs
  <2>3. f = [i \in 1..n |-> f[i]] BY <1>2, <2>2 DEF Boots
  <2>4. n # 0 BY <1>2, <2>1, EmptyIs, SameSeq
  <2> HIDE DEF f, n
  <2>5. IsSeq(f) /\ Len(f) = n BY <2>2, <2>3, FcnIs
  <2>6. f # <<>> BY <2>4, <2>5, EmptyIs
  <2> QED BY <2>5, <2>6 DEF f
<1> QED BY <1>1, <1>2

(* Without exclude_self nothing is left out.                                 *)
LEMMA OthersAll ==
    ASSUME NEW e, IsSeq(Boots(e)), ~Default("exclude_self")
    PROVE  OthersIn(input, settings, e) = Boots(e)
<1> DEFINE s == Boots(e)
           K == {i \in 1..Len(s) : ~SelfIn(input, e, s[i].path) \/ ~Get(settings, "exclude_self")}
<1>1. IsSeq(s) OBVIOUS
<1> HIDE DEF s
<1>2. DOMAIN s = 1..Len(s) BY <1>1, SeqIs
<1>3. OthersIn(input, settings, e) = Kept(s, K)
  BY <1>2 DEF OthersIn, Those, Kept, KeptParts, s
<1>4. 1..Len(s) \subseteq K BY DEF Default
<1> HIDE DEF K
<1>5. Kept(s, K) = s BY <1>1, <1>4, KeptAll
<1> QED BY <1>3, <1>5, Zenon DEF s

(* Groups of a whole list boot their default.                                *)
LEMMA GroupsBoot ==
    ASSUME NEW s, NEW es, Wholes(s, es)
    PROVE  \A e \in Range(es) : e.deps # <<>> =>
             LET d == e.deps[e.dflt]
                 fresh == NewEntry(e.name, d.path, d.cmdline, e.type, s)
             IN  e.path = d.path /\ e.initrd = d.initrd /\ e.cmdline = fresh.cmdline
  BY DEF Wholes, Whole, BootsDefault

(* A list that is left alone has lost nothing.                               *)
LEMMA ExcludeOff ==
    ASSUME Typed(settings), Wholes(settings, entryList), default \in Nat, ~Default("exclude_self")
    PROVE  OnlySelf(input, settings, entryList, default, entryList, default)
<1> DEFINE n == Len(entryList)
           O(e) == OthersIn(input, settings, e)
<1>1. /\ n \in Nat /\ DOMAIN entryList = 1..n
      /\ \A i \in 1..n : entryList[i] \in Range(entryList)
  BY SeqIs DEF Wholes
<1>2. ASSUME NEW e \in Range(entryList) PROVE O(e) = Boots(e)
  BY BootsSeq, OthersAll DEF Wholes
<1> HIDE DEF O
<1>3. [i \in DOMAIN entryList |-> Boots(entryList[i])] = [i \in DOMAIN entryList |-> O(entryList[i])]
  BY <1>1, <1>2
<1>4. default < n => default + 1 \in 1..n BY <1>1
<1>5. default < n => O(entryList[default + 1]) = Boots(entryList[default + 1])
  BY <1>1, <1>2, <1>4
<1>6. ASSUME NEW b \in Range(entryList), b.deps # <<>>, ~SelfIn(input, b, b.deps[b.dflt].path)
      PROVE  \E e \in Range(entryList) :
               /\ e.name = b.name /\ e.volume = b.volume /\ Boots(e) = O(b)
               /\ e.deps[e.dflt] = b.deps[b.dflt]
  BY <1>2
<1>7. FlattenSeq([i \in DOMAIN entryList |-> Boots(entryList[i])])
        = FlattenSeq([i \in DOMAIN entryList |-> O(entryList[i])])
  BY <1>3, Zenon
<1> QED BY <1>5, <1>6, <1>7, GroupsBoot DEF OnlySelf, O

(* Config_exclude_self_entries takes out the running loader only, and the    *)
(* default moves with its entry.                                             *)
LEMMA ExcludeOn ==
    ASSUME Typed(settings), Wholes(settings, entryList), default \in Nat, Default("exclude_self"),
           NEW es, es = Each(entryList, Remaining)
    PROVE  /\ Wholes(settings, es)
           /\ OnlySelf(input, settings, es, Compacted(es), entryList, default)
<1> DEFINE n == Len(entryList)
           O(e) == OthersIn(input, settings, e)
           ss == [i \in 1..n |-> Remaining(entryList[i])]
           os == [i \in 1..n |-> O(entryList[i])]
<1>1. /\ n \in Nat /\ DOMAIN entryList = 1..n
      /\ \A i \in 1..n : entryList[i] \in Range(entryList)
      /\ \A x \in Range(entryList) : \E i \in 1..n : x = entryList[i]
      /\ \A i \in 1..n : Whole(settings, entryList[i])
  BY SeqIs DEF Wholes
<1>2. es = FlattenSeq(ss)
  BY <1>1 DEF Each
<1>3. ASSUME NEW i \in 1..n
      PROVE  LET e == entryList[i]
             IN  \/ /\ ss[i] = <<>> /\ os[i] = <<>>
                    /\ e.deps # <<>> => IsSelf(e, e.deps[e.dflt].path)
                 \/ \E x : /\ ss[i] = <<x>> /\ Whole(settings, x) /\ os[i] = Boots(x)
                           /\ x.name = e.name /\ x.volume = e.volume
                           /\ e.deps # <<>> /\ ~IsSelf(e, e.deps[e.dflt].path)
                                => x.deps[x.dflt] = e.deps[e.dflt]
  <2> DEFINE e == entryList[i]
  <2>1. Whole(settings, e) BY <1>1
  <2>2. ss[i] = Remaining(e) /\ os[i] = OthersIn(input, settings, e) OBVIOUS
  <2> HIDE DEF e, ss, os
  <2> QED BY <2>1, <2>2, RemainingIs DEF e
<1>4. ss = [i \in 1..n |-> ss[i]] /\ os = [i \in 1..n |-> os[i]]
  <2> HIDE DEF O
  <2> QED OBVIOUS
<1>4a. \A i \in 1..n : ss[i] = Remaining(entryList[i]) /\ os[i] = O(entryList[i])
  <2> HIDE DEF O
  <2> QED OBVIOUS
<1> HIDE DEF ss, os, n, O
<1>5. ASSUME NEW i \in 1..n PROVE Wholes(settings, ss[i]) /\ IsSeq(os[i])
  <2>1. CASE ss[i] = <<>> /\ os[i] = <<>>
    <3>1. Wholes(settings, <<>>) /\ IsSeq(<<>>) BY EmptyWholes, EmptyIs
    <3> QED BY <2>1, <3>1, Zenon
  <2>2. ASSUME NEW x, ss[i] = <<x>>, Whole(settings, x), os[i] = Boots(x)
        PROVE  Wholes(settings, ss[i]) /\ IsSeq(os[i])
    <3>1. Wholes(settings, <<x>>) /\ IsSeq(Boots(x)) BY <2>2, OneWholes, BootsSeq
    <3> QED BY <2>2, <3>1, Zenon
  <2> QED BY <1>3, <2>1, <2>2
<1>6. Wholes(settings, es)
  <2>1. Wholes(settings, FlattenSeq(ss)) BY <1>1, <1>4, <1>5, FlatWholes
  <2> QED BY <1>2, <2>1, Zenon
<1>7. Parts(ss) /\ Len(ss) = n /\ Parts(os) /\ Len(os) = n
  <2>1. IsSeq(ss) /\ Len(ss) = n /\ IsSeq(os) /\ Len(os) = n BY <1>1, <1>4, FcnIs
  <2> QED BY <1>5, <2>1 DEF Parts, Wholes
<1>8. \A i \in 1..Len(ss) : ss[i] = <<>> \/ ss[i] = <<ss[i][1]>>
  <2>1. ASSUME NEW i \in 1..n PROVE ss[i] = <<>> \/ ss[i] = <<ss[i][1]>>
    <3>1. ASSUME NEW x, ss[i] = <<x>> PROVE ss[i] = <<ss[i][1]>>
      <4>1. <<x>>[1] = x OBVIOUS
      <4> QED BY <3>1, <4>1, Zenon
    <3> QED BY <1>3, <3>1
  <2> QED BY <1>7, <2>1
<1>9. PICK up : Thin(ss, up) BY <1>7, <1>8, ThinIs
<1>10. /\ up[0] = 0 /\ Len(es) = up[n]
       /\ \A k \in 0..n : up[k] \in 0..k /\ up[k] <= up[n] /\ Cardinality(Gone(ss, k)) = k - up[k]
       /\ \A k \in 1..n : \/ up[k] = up[k - 1] /\ ss[k] = <<>>
                          \/ up[k] = up[k - 1] + 1 /\ ss[k] = <<es[up[k]]>>
  <2> DEFINE all == FlattenSeq(ss)
  <2>1. all = es BY <1>2
  <2> HIDE DEF all
  <2> QED BY <1>7, <1>9, <2>1 DEF Thin, all
<1>11. IsSeq(es) /\ DOMAIN es = 1..Len(es) /\ Len(es) \in Nat
       /\ \A i \in 1..Len(es) : es[i] \in Range(es) /\ Whole(settings, es[i])
  <2>1. IsSeq(es) BY <1>6 DEF Wholes
  <2>2. DOMAIN es = 1..Len(es) /\ Len(es) \in Nat /\ \A i \in 1..Len(es) : es[i] \in Range(es)
    BY <2>1, SeqIs
  <2> QED BY <1>6, <2>1, <2>2 DEF Wholes
(* Where an entry went.                                                      *)
<1> DEFINE Went(i, e) ==
             \/ /\ up[i] = up[i - 1] /\ ss[i] = <<>> /\ os[i] = <<>>
                /\ e.deps # <<>> => IsSelf(e, e.deps[e.dflt].path)
             \/ /\ up[i] = up[i - 1] + 1 /\ ss[i] # <<>> /\ up[i] \in 1..Len(es)
                /\ os[i] = Boots(es[up[i]])
                /\ es[up[i]].name = e.name /\ es[up[i]].volume = e.volume
                /\ e.deps # <<>> /\ ~IsSelf(e, e.deps[e.dflt].path)
                     => es[up[i]].deps[es[up[i]].dflt] = e.deps[e.dflt]
<1>12. ASSUME NEW i \in 1..n PROVE Went(i, entryList[i])
  <2> DEFINE e == entryList[i]
             y == es[up[i]]
  <2>1. \/ up[i] = up[i - 1] /\ ss[i] = <<>>
        \/ up[i] = up[i - 1] + 1 /\ ss[i] = <<y>>
    BY <1>10
  <2>2. Len(<<y>>) = 1 /\ <<y>>[1] = y /\ Len(<<>>) = 0 BY OneIs, EmptyIs
  <2>3. <<y>> # <<>> BY <2>2
  <2>4. \A x : <<x>> # <<>> /\ <<x>>[1] = x /\ (<<x>> = <<y>> => x = y)
    <3> SUFFICES ASSUME NEW x PROVE <<x>> # <<>> /\ <<x>>[1] = x /\ (<<x>> = <<y>> => x = y)
      OBVIOUS
    <3>1. Len(<<x>>) = 1 /\ <<x>>[1] = x BY OneIs
    <3> HIDE DEF y
    <3> QED BY <2>2, <3>1
  <2>5. up[i] = up[i - 1] + 1 => up[i] \in 1..Len(es)
    <3>1. i - 1 \in 0..n /\ i \in 0..n BY <1>1
    <3>2. up[i - 1] \in 0..i - 1 /\ up[i] \in 0..i /\ up[i] <= up[n] BY <1>10, <3>1
    <3> QED BY <1>10, <1>11, <3>2
  <2>6. CASE up[i] = up[i - 1] /\ ss[i] = <<>>
    <3>1. /\ os[i] = <<>>
          /\ e.deps # <<>> => IsSelf(e, e.deps[e.dflt].path)
      <4>1. \A x : ss[i] # <<x>> BY <2>4, <2>6, Zenon
      <4> QED BY <1>3, <4>1
    <3> QED BY <2>6, <3>1
  <2>7. CASE up[i] = up[i - 1] + 1 /\ ss[i] = <<y>>
    <3>1. ss[i] # <<>> BY <2>3, <2>7, Zenon
    <3>2. PICK x : /\ ss[i] = <<x>> /\ Whole(settings, x) /\ os[i] = Boots(x)
                   /\ x.name = e.name /\ x.volume = e.volume
                   /\ e.deps # <<>> /\ ~IsSelf(e, e.deps[e.dflt].path)
                        => x.deps[x.dflt] = e.deps[e.dflt]
      BY <1>3, <3>1
    <3>3. x = y BY <2>4, <2>7, <3>2, Zenon
    <3> HIDE DEF y, e
    <3>4. /\ up[i] = up[i - 1] + 1 /\ ss[i] # <<>> /\ up[i] \in 1..Len(es)
          /\ os[i] = Boots(y) /\ y.name = e.name /\ y.volume = e.volume
          /\ e.deps # <<>> /\ ~IsSelf(e, e.deps[e.dflt].path)
                        => y.deps[y.dflt] = e.deps[e.dflt]
      BY <2>5, <2>7, <3>1, <3>2, <3>3
    <3> QED BY <3>4 DEF y, e
  <2> HIDE DEF Went
  <2> QED BY <2>1, <2>6, <2>7
(* Every other file is offered, in the same order.                           *)
<1> DEFINE bs == [j \in 1..Len(es) |-> Boots(es[j])]
<1>13. FlattenSeq(os) = FlattenSeq(bs)
  <2>1. bs = [j \in 1..Len(es) |-> bs[j]] /\ \A j \in 1..Len(es) : bs[j] = Boots(es[j])
    OBVIOUS
  <2> HIDE DEF bs
  <2>2. IsSeq(bs) /\ Len(bs) = Len(es) BY <1>11, <2>1, FcnIs
  <2>3. Parts(bs)
    <3>1. \A j \in 1..Len(es) : IsSeq(bs[j]) BY <1>11, <2>1, BootsSeq
    <3> QED BY <2>2, <3>1 DEF Parts
  <2>4. \A k \in 1..Len(os) : \/ up[k] = up[k - 1] /\ os[k] = <<>>
                              \/ up[k] = up[k - 1] + 1 /\ os[k] = bs[up[k]]
    BY <1>7, <1>12, <2>1
  <2>5. \A k \in 0..Len(os) : up[k] \in 0..Len(bs)
    <3>1. ASSUME NEW k \in 0..n PROVE up[k] \in 0..Len(es)
      <4>1. up[k] \in 0..k /\ up[k] <= up[n] BY <1>10
      <4> QED BY <1>10, <1>11, <4>1
    <3> QED BY <1>7, <2>2, <3>1
  <2>6. up[0] = 0 /\ Len(bs) = up[Len(os)] BY <1>7, <1>10, <2>2
  <2> QED BY <1>7, <2>3, <2>4, <2>5, <2>6, SkipEmpty
<1>14. FlattenSeq([i \in DOMAIN es |-> Boots(es[i])])
         = FlattenSeq([i \in DOMAIN entryList |-> O(entryList[i])])
  <2>1. [i \in DOMAIN es |-> Boots(es[i])] = bs BY <1>11
  <2>2. [i \in DOMAIN entryList |-> O(entryList[i])] = os BY <1>1, <1>4, <1>4a
  <2> QED BY <1>13, <2>1, <2>2, Zenon
(* The default entry.                                                        *)
<1>15. ASSUME default < n, O(entryList[default + 1]) # <<>>
       PROVE  /\ Compacted(es) < Len(es)
              /\ O(entryList[default + 1]) = Boots(es[Compacted(es) + 1])
  <2> DEFINE i == default + 1
             gone == {k \in DOMAIN entryList : Remaining(entryList[k]) = <<>>}
             below == Cardinality({k \in gone : k <= default})
  <2>1. i \in 1..n /\ i - 1 = default /\ default \in 0..n BY <1>1, <1>15
  <2>2. os[i] = O(entryList[i]) /\ os[i] # <<>> BY <1>4a, <1>15, <2>1
  <2>3. /\ up[i] = up[default] + 1 /\ ss[i] # <<>> /\ up[i] \in 1..Len(es)
        /\ os[i] = Boots(es[up[i]])
    BY <1>12, <2>1, <2>2
  <2>4. {k \in gone : k <= default} = Gone(ss, default)
    BY <1>1, <1>4a, <2>1 DEF Gone
  <2>5. below = default - up[default] /\ up[default] \in Nat /\ up[default] <= default
    <3>1. up[default] \in 0..default /\ Cardinality(Gone(ss, default)) = default - up[default]
      BY <1>10, <2>1
    <3>2. below = Cardinality(Gone(ss, default)) BY <2>4, Zenon
    <3> HIDE DEF gone, below
    <3> QED BY <1>1, <2>1, <3>1, <3>2
  <2>6. i \notin gone BY <1>4a, <2>1, <2>3
  <2>7. gone = {} => up[default] = default
    <3>1. gone = {} => Gone(ss, default) = {} BY <2>4
    <3>2. gone = {} => Cardinality(Gone(ss, default)) = 0 BY <3>1, FS_EmptySet
    <3>3. below = Cardinality(Gone(ss, default)) BY <2>4, Zenon
    <3> HIDE DEF gone, below
    <3> QED BY <1>1, <2>1, <2>5, <3>2, <3>3
  <2>8. default - below = up[default] BY <2>5
  <2>9. Compacted(es) = IF gone = {} THEN default
                        ELSE IF up[default] >= Len(es)
                             THEN (IF es = <<>> THEN 0 ELSE Len(es) - 1) ELSE up[default]
    <3>1. Compacted(es)
            = LET moved == IF i \in gone THEN 0 ELSE default - below
              IN  IF gone = {} THEN default
                  ELSE IF moved >= Len(es) THEN (IF es = <<>> THEN 0 ELSE Len(es) - 1) ELSE moved
      BY DEF Compacted
    <3> HIDE DEF gone, below
    <3> QED BY <2>6, <2>8, <3>1
  <2>10. up[default] < Len(es) BY <1>11, <2>3, <2>5
  <2> HIDE DEF gone, below
  <2>11. Compacted(es) = up[default] BY <1>11, <2>5, <2>7, <2>9, <2>10
  <2> QED BY <2>2, <2>3, <2>10, <2>11
<1>16. ASSUME NEW b \in Range(entryList), b.deps # <<>>, ~SelfIn(input, b, b.deps[b.dflt].path)
       PROVE  \E e \in Range(es) :
                /\ e.name = b.name /\ e.volume = b.volume /\ Boots(e) = O(b)
                /\ e.deps[e.dflt] = b.deps[b.dflt]
  <2>1. PICK i \in 1..n : b = entryList[i] BY <1>1
  <2>2. ~IsSelf(b, b.deps[b.dflt].path) BY <1>16 DEF SelfIn, IsSelf, Vol
  <2>3. /\ up[i] \in 1..Len(es) /\ os[i] = Boots(es[up[i]])
        /\ es[up[i]].name = b.name /\ es[up[i]].volume = b.volume
        /\ es[up[i]].deps[es[up[i]].dflt] = b.deps[b.dflt]
    BY <1>12, <1>16, <2>1, <2>2
  <2>4. os[i] = O(b) BY <1>4a, <2>1
  <2>5. es[up[i]] \in Range(es) BY <1>11, <2>3
  <2> QED BY <2>3, <2>4, <2>5
<1>17. OnlySelf(input, settings, es, Compacted(es), entryList, default)
  <2> HIDE DEF bs
  <2> QED BY <1>6, <1>14, <1>15, <1>16, GroupsBoot DEF OnlySelf, O, n
<1> QED BY <1>6, <1>17

-----------------------------------------------------------------------------
(* The search keeps entries whole; exclusion removes the running loader      *)
(* only.                                                                     *)

(* Whole does not depend on settings other than the options.                 *)
LEMMA SameNew ==
    ASSUME NEW s, NEW t, Get(t, "cmdline") = Get(s, "cmdline"), NEW es, Wholes(s, es)
    PROVE  Wholes(t, es)
<1>1. ASSUME NEW e \in Range(es) PROVE Whole(t, e)
  <2>1. Whole(s, e) BY DEF Wholes
  <2>2. \A name, path, cmdline, type :
          NewEntry(name, path, cmdline, type, t) = NewEntry(name, path, cmdline, type, s)
    BY DEF NewEntry
  <2> QED BY <2>1, <2>2 DEF Whole, BootsDefault
<1> QED BY <1>1 DEF Wholes

(* The inductive invariant of Discovery: typed settings, and entries that    *)
(* are whole until snapshots are attached.                                   *)
EntriesWhole ==
    /\ input \in Inputs /\ Typed(settings)
    /\ stage \in {"early", "parse", "theme", "detect", "exclude", "snapshots", "recovery", "menu"}
    /\ stage \in {"early", "parse", "theme", "detect", "exclude"} => default \in Nat
    /\ stage \in {"early", "parse", "theme", "detect"} => Singles(entryList)
    /\ stage \in {"exclude", "snapshots"} => Wholes(settings, entryList)

(* It holds at the start and every step keeps it.                            *)
LEMMA EntriesWholeInductive ==
    /\ DiscoveryInit => EntriesWhole
    /\ EntriesWhole /\ [DiscoveryNext]_discoveryVars => EntriesWhole'
<1>0. Singles(<<>>) BY EmptyIs DEF Singles
<1>1. DiscoveryInit => EntriesWhole
  BY <1>0, TypedUnchanged DEF DiscoveryInit, EntriesWhole
<1>2. ASSUME EntriesWhole, [DiscoveryNext]_discoveryVars PROVE EntriesWhole'
  <2>1. CASE EarlyPass
    BY <1>2, <2>1 DEF EarlyPass, Goto, EntriesWhole
  <2>2. CASE Parse
    <3>1. Known(input.conf) /\ input' = input
      BY <1>2, <2>2, InputsAssumption DEF EntriesWhole, Parse, Text
    <3>2. Typed(Parsed(input.conf).settings) /\ Singles(Parsed(input.conf).entries)
      BY <3>1, ParsedIs
    <3>3. /\ settings' = Parsed(input.conf).settings /\ entryList' = Parsed(input.conf).entries
          /\ default' = Get(settings', "default") /\ stage' = "theme"
      BY <2>2 DEF Parse, Goto
    <3>4. Typed(settings') /\ Singles(entryList') /\ default' \in Nat
      BY <3>2, <3>3 DEF Typed
    <3> QED BY <1>2, <3>1, <3>3, <3>4 DEF EntriesWhole
  <2>3. CASE NoConf
    BY <1>2, <2>3 DEF NoConf, Goto, EntriesWhole
  <2>4. CASE Theme
    <3>1. \E name : WithTheme(name) BY <2>4 DEF Theme
    <3>2. PICK name : WithTheme(name) BY <3>1
    <3>3. Typed(settings')
      <4>1. settings' = IF name \in DOMAIN input.themes
                        THEN Themed(settings, input.themes[name]) ELSE settings
        BY <3>2 DEF WithTheme
      <4>2. name \in DOMAIN input.themes => Known(input.themes[name])
        BY <1>2, InputsAssumption DEF EntriesWhole
      <4> QED BY <1>2, <4>1, <4>2, TypedThemed DEF EntriesWhole
    <3>4. default' \in Nat BY <3>2, <3>3 DEF WithTheme, Typed
    <3>5. stage = "theme" /\ stage' = "detect" /\ input' = input /\ entryList' = entryList
      BY <2>4 DEF Theme, Goto
    <3> QED BY <1>2, <3>3, <3>4, <3>5 DEF EntriesWhole
  <2>5. CASE Detect
    <3>1. /\ stage = "detect" /\ stage' = "exclude" /\ input' = input /\ default' = default
          /\ \/ entryList' = entryList /\ settings' = settings
             \/ /\ entryList' = Found
                /\ settings' = settings ++ [show_names |-> FALSE, center_info |-> TRUE]
      BY <2>5 DEF Detect, Goto
    <3>2. CASE entryList' = entryList /\ settings' = settings
      <4>1. Wholes(settings, entryList) BY <1>2, <3>1, SinglesWhole DEF EntriesWhole
      <4>2. Wholes(settings', entryList') BY <3>2, <4>1
      <4> QED BY <1>2, <3>1, <3>2, <4>2 DEF EntriesWhole
    <3>3. CASE /\ entryList' = Found
               /\ settings' = settings ++ [show_names |-> FALSE, center_info |-> TRUE]
      <4>1. Wholes(settings, Found) BY <1>2, FoundWhole DEF EntriesWhole
      <4> DEFINE shown == [show_names |-> FALSE, center_info |-> TRUE]
                 t == settings ++ shown
      <4>2. Get(t, "cmdline") = Get(settings, "cmdline")
            /\ Get(t, "default") = Get(settings, "default")
        <5>1. DOMAIN shown = {"show_names", "center_info"} OBVIOUS
        <5> HIDE DEF shown
        <5> QED BY <5>1 DEF Get, ++
      <4>3. settings' = t BY <3>3
      <4> HIDE DEF t
      <4>4. Wholes(t, Found) BY <4>1, <4>2, SameNew
      <4>5. Typed(t) BY <1>2, <4>2 DEF EntriesWhole, Typed
      <4>6. Wholes(settings', entryList') BY <3>3, <4>3, <4>4
      <4> QED BY <1>2, <3>1, <4>3, <4>5, <4>6 DEF EntriesWhole
    <3> QED BY <3>1, <3>2, <3>3
  <2>6. CASE Exclude
    <3>1. /\ stage = "exclude" /\ stage' = "snapshots" /\ UNCHANGED <<input, settings>>
          /\ Default("exclude_self") => entryList' = Each(entryList, Remaining)
          /\ ~Default("exclude_self") => entryList' = entryList
      BY <2>6 DEF Exclude, Goto
    <3>2. Wholes(settings, entryList) /\ Typed(settings) /\ default \in Nat
      BY <1>2, <3>1 DEF EntriesWhole
    <3>3. Wholes(settings, entryList')
      BY <3>1, <3>2, ExcludeOn
    <3> QED BY <1>2, <3>1, <3>3 DEF EntriesWhole
  <2>7. CASE AttachManifest \/ AttachDetected \/ NoSnapshots
    BY <1>2, <2>7 DEF AttachManifest, AttachDetected, NoSnapshots, Goto, EntriesWhole
  <2>8. CASE Recover
    BY <1>2, <2>8 DEF Recover, Goto, EntriesWhole
  <2>9. CASE StartAgain
    <3>1. /\ input' = input /\ settings' = Unchanged /\ entryList' = <<>> /\ default' = 0
          /\ stage' = "early"
      BY <2>9 DEF StartAgain, Goto
    <3>2. Typed(settings') /\ Singles(entryList') BY <1>0, <3>1, TypedUnchanged
    <3> QED BY <1>2, <3>1, <3>2 DEF EntriesWhole
  <2>10. CASE UNCHANGED discoveryVars
    BY <1>2, <2>10 DEF discoveryVars, EntriesWhole
  <2> QED BY <1>2, <2>1, <2>2, <2>3, <2>4, <2>5, <2>6, <2>7, <2>8, <2>9, <2>10 DEF DiscoveryNext
<1> QED BY <1>1, <1>2

(* Given that, every step keeps OnlySelfExcluded.                            *)
LEMMA ExcludesSelfOnly ==
    /\ DiscoveryInit => OnlySelfExcluded
    /\ EntriesWhole /\ OnlySelfExcluded /\ [DiscoveryNext]_discoveryVars => OnlySelfExcluded'
<1>1. DiscoveryInit => OnlySelfExcluded
  BY DEF DiscoveryInit, OnlySelfExcluded
<1>2. ASSUME EntriesWhole, OnlySelfExcluded, [DiscoveryNext]_discoveryVars
      PROVE  OnlySelfExcluded'
  <2>1. CASE Exclude
    <3>1. /\ stage = "exclude" /\ UNCHANGED <<input, settings>>
          /\ before' = [entries |-> entryList, default |-> default]
          /\ Default("exclude_self") =>
               entryList' = Each(entryList, Remaining) /\ default' = Compacted(Each(entryList, Remaining))
          /\ ~Default("exclude_self") => UNCHANGED <<entryList, default>>
      BY <2>1 DEF Exclude
    <3>2. Wholes(settings, entryList) /\ Typed(settings) /\ default \in Nat
      BY <1>2, <3>1 DEF EntriesWhole
    <3>3. OnlySelf(input, settings, entryList', default', entryList, default)
      <4>1. CASE Default("exclude_self")
        <5> DEFINE es == Each(entryList, Remaining)
        <5>1. entryList' = es /\ default' = Compacted(es) BY <3>1, <4>1
        <5>2. es = Each(entryList, Remaining) OBVIOUS
        <5> HIDE DEF es
        <5>3. OnlySelf(input, settings, es, Compacted(es), entryList, default)
          BY <3>2, <4>1, <5>2, ExcludeOn
        <5> QED BY <5>1, <5>3
      <4>2. CASE ~Default("exclude_self")
        BY <3>1, <3>2, <4>2, ExcludeOff
      <4> QED BY <4>1, <4>2
    <3>4. before'.entries = entryList /\ before'.default = default BY <3>1
    <3>5. NoneLost(input', settings', entryList', default', before'.entries, before'.default)
      <4>1. NoneLost(input, settings, entryList', default', entryList, default)
        BY <3>3, KeepsCopies
      <4> QED BY <3>1, <3>4, <4>1
    <3> QED BY <3>5, OnlySelfNext
  <2>2. CASE UNCHANGED discoveryVars
    <3>1. /\ input' = input /\ settings' = settings /\ entryList' = entryList /\ default' = default
          /\ before' = before /\ stage' = stage
      BY <2>2 DEF discoveryVars
    <3>2. CASE stage = "snapshots"
      <4>1. NoneLost(input, settings, entryList, default, before.entries, before.default)
        BY <1>2, <3>2, OnlySelfNow
      <4>2. NoneLost(input', settings', entryList', default', before'.entries, before'.default)
        BY <3>1, <4>1
      <4> QED BY <4>2, OnlySelfNext
    <3>3. CASE stage # "snapshots"
      BY <3>1, <3>3 DEF OnlySelfExcluded
    <3> QED BY <3>2, <3>3
  <2>3. CASE \/ EarlyPass \/ Parse \/ NoConf \/ Theme \/ Detect \/ AttachManifest
             \/ AttachDetected \/ NoSnapshots \/ Recover \/ StartAgain
    <3>1. stage' # "snapshots"
      BY <2>3 DEF EarlyPass, Parse, NoConf, Theme, Detect, AttachManifest, AttachDetected,
                  NoSnapshots, Recover, StartAgain, Goto
    <3> QED BY <3>1 DEF OnlySelfExcluded
  <2> QED BY <1>2, <2>1, <2>2, <2>3 DEF DiscoveryNext
<1> QED BY <1>1, <1>2

(* Taking the running loader out of the menu takes out nothing else (copies  *)
(* of the loader aside, of which nothing is claimed), moves neither the      *)
(* default entry nor the default deployment of a group unless they are gone, *)
(* and leaves a group the options it would have had.                         *)
THEOREM SpecOnlySelfExcluded == DiscoverySpec => []OnlySelfExcluded
  BY EntriesWholeInductive, ExcludesSelfOnly, PTL DEF DiscoverySpec

-----------------------------------------------------------------------------
(* The records of a manifest are at an entry they may name.                  *)

(* Linux, of a list as a value.                                              *)
LinuxOf(es) == {i \in DOMAIN es : es[i].type # 1}

(* The entries of a name.                                                    *)
NamedIn(es, name) == {i \in LinuxOf(es) : es[i].name = name}

(* SnapshotsFit with a manifest, of a list as a value.                       *)
FitsManifest(es) ==
    \A e \in Range(es) : \A s \in Range(e.snapshots) :
      LET b == s.source
      IN  e.type # 1 /\ (b.entry # "" /\ Cardinality(NamedIn(es, b.entry)) = 1 => e.name = b.entry)

(* A set of naturals that is not empty has a least element.                  *)
LEMMA LeastIn ==
    ASSUME NEW S, S \subseteq Nat, S # {}
    PROVE  \E m \in S : \A k \in S : m <= k
<1> SUFFICES ASSUME \A m \in S : \E k \in S : k < m PROVE FALSE
  <2>1. \A m \in S, k \in S : k < m \/ m <= k
    OBVIOUS
  <2> QED BY <2>1
<1> DEFINE T == {n \in Nat : \A k \in S : k >= n}
<1>1. 0 \in T OBVIOUS
<1>2. ASSUME NEW n \in Nat, n \in T PROVE n + 1 \in T
  <2>1. ASSUME NEW k \in S PROVE k >= n + 1
    <3>1. PICK j \in S : j < k OBVIOUS
    <3>2. j >= n BY <1>2
    <3> QED BY <3>1, <3>2
  <2> QED BY <2>1
<1>3. \A n \in Nat : n \in T
  <2> HIDE DEF T
  <2> QED BY <1>1, <1>2, NatSet
<1>4. PICK m \in S : TRUE OBVIOUS
<1>5. m + 1 \in T BY <1>3, <1>4
<1> QED BY <1>4, <1>5

(* A record matches Linux entries only, and the one it names if there is one *)
(* of that name.                                                             *)
LEMMA MatchIs ==
    ASSUME IsSeq(entryList), NEW b
    PROVE  /\ Match(b) \subseteq LinuxOf(entryList)
           /\ b.entry # "" /\ Cardinality(NamedIn(entryList, b.entry)) = 1
              => Match(b) \subseteq NamedIn(entryList, b.entry)
<1> DEFINE named == {i \in Linux : entryList[i].name = b.entry}
           same == {i \in Linux : entryList[i].name = b.os}
           like == {i \in Linux : <<b.os, entryList[i].name>> \in Within}
           plain == {i \in Linux : entryList[i].type = 0}
           first == CHOOSE i \in same : \A j \in same : i <= j
<1>1. Linux = LinuxOf(entryList) BY DEF Linux, LinuxOf
<1>2. named = NamedIn(entryList, b.entry) BY <1>1 DEF NamedIn
<1>3. \A S : Sole(S) \subseteq S BY DEF Sole
<1>4. same # {} => first \in same
  <2>1. same \subseteq Nat BY SeqIs DEF Linux
  <2> HIDE DEF same
  <2> SUFFICES ASSUME same # {} PROVE first \in same
    OBVIOUS
  <2> HIDE DEF first
  <2>2. \E i \in same : \A j \in same : i <= j BY <2>1, LeastIn
  <2> QED BY <2>2 DEF first
<1>5. Match(b) = IF b.entry # "" /\ named # {} THEN Sole(named)
                 ELSE IF b.os # "" /\ same # {} THEN {first}
                 ELSE IF b.os # "" /\ like # {} THEN Sole(like)
                 ELSE Sole(plain)
  BY DEF Match
<1>6. Cardinality(named) = 1 => named # {}
  BY FS_EmptySet
<1>7. named \subseteq Linux /\ same \subseteq Linux /\ like \subseteq Linux /\ plain \subseteq Linux
  OBVIOUS
<1> HIDE DEF named, same, like, plain, first
<1>8. Match(b) \subseteq Linux
  BY <1>3, <1>4, <1>5, <1>7
<1>9. b.entry # "" /\ Cardinality(named) = 1 => Match(b) \subseteq named
  BY <1>3, <1>5, <1>6
<1> QED BY <1>1, <1>2, <1>8, <1>9

(* A record that is at an entry it matches.                                  *)
Recorded(r) == r.owner \in Match(r.snap.source)

(* A sequence of such records.                                               *)
Records(rs) == IsSeq(rs) /\ \A r \in Range(rs) : Recorded(r)

(* What load_snapshots holds, with such records.                             *)
Reading(acc) == acc = [recs |-> acc.recs, block |-> acc.block] /\ Records(acc.recs)

(* The end of a block keeps that.                                            *)
LEMMA EndSnapIs == ASSUME NEW acc, Reading(acc) PROVE Reading(EndSnap(acc))
<1> DEFINE b == acc.block
           kept == Match(b) # {} /\ b.id # Nothing /\ b.cmdline # Nothing
           r == [owner |-> CHOOSE i \in Match(b) : TRUE,
                 snap |-> [id |-> b.id, cmdline |-> b.cmdline, kernel |-> b.kernel,
                           source |-> b]]
           rs == IF kept THEN Append(acc.recs, r) ELSE acc.recs
<1>1. EndSnap(acc) = [recs |-> rs, block |-> Nothing]
  BY DEF EndSnap
<1>2. kept => Recorded(r)
  BY DEF Recorded
<1>3. Records(acc.recs) BY DEF Reading
<1>4. kept => Records(Append(acc.recs, r))
  <2> HIDE DEF r, kept
  <2> SUFFICES ASSUME kept PROVE Records(Append(acc.recs, r))
    OBVIOUS
  <2>1. IsSeq(acc.recs) BY <1>3 DEF Records
  <2>2. IsSeq(<<r>>) /\ Range(<<r>>) = {r} BY OneIs
  <2>3. Append(acc.recs, r) = acc.recs \o <<r>> BY <2>1, AppendIs
  <2>4. IsSeq(acc.recs \o <<r>>) /\ Range(acc.recs \o <<r>>) = Range(acc.recs) \cup {r}
    BY <2>1, <2>2, ConcatIs
  <2> QED BY <1>2, <1>3, <2>3, <2>4 DEF Records
<1> HIDE DEF r, kept
<1>5. Records(rs) BY <1>3, <1>4
<1> HIDE DEF rs
<1> QED BY <1>1, <1>5 DEF Reading

(* So does any line.                                                         *)
LEMMA SnapLineIs == ASSUME NEW acc, Reading(acc), NEW l PROVE Reading(SnapLine(acc, l))
<1>1. \A b : Reading([acc EXCEPT !.block = b])
  BY DEF Reading
<1>2. Reading(EndSnap(acc)) BY EndSnapIs
<1> QED BY <1>1, <1>2 DEF SnapLine

(* The records of a manifest are at entries they match.                      *)
LEMMA ManifestIs == ASSUME IsSeq(input.manifest) PROVE Records(Manifest)
<1> DEFINE n == Least(Len(input.manifest), MaxLines)
           lines == SubSeq(input.manifest, 1, n)
           start == [recs |-> <<>>, block |-> Nothing]
           acc == SnapFold(start, lines)
<1>1. n \in Nat /\ n <= Len(input.manifest)
  BY SeqIs, DiscoveryAssumption DEF Least
<1>2. Len(lines) \in Nat
  <2> HIDE DEF n
  <2> QED BY <1>1, SubSeqIs
<1>3. Reading(start)
  BY EmptyIs DEF Reading, Records
<1>4. Reading(acc)
  <2> HIDE DEF start, lines
  <2>1. PICK r : /\ r[0] = start
                 /\ \A i \in 1..Len(lines) : r[i] = SnapLine(r[i - 1], lines[i])
                 /\ acc = r[Len(lines)]
    BY <1>2, SnapSteps
  <2> DEFINE T == {k \in Nat : k <= Len(lines) => Reading(r[k])}
  <2>2. 0 \in T BY <1>3, <2>1
  <2>3. ASSUME NEW k \in Nat, k \in T PROVE k + 1 \in T
    <3> SUFFICES ASSUME k + 1 <= Len(lines) PROVE Reading(r[k + 1])
      OBVIOUS
    <3>1. Reading(r[k]) BY <1>2, <2>3
    <3>2. r[k + 1] = SnapLine(r[k], lines[k + 1]) BY <1>2, <2>1
    <3> QED BY <3>1, <3>2, SnapLineIs
  <2>4. \A k \in Nat : k \in T
    <3> HIDE DEF T
    <3> QED BY <2>2, <2>3, NatSet
  <2> QED BY <1>2, <2>1, <2>4
<1>5. Manifest = IF acc.block # Nothing THEN EndSnap(acc).recs ELSE acc.recs
  BY DEF Manifest, SnapFold
<1> HIDE DEF acc
<1> QED BY <1>4, <1>5, EndSnapIs DEF Reading

(* So are the snapshots an entry gets.                                       *)
LEMMA OwnSnapsIs ==
    ASSUME IsSeq(input.manifest), NEW i
    PROVE  \A s \in Range(OwnSnaps(i)) : i \in Match(s.source)
<1> DEFINE own == Those(Manifest, LAMBDA r : r.owner = i)
           K == {k \in 1..Len(Manifest) : Manifest[k].owner = i}
<1>1. Records(Manifest) BY ManifestIs
<1>2. IsSeq(Manifest) /\ DOMAIN Manifest = 1..Len(Manifest) BY <1>1, SeqIs DEF Records
<1>3. own = Kept(Manifest, K) BY <1>2 DEF Those, Kept, KeptParts
<1>4. IsSeq(Kept(Manifest, K))
      /\ Range(Kept(Manifest, K)) = {Manifest[k] : k \in K \cap (1..Len(Manifest))}
  <2> HIDE DEF K
  <2> QED BY <1>2, KeptIs
<1>5. OwnSnaps(i) = [k \in DOMAIN own |-> own[k].snap] BY DEF OwnSnaps
<1> HIDE DEF own
<1>6. ASSUME NEW s \in Range(OwnSnaps(i)) PROVE i \in Match(s.source)
  <2>1. PICK k \in DOMAIN own : s = own[k].snap
    BY <1>5 DEF Range
  <2>2. own[k] \in Range(own) BY DEF Range
  <2>3. PICK j \in K : own[k] = Manifest[j] BY <1>3, <1>4, <2>2
  <2>4. Manifest[j] \in Range(Manifest) /\ Manifest[j].owner = i BY <1>2, SeqIs
  <2>5. Recorded(Manifest[j]) BY <1>1, <2>4 DEF Records
  <2> QED BY <2>1, <2>3, <2>4, <2>5 DEF Recorded
<1> QED BY <1>6

(* Attaching them fits: names and types of the entries are the same before   *)
(* and after.                                                                *)
LEMMA ManifestFits ==
    ASSUME IsSeq(input.manifest), Wholes(settings, entryList), NEW es,
           es = [i \in DOMAIN entryList |-> [entryList[i] EXCEPT !.snapshots = OwnSnaps(i)]]
    PROVE  FitsManifest(es)
<1>1. IsSeq(entryList) /\ DOMAIN entryList = 1..Len(entryList) BY SeqIs DEF Wholes
<1>2. ASSUME NEW i \in DOMAIN entryList
      PROVE  /\ es[i].name = entryList[i].name /\ es[i].type = entryList[i].type
             /\ es[i].snapshots = OwnSnaps(i)
  <2>1. IsEntry(entryList[i]) BY <1>1, SeqIs DEF Wholes, Whole
  <2> DEFINE own == OwnSnaps(i)
  <2>2. es[i] = [entryList[i] EXCEPT !.snapshots = own] OBVIOUS
  <2> HIDE DEF own
  <2>3. es[i].name = entryList[i].name /\ es[i].type = entryList[i].type /\ es[i].snapshots = own
    BY <2>1, <2>2 DEF IsEntry
  <2> QED BY <2>3 DEF own
<1>3. DOMAIN es = DOMAIN entryList OBVIOUS
<1>4. LinuxOf(es) = LinuxOf(entryList) BY <1>2, <1>3 DEF LinuxOf
<1>5. \A name : NamedIn(es, name) = NamedIn(entryList, name)
  BY <1>2, <1>4 DEF NamedIn, LinuxOf
<1>6. ASSUME NEW e \in Range(es), NEW s \in Range(e.snapshots)
      PROVE  /\ e.type # 1
             /\ s.source.entry # "" /\ Cardinality(NamedIn(es, s.source.entry)) = 1
                => e.name = s.source.entry
  <2>1. PICK i \in DOMAIN entryList : e = es[i] BY <1>3 DEF Range
  <2>2. i \in Match(s.source) BY <1>2, <2>1, OwnSnapsIs
  <2>3. i \in LinuxOf(entryList) BY <1>1, <2>2, MatchIs
  <2>4. e.type # 1 BY <1>2, <2>1, <2>3 DEF LinuxOf
  <2>5. ASSUME s.source.entry # "", Cardinality(NamedIn(es, s.source.entry)) = 1
        PROVE  e.name = s.source.entry
    <3>1. Cardinality(NamedIn(entryList, s.source.entry)) = 1
      BY <1>5, <2>5, Zenon
    <3>2. i \in NamedIn(entryList, s.source.entry) BY <1>1, <2>2, <2>5, <3>1, MatchIs
    <3> QED BY <1>2, <2>1, <3>2 DEF NamedIn
  <2> QED BY <2>4, <2>5
<1> QED BY <1>6 DEF FitsManifest

-----------------------------------------------------------------------------
(* The command line of a snapshot: the flags and words it is made from.      *)

(* A mount flag that names no subvolume.                                     *)
NotSubvol(a) == a.name \notin {"subvol", "subvolid"}

(* Those of a word.                                                          *)
Rest(args) == Those(args, LAMBDA a : NotSubvol(a))

(* The mount flags of a word that name a subvolume.                          *)
Mounted(args) == Those(args, LAMBDA a : a.name \in {"subvol", "subvolid"})

(* The mount flags of a command line that name no subvolume.                 *)
OtherArgs(words) == Each(Flags(words), LAMBDA w : Rest(w.args))

(* Its words that are no mount flags.                                        *)
OtherWords(words) == Those(words, LAMBDA w : w.key # "rootflags")

(* The flags of it that name a subvolume.                                    *)
Subvols(words) ==
    Each(Flags(words), LAMBDA w : Mounted(w.args))

(* BootsSnapshot, of the options of an entry as a value.                     *)
MadeFor(words, s) ==
    /\ Len(Flags(s.cmdline)) = 1
    /\ Subvols(s.cmdline)
         = <<[name |-> "subvol", value |-> [base |-> s.base, dir |-> s.dir, id |-> s.id]]>>
    /\ OtherArgs(s.cmdline) = OtherArgs(words)
    /\ OtherWords(s.cmdline) = OtherWords(words)

(* It is BootsSnapshot.                                                      *)
LEMMA BootsIt == ASSUME NEW e, NEW s PROVE BootsSnapshot(e, s) <=> MadeFor(Effective(e), s)
  BY DEF BootsSnapshot, MadeFor, OtherArgs, OtherWords, Subvols, Rest, Mounted, NotSubvol

(* Flattening over a sequence of one.                                        *)
LEMMA OfOne ==
    ASSUME NEW w, NEW x, NEW f, f = [i \in DOMAIN <<w>> |-> x], IsSeq(x)
    PROVE  FlattenSeq(f) = x
<1>1. DOMAIN <<w>> = 1..1 BY OneIs, SeqIs
<1>2. f = <<x>>
  <2>1. IsSeq(f) /\ Len(f) = 1
    <3>1. f = [i \in 1..1 |-> f[i]] BY <1>1
    <3> QED BY <3>1, FcnIs
  <2>2. IsSeq(<<x>>) /\ Len(<<x>>) = 1 /\ <<x>>[1] = x BY OneIs
  <2>3. \A i \in 1..Len(f) : f[i] = <<x>>[i]
    <3>1. f[1] = x BY <1>1
    <3> QED BY <2>1, <2>2, <3>1
  <2> QED BY <2>1, <2>2, <2>3, SameSeq
<1> QED BY <1>2, FlatOne

(* The flags kept name no subvolume.                                         *)
LEMMA OtherArgsIs ==
    ASSUME NEW words, CommandLine(words)
    PROVE  IsSeq(OtherArgs(words)) /\ \A a \in Range(OtherArgs(words)) : NotSubvol(a)
<1> DEFINE Kf == {i \in 1..Len(words) : words[i].key = "rootflags"}
           fl == Flags(words)
           Ka(k) == {i \in 1..Len(fl[k].args) : NotSubvol(fl[k].args[i])}
           ss == [k \in 1..Len(fl) |-> Kept(fl[k].args, Ka(k))]
<1>1. IsSeq(words) /\ DOMAIN words = 1..Len(words) BY SeqIs DEF CommandLine
<1>2. fl = Kept(words, Kf) BY <1>1 DEF Flags, Those, Kept, KeptParts
<1>3. IsSeq(fl) /\ Range(fl) \subseteq Range(words)
  <2>1. IsSeq(Kept(words, Kf)) /\ Range(Kept(words, Kf)) = {words[i] : i \in Kf \cap (1..Len(words))}
    <3> HIDE DEF Kf
    <3> QED BY <1>1, KeptIs
  <2>2. \A i \in 1..Len(words) : words[i] \in Range(words) BY <1>1, SeqIs
  <2> QED BY <1>2, <2>1, <2>2
<1>4. Len(fl) \in Nat /\ DOMAIN fl = 1..Len(fl) /\ \A k \in 1..Len(fl) : fl[k] \in Range(fl)
  <2> HIDE DEF fl
  <2> QED BY <1>3, SeqIs
<1>5. \A k \in 1..Len(fl) : IsSeq(fl[k].args) /\ DOMAIN fl[k].args = 1..Len(fl[k].args)
  BY <1>3, <1>4, SeqIs DEF CommandLine
<1>6. OtherArgs(words) = FlattenSeq(ss)
  <2>1. OtherArgs(words)
         = FlattenSeq([k \in DOMAIN fl |-> Rest(fl[k].args)])
    BY DEF OtherArgs, Each
  <2>2. \A k \in 1..Len(fl) : Rest(fl[k].args) = Kept(fl[k].args, Ka(k))
    BY <1>5 DEF Rest, Those, Kept, KeptParts
  <2> HIDE DEF fl, Ka
  <2> QED BY <1>4, <2>1, <2>2
<1>7. ASSUME NEW k \in 1..Len(fl)
      PROVE  /\ ss[k] = Kept(fl[k].args, Ka(k)) /\ IsSeq(Kept(fl[k].args, Ka(k)))
             /\ Range(Kept(fl[k].args, Ka(k))) = {fl[k].args[i] : i \in Ka(k) \cap (1..Len(fl[k].args))}
  <2>1. ss[k] = Kept(fl[k].args, Ka(k)) OBVIOUS
  <2> HIDE DEF fl, Ka, ss
  <2> QED BY <1>5, <2>1, KeptIs
<1>8. IsSeq(ss) /\ Len(ss) = Len(fl)
  <2>1. ss = [k \in 1..Len(fl) |-> ss[k]] OBVIOUS
  <2> HIDE DEF fl, ss
  <2> QED BY <1>4, <2>1, FcnIs
<1>9. Parts(ss)
  <2> HIDE DEF fl, ss, Ka
  <2> QED BY <1>7, <1>8 DEF Parts
<1>10. IsSeq(FlattenSeq(ss)) /\ Range(FlattenSeq(ss)) = UNION {Range(ss[k]) : k \in 1..Len(ss)}
  <2> HIDE DEF ss
  <2> QED BY <1>9, FlatIs
<1>11. ASSUME NEW a \in Range(FlattenSeq(ss)) PROVE NotSubvol(a)
  <2>1. PICK k \in 1..Len(fl) : a \in Range(ss[k])
    <3> HIDE DEF ss, fl
    <3> QED BY <1>8, <1>10
  <2>2. a \in {fl[k].args[i] : i \in Ka(k) \cap (1..Len(fl[k].args))}
    <3> HIDE DEF ss, fl, Ka
    <3> QED BY <1>7, <2>1
  <2> HIDE DEF fl
  <2> QED BY <2>2
<1> HIDE DEF ss
<1> QED BY <1>6, <1>10, <1>11

(* The words kept are words of the command line.                             *)
LEMMA OtherWordsIs ==
    ASSUME NEW words, CommandLine(words)
    PROVE  /\ IsSeq(OtherWords(words))
           /\ \A w \in Range(OtherWords(words)) : w.key # "rootflags" /\ w \in Range(words)
<1> DEFINE K == {i \in 1..Len(words) : words[i].key # "rootflags"}
<1>1. IsSeq(words) /\ DOMAIN words = 1..Len(words) BY SeqIs DEF CommandLine
<1>2. OtherWords(words) = Kept(words, K) BY <1>1 DEF OtherWords, Those, Kept, KeptParts
<1>3. IsSeq(Kept(words, K)) /\ Range(Kept(words, K)) = {words[i] : i \in K \cap (1..Len(words))}
  <2> HIDE DEF K
  <2> QED BY <1>1, KeptIs
<1>4. \A i \in 1..Len(words) : words[i] \in Range(words) BY <1>1, SeqIs
<1> QED BY <1>2, <1>3, <1>4

(* Keeping the first half, or the second, of two sequences joined.           *)
LEMMA SplitIs ==
    ASSUME NEW s, IsSeq(s), NEW t, IsSeq(t), NEW K,
           \/ K \cap (1..(Len(s) + Len(t))) = 1..Len(s)
           \/ K \cap (1..(Len(s) + Len(t))) = (Len(s) + 1)..(Len(s) + Len(t))
    PROVE  /\ K \cap (1..(Len(s) + Len(t))) = 1..Len(s) => Kept(s \o t, K) = s
           /\ K \cap (1..(Len(s) + Len(t))) = (Len(s) + 1)..(Len(s) + Len(t))
              => Kept(s \o t, K) = t
<1> DEFINE L == {i \in 1..Len(t) : Len(s) + i \in K}
<1>0. Len(s) \in Nat /\ Len(t) \in Nat BY SeqIs
<1>1. \A i \in 1..Len(t) : i \in L <=> Len(s) + i \in K OBVIOUS
<1>2. Kept(s \o t, K) = Kept(s, K) \o Kept(t, L)
  <2> HIDE DEF L
  <2> QED BY <1>1, KeptConcat
<1>3. CASE K \cap (1..(Len(s) + Len(t))) = 1..Len(s)
  <2>1. 1..Len(s) \subseteq K BY <1>3
  <2>2. L \cap (1..Len(t)) = {}
    <3> SUFFICES ASSUME NEW i \in 1..Len(t), i \in L PROVE FALSE
      OBVIOUS
    <3>1. Len(s) + i \in K \cap (1..(Len(s) + Len(t))) BY <1>0
    <3>2. Len(s) + i \notin 1..Len(s) BY <1>0
    <3> QED BY <1>3, <3>1, <3>2
  <2> HIDE DEF L
  <2>3. Kept(s, K) = s BY <2>1, KeptAll
  <2>4. Kept(t, L) = <<>> BY <2>2, KeptNone
  <2>5. s \o <<>> = s BY ConcatEmptyIs
  <2>6. Kept(s \o t, K) = s BY <1>2, <2>3, <2>4, <2>5, Zenon
  <2>7. K \cap (1..(Len(s) + Len(t))) = (Len(s) + 1)..(Len(s) + Len(t)) => Kept(s \o t, K) = t
    <3> SUFFICES ASSUME K \cap (1..(Len(s) + Len(t))) = (Len(s) + 1)..(Len(s) + Len(t))
                 PROVE  s = t
      BY <2>6
    <3>1. 1..Len(s) = (Len(s) + 1)..(Len(s) + Len(t)) BY <1>3
    <3>2. Len(s) = 0 /\ Len(t) = 0
      <4>1. Len(s) \notin (Len(s) + 1)..(Len(s) + Len(t)) BY <1>0
      <4>2. Len(s) = 0 BY <1>0, <3>1, <4>1
      <4>3. Len(t) # 0 => 1 \in (Len(s) + 1)..(Len(s) + Len(t)) BY <1>0, <4>2
      <4>4. 1 \notin 1..Len(s) BY <4>2
      <4> QED BY <3>1, <4>2, <4>3, <4>4
    <3> QED BY <3>2, SameSeq
  <2> QED BY <2>6, <2>7
<1>4. CASE K \cap (1..(Len(s) + Len(t))) = (Len(s) + 1)..(Len(s) + Len(t))
  <2>1. K \cap (1..Len(s)) = {}
    <3> SUFFICES ASSUME NEW i \in 1..Len(s), i \in K PROVE FALSE
      OBVIOUS
    <3>1. i \in K \cap (1..(Len(s) + Len(t))) BY <1>0
    <3>2. i \notin (Len(s) + 1)..(Len(s) + Len(t)) BY <1>0
    <3> QED BY <1>4, <3>1, <3>2
  <2>2. 1..Len(t) \subseteq L
    <3> SUFFICES ASSUME NEW i \in 1..Len(t) PROVE Len(s) + i \in K
      OBVIOUS
    <3>1. Len(s) + i \in (Len(s) + 1)..(Len(s) + Len(t)) BY <1>0
    <3> QED BY <1>4, <3>1
  <2> HIDE DEF L
  <2>3. Kept(s, K) = <<>> BY <2>1, KeptNone
  <2>4. Kept(t, L) = t BY <2>2, KeptAll
  <2>5. <<>> \o t = t BY ConcatEmptyIs
  <2>6. Kept(s \o t, K) = t BY <1>2, <2>3, <2>4, <2>5, Zenon
  <2>7. ~ (K \cap (1..(Len(s) + Len(t))) = 1..Len(s)) \/ Kept(s \o t, K) = s
    <3> SUFFICES ASSUME K \cap (1..(Len(s) + Len(t))) = 1..Len(s)
                 PROVE  Kept(s \o t, K) = s
      OBVIOUS
    <3> QED BY <1>3
  <2> QED BY <2>6, <2>7
<1> QED BY <1>3, <1>4

-----------------------------------------------------------------------------
(* The command line built for a subvolume mounts that subvolume alone.       *)

(* A subvolume put before other flags: the flags, and the subvolume.         *)
LEMMA ArgsSplit ==
    ASSUME NEW x, x.name \in {"subvol", "subvolid"}, NEW t, IsSeq(t),
           \A a \in Range(t) : NotSubvol(a)
    PROVE  /\ Rest(<<x>> \o t) = t
           /\ Mounted(<<x>> \o t) = <<x>>
<1> DEFINE s == <<x>>
           u == s \o t
           K == {i \in 1..Len(u) : NotSubvol(u[i])}
           L == {i \in 1..Len(u) : u[i].name \in {"subvol", "subvolid"}}
<1>1. IsSeq(s) /\ Len(s) = 1 /\ s[1] = x BY OneIs
<1>2. /\ IsSeq(u) /\ Len(u) = Len(s) + Len(t) /\ Len(t) \in Nat /\ DOMAIN u = 1..Len(u)
      /\ \A i \in 1..Len(s) : u[i] = s[i]
      /\ \A i \in 1..Len(t) : u[Len(s) + i] = t[i]
  <2> HIDE DEF s
  <2>0. IsSeq(s) /\ IsSeq(t) BY <1>1
  <2>1. /\ IsSeq(u) /\ Len(u) = Len(s) + Len(t)
        /\ \A i \in 1..Len(s) : u[i] = s[i]
        /\ \A i \in 1..Len(t) : u[Len(s) + i] = t[i]
    BY <2>0, ConcatIs
  <2>2. Len(s) \in Nat /\ Len(t) \in Nat BY <1>1, SeqIs
  <2>3. DOMAIN u = 1..Len(u)
    <3> HIDE DEF u
    <3> QED BY <2>1, SeqIs
  <2> QED BY <2>1, <2>2, <2>3
<1>3. \A i \in 1..Len(t) : NotSubvol(t[i]) BY SeqIs
<1>4. Rest(u) = Kept(u, K) BY <1>2 DEF Rest, Those, Kept, KeptParts
<1>5. Mounted(u) = Kept(u, L)
  BY <1>2 DEF Mounted, Those, Kept, KeptParts
<1>6. \A i \in 1..Len(u) : i = 1 \/ i - 1 \in 1..Len(t)
  <2> HIDE DEF s, u
  <2> QED BY <1>1, <1>2
<1>7. /\ ~NotSubvol(u[1])
      /\ \A i \in 2..Len(u) : NotSubvol(u[i])
  <2>1. u[1] = x /\ ~NotSubvol(x)
    <3> HIDE DEF u, s
    <3> QED BY <1>1, <1>2 DEF NotSubvol
  <2>2. ASSUME NEW i \in 2..Len(u) PROVE NotSubvol(u[i])
    <3> HIDE DEF u, s
    <3>1. i - 1 \in 1..Len(t) /\ Len(s) + (i - 1) = i BY <1>1, <1>2
    <3>2. u[i] = t[i - 1] BY <1>2, <3>1
    <3> QED BY <1>3, <3>1, <3>2
  <2> QED BY <2>1, <2>2
<1>8. K \cap (1..(Len(s) + Len(t))) = (Len(s) + 1)..(Len(s) + Len(t))
  <2> HIDE DEF s, u
  <2> QED BY <1>1, <1>2, <1>7
<1>9. L \cap (1..(Len(s) + Len(t))) = 1..Len(s)
  <2>1. \A i \in 1..Len(u) : u[i].name \in {"subvol", "subvolid"} <=> ~NotSubvol(u[i])
    BY DEF NotSubvol
  <2> HIDE DEF s, u
  <2> QED BY <1>1, <1>2, <1>7, <2>1
<1>10. Kept(u, K) = t
  <2> HIDE DEF K, s
  <2> QED BY <1>1, <1>8, SplitIs
<1>11. Kept(u, L) = s
  <2> HIDE DEF L, s
  <2> QED BY <1>1, <1>9, SplitIs
<1> QED BY <1>4, <1>5, <1>10, <1>11

(* A word of flags put behind other words: the flags, and the words.         *)
LEMMA WordsSplit ==
    ASSUME NEW s, IsSeq(s), \A w \in Range(s) : w.key # "rootflags",
           NEW x, x.key = "rootflags"
    PROVE  Flags(s \o <<x>>) = <<x>> /\ OtherWords(s \o <<x>>) = s
<1> DEFINE t == <<x>>
           u == s \o t
           K == {i \in 1..Len(u) : u[i].key # "rootflags"}
           L == {i \in 1..Len(u) : u[i].key = "rootflags"}
<1>1. IsSeq(t) /\ Len(t) = 1 /\ t[1] = x BY OneIs
<1>2. /\ IsSeq(u) /\ Len(u) = Len(s) + Len(t) /\ Len(s) \in Nat /\ DOMAIN u = 1..Len(u)
      /\ \A i \in 1..Len(s) : u[i] = s[i]
      /\ \A i \in 1..Len(t) : u[Len(s) + i] = t[i]
  <2> HIDE DEF t
  <2>0. IsSeq(s) /\ IsSeq(t) BY <1>1
  <2>1. /\ IsSeq(u) /\ Len(u) = Len(s) + Len(t)
        /\ \A i \in 1..Len(s) : u[i] = s[i]
        /\ \A i \in 1..Len(t) : u[Len(s) + i] = t[i]
    BY <2>0, ConcatIs
  <2>2. Len(s) \in Nat /\ Len(t) \in Nat BY <1>1, SeqIs
  <2>3. DOMAIN u = 1..Len(u)
    <3> HIDE DEF u
    <3> QED BY <2>1, SeqIs
  <2> QED BY <2>1, <2>2, <2>3
<1>3. \A i \in 1..Len(s) : s[i].key # "rootflags" BY SeqIs
<1>4. OtherWords(u) = Kept(u, K) BY <1>2 DEF OtherWords, Those, Kept, KeptParts
<1>5. Flags(u) = Kept(u, L) BY <1>2 DEF Flags, Those, Kept, KeptParts
<1>6. /\ \A i \in 1..Len(s) : u[i].key # "rootflags"
      /\ u[Len(s) + 1].key = "rootflags"
  <2> HIDE DEF u, t
  <2> QED BY <1>1, <1>2, <1>3
<1>7. \A i \in 1..Len(u) : i \in 1..Len(s) \/ i = Len(s) + 1
  <2> HIDE DEF u, t
  <2> QED BY <1>1, <1>2
<1>8. K \cap (1..(Len(s) + Len(t))) = 1..Len(s)
  <2> HIDE DEF u, t
  <2> QED BY <1>1, <1>2, <1>6, <1>7
<1>9. L \cap (1..(Len(s) + Len(t))) = (Len(s) + 1)..(Len(s) + Len(t))
  <2> HIDE DEF u, t
  <2> QED BY <1>1, <1>2, <1>6, <1>7
<1>10. Kept(u, K) = s
  <2> HIDE DEF K, t
  <2> QED BY <1>1, <1>8, SplitIs
<1>11. Kept(u, L) = t
  <2> HIDE DEF L, t
  <2> QED BY <1>1, <1>9, SplitIs
<1> QED BY <1>4, <1>5, <1>10, <1>11

(* Snap_build_cmdline: one word of mount flags, in it the subvolume of the   *)
(* snapshot alone, with the other flags and words of the entry.              *)
LEMMA BuildIs ==
    ASSUME NEW words, CommandLine(words), NEW s,
           s.cmdline = Build(words, [base |-> s.base, dir |-> s.dir, id |-> s.id])
    PROVE  MadeFor(words, s)
<1> DEFINE at == [base |-> s.base, dir |-> s.dir, id |-> s.id]
           x == [name |-> "subvol", value |-> at]
           more == OtherArgs(words)
           rest == OtherWords(words)
           args == <<x>> \o more
           w == [key |-> "rootflags", args |-> args]
           c == rest \o <<w>>
<1>1. IsSeq(more) /\ \A a \in Range(more) : NotSubvol(a) BY OtherArgsIs
<1>2. IsSeq(rest) /\ \A v \in Range(rest) : v.key # "rootflags" BY OtherWordsIs
<1>3. s.cmdline = c
  <2>1. s.cmdline = Append(rest, w)
    BY DEF Build, OtherArgs, OtherWords, NotSubvol, Rest
  <2> HIDE DEF rest, w
  <2> QED BY <1>2, <2>1, AppendIs
<1>4. w.key = "rootflags" /\ w.args = args OBVIOUS
<1>5. Flags(c) = <<w>> /\ OtherWords(c) = rest
  <2> HIDE DEF rest, w
  <2> QED BY <1>2, <1>4, WordsSplit
<1>6. /\ Rest(args) = more
      /\ Mounted(args) = <<x>>
  <2>1. x.name \in {"subvol", "subvolid"} OBVIOUS
  <2> HIDE DEF x, more
  <2> QED BY <1>1, <2>1, ArgsSplit
<1>7. <<w>>[1].args = args /\ DOMAIN <<w>> = {1}
  <2>1. <<w>>[1] = w /\ DOMAIN <<w>> = 1..1 BY OneIs, SeqIs
  <2>2. 1..1 = {1} OBVIOUS
  <2> HIDE DEF w
  <2> QED BY <1>4, <2>1, <2>2
<1>8. OtherArgs(c) = more
  <2> DEFINE f == [i \in DOMAIN <<w>> |-> Rest(<<w>>[i].args)]
  <2>1. OtherArgs(c) = FlattenSeq(f) BY <1>5 DEF OtherArgs, Each
  <2>2. f = [i \in DOMAIN <<w>> |-> more]
    <3> HIDE DEF w, args, more
    <3> QED BY <1>6, <1>7
  <2> HIDE DEF f, w, more
  <2> QED BY <1>1, <2>1, <2>2, OfOne
<1>9. Subvols(c) = <<x>>
  <2> DEFINE f == [i \in DOMAIN <<w>> |->
                     Mounted(<<w>>[i].args)]
  <2>1. Subvols(c) = FlattenSeq(f) BY <1>5 DEF Subvols, Each
  <2>2. f = [i \in DOMAIN <<w>> |-> <<x>>]
    <3> HIDE DEF w, args, x
    <3> QED BY <1>6, <1>7
  <2>3. IsSeq(<<x>>) BY OneIs
  <2> DEFINE y == <<x>>
  <2> HIDE DEF f, w, y
  <2>4. FlattenSeq(f) = y BY <2>2, <2>3, OfOne DEF y
  <2> QED BY <2>1, <2>4 DEF y
<1>10. Len(<<w>>) = 1 BY OneIs
<1> HIDE DEF c, w, more, rest
<1> QED BY <1>3, <1>5, <1>8, <1>9, <1>10 DEF MadeFor, more, rest

-----------------------------------------------------------------------------
(* The names of a directory, sorted: the newest first.                       *)

(* Names by number, the highest first, none twice.                           *)
Falling(s) ==
    /\ IsSeq(s) /\ \A i \in 1..Len(s) : s[i].id \in Nat
    /\ \A i, j \in 1..Len(s) : i < j => s[i].id > s[j].id

(* Names of different numbers.                                               *)
Distinct(s) ==
    /\ IsSeq(s) /\ \A i \in 1..Len(s) : s[i].id \in Nat
    /\ \A i, j \in 1..Len(s) : i # j => s[i].id # s[j].id

(* Leaving some out keeps the order.                                         *)
LEMMA KeptFalling == ASSUME NEW s, Falling(s), NEW K PROVE Falling(Kept(s, K))
<1> DEFINE u == Kept(s, K)
<1>1. IsSeq(s) BY DEF Falling
<1>2. PICK from : From(s, K, u, from) BY <1>1, KeptFrom
<1>3. IsSeq(u) /\ Len(u) \in Nat BY <1>1, KeptIs, SeqIs
<1> HIDE DEF u
<1>4. \A j \in 1..Len(u) : from[j] \in 1..Len(s) /\ u[j] = s[from[j]] BY <1>2 DEF From
<1>5. \A j, k \in 1..Len(u) : j < k => from[j] < from[k] BY <1>2 DEF From
<1>6. Falling(u) BY <1>3, <1>4, <1>5 DEF Falling
<1> QED BY <1>6 DEF u

(* Leaving some out keeps them different.                                    *)
LEMMA KeptDistinct == ASSUME NEW s, Distinct(s), NEW K PROVE Distinct(Kept(s, K))
<1> DEFINE u == Kept(s, K)
<1>1. IsSeq(s) BY DEF Distinct
<1>2. PICK from : From(s, K, u, from) BY <1>1, KeptFrom
<1>3. IsSeq(u) /\ Len(u) \in Nat BY <1>1, KeptIs, SeqIs
<1> HIDE DEF u
<1>4. Len(s) \in Nat /\ \A j \in 1..Len(u) : from[j] \in 1..Len(s) /\ u[j] = s[from[j]]
  BY <1>1, <1>2, SeqIs DEF From
<1>5. \A j, k \in 1..Len(u) : j < k => from[j] < from[k] BY <1>2 DEF From
<1>6. ASSUME NEW j \in 1..Len(u), NEW k \in 1..Len(u), j # k PROVE from[j] # from[k]
  <2>1. j < k \/ k < j BY <1>3, <1>6
  <2> QED BY <1>4, <1>5, <2>1
<1>7. ASSUME NEW j \in 1..Len(u), NEW k \in 1..Len(u), j # k PROVE u[j].id # u[k].id
  <2>1. s[from[j]].id # s[from[k]].id BY <1>4, <1>6, <1>7 DEF Distinct
  <2> QED BY <1>4, <2>1
<1>8. \A j \in 1..Len(u) : u[j].id \in Nat BY <1>4 DEF Distinct
<1>9. Distinct(u) BY <1>3, <1>7, <1>8 DEF Distinct
<1> QED BY <1>9 DEF u

(* Higher numbers before lower ones.                                         *)
LEMMA JoinFalling ==
    ASSUME NEW s, Falling(s), NEW t, Falling(t),
           \A x \in Range(s), y \in Range(t) : x.id > y.id
    PROVE  Falling(s \o t)
<1> DEFINE u == s \o t
<1>1. IsSeq(s) /\ IsSeq(t) BY DEF Falling
<1>2. /\ IsSeq(u) /\ Len(u) = Len(s) + Len(t)
      /\ \A i \in 1..Len(s) : u[i] = s[i]
      /\ \A i \in 1..Len(t) : u[Len(s) + i] = t[i]
  BY <1>1, ConcatIs
<1>3. /\ Len(s) \in Nat /\ Len(t) \in Nat
      /\ \A i \in 1..Len(s) : s[i] \in Range(s)
      /\ \A i \in 1..Len(t) : t[i] \in Range(t)
  BY <1>1, SeqIs
<1> HIDE DEF u
<1>4. ASSUME NEW i \in 1..Len(u)
      PROVE  \/ i \in 1..Len(s) /\ u[i] = s[i]
             \/ i - Len(s) \in 1..Len(t) /\ u[i] = t[i - Len(s)]
  <2>1. CASE i <= Len(s) BY <1>2, <1>3, <2>1
  <2>2. CASE i > Len(s)
    <3>1. i - Len(s) \in 1..Len(t) /\ Len(s) + (i - Len(s)) = i BY <1>2, <1>3, <2>2
    <3>2. u[Len(s) + (i - Len(s))] = t[i - Len(s)] BY <1>2, <3>1
    <3> QED BY <3>1, <3>2
  <2> QED BY <1>2, <1>3, <2>1, <2>2
<1>5. \A i \in 1..Len(u) : u[i].id \in Nat BY <1>4 DEF Falling
<1>6. ASSUME NEW i \in 1..Len(u), NEW j \in 1..Len(u), i < j PROVE u[i].id > u[j].id
  <2>1. CASE i \in 1..Len(s) /\ j \in 1..Len(s)
    BY <1>2, <1>6, <2>1 DEF Falling
  <2>2. CASE i \in 1..Len(s) /\ j - Len(s) \in 1..Len(t) /\ u[j] = t[j - Len(s)]
    <3>1. u[i] = s[i] /\ s[i] \in Range(s) /\ t[j - Len(s)] \in Range(t) BY <1>2, <1>3, <2>2
    <3> QED BY <2>2, <3>1
  <2>3. CASE i - Len(s) \in 1..Len(t) /\ u[i] = t[i - Len(s)]
    <3>1. j - Len(s) \in 1..Len(t) /\ u[j] = t[j - Len(s)] BY <1>3, <1>4, <1>6, <2>3
    <3>2. i - Len(s) < j - Len(s) BY <1>3, <1>6, <2>3
    <3> QED BY <2>3, <3>1, <3>2 DEF Falling
  <2> QED BY <1>4, <2>1, <2>2, <2>3
<1> QED BY <1>2, <1>5, <1>6 DEF Falling, u

(* A new name is put where it belongs.                                       *)
LEMMA InsertIs ==
    ASSUME NEW s, Falling(s), NEW n, n.id \in Nat, \A x \in Range(s) : x.id # n.id
    PROVE  Falling(Insert(s, n)) /\ Range(Insert(s, n)) = Range(s) \cup {n}
<1> DEFINE K == {i \in 1..Len(s) : s[i].id >= n.id}
           L == {i \in 1..Len(s) : s[i].id < n.id}
           a == Kept(s, K)
           b == Kept(s, L)
           c == <<n>>
           ac == a \o c
<1>1. /\ IsSeq(s) /\ DOMAIN s = 1..Len(s)
      /\ \A i \in 1..Len(s) : s[i] \in Range(s)
      /\ \A x \in Range(s) : \E i \in 1..Len(s) : x = s[i]
  BY SeqIs DEF Falling
<1>2. Insert(s, n) = ac \o b
  <2>1. Those(s, LAMBDA m : m.id >= n.id) = a BY <1>1 DEF Those, Kept, KeptParts
  <2>2. Those(s, LAMBDA m : m.id < n.id) = b BY <1>1 DEF Those, Kept, KeptParts
  <2> HIDE DEF a, b
  <2> QED BY <2>1, <2>2 DEF Insert
<1>3. IsSeq(a) /\ Range(a) = {s[i] : i \in K \cap (1..Len(s))} /\ Falling(a)
  <2> HIDE DEF K
  <2> QED BY <1>1, KeptIs, KeptFalling
<1>4. IsSeq(b) /\ Range(b) = {s[i] : i \in L \cap (1..Len(s))} /\ Falling(b)
  <2> HIDE DEF L
  <2> QED BY <1>1, KeptIs, KeptFalling
<1>5. IsSeq(c) /\ Range(c) = {n} /\ Len(c) = 1 /\ c[1] = n BY OneIs
<1> HIDE DEF a, b, c
<1>6. Falling(c) BY <1>5 DEF Falling
<1>7. \A x \in Range(a) : x \in Range(s) /\ x.id \in Nat /\ x.id > n.id
  <2>1. \A i \in K : s[i].id >= n.id /\ s[i].id # n.id /\ s[i].id \in Nat /\ s[i] \in Range(s)
    BY <1>1 DEF Falling
  <2> QED BY <1>3, <2>1
<1>8. \A x \in Range(b) : x \in Range(s) /\ x.id \in Nat /\ x.id < n.id
  BY <1>1, <1>4 DEF Falling
<1> HIDE DEF ac
<1>9. Falling(ac) /\ Range(ac) = Range(a) \cup {n}
  <2>1. IsSeq(a) /\ IsSeq(c) BY <1>3, <1>5
  <2>2. Range(a \o c) = Range(a) \cup Range(c) BY <2>1, ConcatIs
  <2>3. Falling(a \o c) BY <1>3, <1>5, <1>6, <1>7, JoinFalling
  <2> QED BY <1>5, <2>2, <2>3, Zenon DEF ac
<1>10. Falling(ac \o b)
  <2>1. \A x \in Range(ac), y \in Range(b) : x.id > y.id
    BY <1>7, <1>8, <1>9
  <2> QED BY <1>4, <1>9, <2>1, JoinFalling
<1>11. Range(ac \o b) = Range(ac) \cup Range(b)
  <2>1. IsSeq(ac) /\ IsSeq(b) BY <1>4, <1>9 DEF Falling
  <2> QED BY <2>1, ConcatIs
<1>12. Range(s) = Range(a) \cup Range(b)
  <2>1. \A i \in 1..Len(s) : i \in K \/ i \in L BY DEF Falling
  <2>2. ASSUME NEW x \in Range(s) PROVE x \in Range(a) \/ x \in Range(b)
    <3>1. PICK i \in 1..Len(s) : x = s[i] BY <1>1
    <3> HIDE DEF K, L
    <3>2. i \in K \/ i \in L BY <2>1
    <3> QED BY <1>3, <1>4, <3>1, <3>2
  <2> QED BY <1>7, <1>8, <2>2
<1> QED BY <1>2, <1>9, <1>10, <1>11, <1>12

(* Inserting different names sorts them.                                     *)
LEMMA SortedIs ==
    ASSUME NEW u, Distinct(u)
    PROVE  Falling(InsertFold(<<>>, u))
<1> DEFINE n == Len(u)
           start == <<>>
<1>1. /\ n \in Nat /\ IsSeq(u) /\ \A i \in 1..n : u[i].id \in Nat
      /\ \A i, j \in 1..n : i # j => u[i].id # u[j].id
  BY SeqIs DEF Distinct
<1>2. PICK r : /\ r[0] = start
               /\ \A i \in 1..n : r[i] = Insert(r[i - 1], u[i])
               /\ InsertFold(start, u) = r[n]
  <2> HIDE DEF start
  <2> QED BY <1>1, InsertSteps
<1> DEFINE So(k) == Falling(r[k]) /\ Range(r[k]) = {u[i] : i \in 1..k}
           T == {k \in Nat : k <= n => So(k)}
<1>3. 0 \in T
  <2>1. Falling(<<>>) BY EmptyIs DEF Falling
  <2>2. Range(<<>>) = {} BY EmptyIs
  <2>3. {u[i] : i \in 1..0} = {} OBVIOUS
  <2>4. So(0) BY <1>2, <2>1, <2>2, <2>3
  <2> HIDE DEF So
  <2> QED BY <2>4
<1>4. ASSUME NEW k \in Nat, k \in T PROVE k + 1 \in T
  <2> SUFFICES ASSUME k + 1 <= n PROVE So(k + 1)
    <3> HIDE DEF So
    <3> QED OBVIOUS
  <2>0. k + 1 \in 1..n /\ (k + 1) - 1 = k /\ k <= n BY <1>1
  <2>1. So(k)
    <3> HIDE DEF So
    <3> QED BY <1>4, <2>0
  <2> DEFINE x == u[k + 1]
             rk == r[k]
             rn == r[k + 1]
  <2>2. rn = Insert(rk, x)
    <3> HIDE DEF start
    <3> QED BY <1>2, <2>0
  <2>3. x.id \in Nat BY <1>1, <2>0
  <2>4. \A y \in Range(rk) : y.id # x.id
    <3>1. \A i \in 1..k : i \in 1..n /\ i # k + 1 BY <2>0
    <3>2. \A i \in 1..k : u[i].id # u[k + 1].id BY <1>1, <2>0, <3>1
    <3>3. Range(rk) = {u[i] : i \in 1..k} BY <2>1
    <3> HIDE DEF rk
    <3> QED BY <3>2, <3>3
  <2>5. Falling(rk) BY <2>1
  <2>6. Falling(rn) /\ Range(rn) = Range(rk) \cup {x}
    <3> HIDE DEF rk, rn, x
    <3> QED BY <2>2, <2>3, <2>4, <2>5, InsertIs
  <2>7. {u[i] : i \in 1..k} \cup {u[k + 1]} = {u[i] : i \in 1..(k + 1)}
    <3>1. 1..(k + 1) = (1..k) \cup {k + 1} OBVIOUS
    <3> QED BY <3>1
  <2> QED BY <2>1, <2>6, <2>7
<1>5. \A k \in Nat : k \in T
  <2> HIDE DEF T
  <2> QED BY <1>3, <1>4, NatSet
<1>6. So(n)
  <2> HIDE DEF So
  <2> QED BY <1>1, <1>5
<1> QED BY <1>2, <1>6

(* The names chosen of a directory are sorted, the newest first.             *)
LEMMA NewestIs ==
    ASSUME NEW names, Distinct(names), NEW kind
    PROVE  Falling(Newest(names, kind))
<1> DEFINE K == {i \in 1..Len(names) : Usable(names[i], kind)}
           u == Kept(names, K)
           s == InsertFold(<<>>, u)
           m == Least(Len(s), AutoMax)
<1>1. DOMAIN names = 1..Len(names) BY SeqIs DEF Distinct
<1>2. Those(names, LAMBDA n : Usable(n, kind)) = u BY <1>1 DEF Those, Kept, KeptParts
<1>3. Newest(names, kind) = SubSeq(s, 1, m)
  <2> HIDE DEF u
  <2> QED BY <1>2 DEF Newest, InsertFold
<1>4. Falling(s)
  <2>1. Distinct(u)
    <3> HIDE DEF K
    <3> QED BY KeptDistinct
  <2> HIDE DEF u
  <2> QED BY <2>1, SortedIs
<1> HIDE DEF s
<1>5. IsSeq(s) /\ Len(s) \in Nat BY <1>4, SeqIs DEF Falling
<1>6. m \in Nat /\ m <= Len(s) BY <1>5, DiscoveryAssumption DEF Least
<1> HIDE DEF m
<1> DEFINE t == SubSeq(s, 1, m)
<1>7. IsSeq(t) /\ Len(t) = m /\ \A i \in 1..m : t[i] = s[i] BY <1>5, <1>6, SubSeqIs
<1> HIDE DEF t
<1>8. Falling(t) BY <1>4, <1>5, <1>6, <1>7 DEF Falling
<1> QED BY <1>3, <1>8 DEF t

-----------------------------------------------------------------------------
(* The scan of one directory.                                                *)

(* A directory is read up to one of its names.                               *)
LEMMA ReadUpToIs ==
    ASSUME NEW names, IsSeq(names), NEW kind
    PROVE  ReadUpTo(names, kind) \in 0..Len(names)
<1> DEFINE full == {k \in DOMAIN names :
                      Cardinality({j \in 1..k : Usable(names[j], kind)}) = Most(kind)}
           first == CHOOSE k \in full : \A j \in full : k <= j
<1>1. Len(names) \in Nat /\ DOMAIN names = 1..Len(names) BY SeqIs
<1>2. ReadUpTo(names, kind)
        = IF full = {} THEN Len(names) ELSE first
  BY DEF ReadUpTo
<1>3. full \subseteq Nat /\ full \subseteq 1..Len(names) BY <1>1
<1> HIDE DEF full
<1>4. full # {} => \E k \in full : \A j \in full : k <= j BY <1>3, LeastIn
<1>5. full # {} => first \in full BY <1>4
<1> HIDE DEF first
<1>6. CASE full = {} BY <1>1, <1>2, <1>6
<1>7. CASE full # {}
  <2>1. ReadUpTo(names, kind) = first BY <1>2, <1>7
  <2>2. first \in 1..Len(names) BY <1>3, <1>5, <1>7
  <2> QED BY <1>1, <2>1, <2>2
<1> QED BY <1>6, <1>7

(* The names of a directory are different.                                   *)
LEMMA ListedIs ==
    ASSUME input \in Inputs, NEW v \in AllVolumes, NEW base, NEW dir
    PROVE  Distinct(Listed(v, base, dir))
<1> DEFINE at == <<base, dir>>
           names == Vol(v).snaps[at]
<1>1. CASE at \in DOMAIN Vol(v).snaps
  <2>1. Listed(v, base, dir) = names BY <1>1 DEF Listed
  <2>2. /\ IsSeq(names)
        /\ \A i, j \in DOMAIN names :
             names[i].id \in Nat /\ (i # j => names[i].id # names[j].id)
    BY <1>1, InputsAssumption DEF Vol
  <2> HIDE DEF names
  <2>3. DOMAIN names = 1..Len(names) BY <2>2, SeqIs
  <2> QED BY <2>1, <2>2, <2>3 DEF Distinct
<1>2. CASE at \notin DOMAIN Vol(v).snaps
  <2>1. Listed(v, base, dir) = <<>> BY <1>2 DEF Listed
  <2> QED BY <2>1, EmptyIs DEF Distinct
<1> QED BY <1>1, <1>2

(* What the scan holds.                                                      *)
Scanning(a) == a = [made |-> a.made, left |-> a.left, late |-> a.late] /\ a.left \in Nat

(* Of two snapshots of one entry the first: on the same volume, and newer if *)
(* from the same directory.                                                  *)
Newer(s, t) ==
    s.volume = t.volume /\ (<<s.base, s.dir>> = <<t.base, t.dir>> => s.id > t.id)

(* Snapshots that are fit to be attached.                                    *)
Good(words, made) ==
    /\ IsSeq(made) /\ Len(made) <= AutoMax
    /\ \A i \in 1..Len(made) : MadeFor(words, made[i])
    /\ \A i, j \in 1..Len(made) : i < j => Newer(made[i], made[j])

(* The scan after the first k places of volume v: snapshots from those       *)
(* places only.                                                              *)
Done(words, v, places, k, a) ==
    /\ Scanning(a) /\ Good(words, a.made)
    /\ \A i \in 1..Len(a.made) :
         /\ a.made[i].volume = v
         /\ \E j \in 1..k : a.made[i].base = places[j].base /\ a.made[i].dir = places[j].dir

(* Places of one volume, no directory twice.                                 *)
Apart(v, places) ==
    /\ IsSeq(places) /\ \A j \in 1..Len(places) : places[j].volume = v
    /\ \A j, k \in 1..Len(places) :
         j # k => places[j].base # places[k].base \/ places[j].dir # places[k].dir

(* Adding snapshots that fit, each newer than none before it in its          *)
(* directory.                                                                *)
LEMMA JoinGood ==
    ASSUME NEW words, NEW made, Good(words, made), NEW new, IsSeq(new),
           Len(made) + Len(new) <= AutoMax,
           \A i \in 1..Len(new) : MadeFor(words, new[i]),
           \A i, j \in 1..Len(new) : i < j => Newer(new[i], new[j]),
           \A i \in 1..Len(made), j \in 1..Len(new) : Newer(made[i], new[j])
    PROVE  Good(words, made \o new)
<1> DEFINE u == made \o new
<1>1. IsSeq(made) BY DEF Good
<1>2. /\ IsSeq(u) /\ Len(u) = Len(made) + Len(new)
      /\ \A i \in 1..Len(made) : u[i] = made[i]
      /\ \A i \in 1..Len(new) : u[Len(made) + i] = new[i]
  BY <1>1, ConcatIs
<1>3. Len(made) \in Nat /\ Len(new) \in Nat BY <1>1, SeqIs
<1> HIDE DEF u
<1>4. ASSUME NEW i \in 1..Len(u)
      PROVE  \/ i \in 1..Len(made) /\ u[i] = made[i]
             \/ i - Len(made) \in 1..Len(new) /\ u[i] = new[i - Len(made)]
  <2>1. CASE i <= Len(made) BY <1>2, <1>3, <2>1
  <2>2. CASE i > Len(made)
    <3>1. i - Len(made) \in 1..Len(new) /\ Len(made) + (i - Len(made)) = i BY <1>2, <1>3, <2>2
    <3>2. u[Len(made) + (i - Len(made))] = new[i - Len(made)] BY <1>2, <3>1
    <3> QED BY <3>1, <3>2
  <2> QED BY <1>2, <1>3, <2>1, <2>2
<1>5. \A i \in 1..Len(u) : MadeFor(words, u[i]) BY <1>4 DEF Good
<1>6. ASSUME NEW i \in 1..Len(u), NEW j \in 1..Len(u), i < j PROVE Newer(u[i], u[j])
  <2>1. CASE i \in 1..Len(made) /\ j \in 1..Len(made)
    BY <1>2, <1>6, <2>1 DEF Good
  <2>2. CASE i \in 1..Len(made) /\ j - Len(made) \in 1..Len(new) /\ u[j] = new[j - Len(made)]
    <3>1. u[i] = made[i] BY <1>2, <2>2
    <3>2. Newer(made[i], new[j - Len(made)]) BY <2>2
    <3> QED BY <2>2, <3>1, <3>2
  <2>3. CASE i - Len(made) \in 1..Len(new) /\ u[i] = new[i - Len(made)]
    <3>1. j - Len(made) \in 1..Len(new) /\ u[j] = new[j - Len(made)] BY <1>3, <1>4, <1>6, <2>3
    <3>2. i - Len(made) < j - Len(made) BY <1>3, <1>6, <2>3
    <3>3. Newer(new[i - Len(made)], new[j - Len(made)]) BY <2>3, <3>1, <3>2
    <3> QED BY <2>3, <3>1, <3>3
  <2> QED BY <1>4, <2>1, <2>2, <2>3
<1>7. Good(words, u) BY <1>2, <1>5, <1>6 DEF Good
<1> QED BY <1>7 DEF u

(* The snapshot of a name.                                                   *)
Attached(words, p, n) ==
    [id |-> n.id, volume |-> p.volume, base |-> p.base, dir |-> p.dir,
     cmdline |-> Build(words, [base |-> p.base, dir |-> p.dir, id |-> n.id])]

(* The snapshots of the names chosen.                                        *)
AttachedAll(words, p, chosen) == [i \in DOMAIN chosen |-> Attached(words, p, chosen[i])]

(* They fit, each is at its place, the newest first.                         *)
AllAttached(words, p, m, new) ==
    /\ IsSeq(new) /\ Len(new) = m
    /\ \A i \in 1..m : /\ MadeFor(words, new[i]) /\ new[i].volume = p.volume
                       /\ new[i].base = p.base /\ new[i].dir = p.dir
    /\ \A i, j \in 1..m : i < j => Newer(new[i], new[j])

(* The first m of them do.                                                   *)
LEMMA AttachedFit ==
    ASSUME NEW words, CommandLine(words), NEW p, NEW chosen, Falling(chosen),
           NEW m \in Nat, m <= Len(chosen), NEW new,
           new = SubSeq(AttachedAll(words, p, chosen), 1, m)
    PROVE  AllAttached(words, p, m, new)
<1> DEFINE all == [i \in DOMAIN chosen |-> Attached(words, p, chosen[i])]
<1>1. Len(chosen) \in Nat /\ DOMAIN chosen = 1..Len(chosen) BY SeqIs DEF Falling
<1>2. all = [i \in 1..Len(chosen) |-> all[i]] BY <1>1
<1>3. \A i \in 1..Len(chosen) : all[i] = Attached(words, p, chosen[i]) BY <1>1
<1>4. new = SubSeq(all, 1, m) BY DEF AttachedAll
<1> HIDE DEF all
<1>5. IsSeq(all) /\ Len(all) = Len(chosen) BY <1>1, <1>2, FcnIs
<1>6. IsSeq(new) /\ Len(new) = m /\ \A i \in 1..m : new[i] = all[i] BY <1>4, <1>5, SubSeqIs
<1>7. \A i \in 1..m : new[i] = Attached(words, p, chosen[i]) BY <1>1, <1>3, <1>6
<1>8. ASSUME NEW n
      PROVE  LET s == Attached(words, p, n)
             IN  /\ MadeFor(words, s) /\ s.volume = p.volume
                 /\ s.base = p.base /\ s.dir = p.dir /\ s.id = n.id
  <2> DEFINE s == Attached(words, p, n)
  <2>1. /\ s.volume = p.volume /\ s.base = p.base /\ s.dir = p.dir /\ s.id = n.id
        /\ s.cmdline = Build(words, [base |-> p.base, dir |-> p.dir, id |-> n.id])
    BY DEF Attached
  <2> HIDE DEF s
  <2>2. s.cmdline = Build(words, [base |-> s.base, dir |-> s.dir, id |-> s.id]) BY <2>1
  <2>3. MadeFor(words, s) BY <2>2, BuildIs
  <2> QED BY <2>1, <2>3 DEF s
<1>9. ASSUME NEW i \in 1..m, NEW j \in 1..m, i < j PROVE Newer(new[i], new[j])
  <2>1. chosen[i].id > chosen[j].id BY <1>1, <1>9 DEF Falling
  <2> QED BY <1>7, <1>8, <2>1 DEF Newer
<1> QED BY <1>6, <1>7, <1>8, <1>9 DEF AllAttached

(* Scanning one more place, if there is time, adds snapshots of that place   *)
(* that fit.                                                                 *)
LEMMA ScanDirIs ==
    ASSUME input \in Inputs, NEW words, CommandLine(words), NEW v \in AllVolumes,
           NEW places, Apart(v, places), NEW k \in 0..(Len(places) - 1), NEW a,
           Done(words, v, places, k, a)
    PROVE  Done(words, v, places, k + 1, ScanDir(a, words, places[k + 1]))
<1> DEFINE p == places[k + 1]
           left == a.left - 1
           names == Listed(p.volume, p.base, p.dir)
           upTo == ReadUpTo(names, p.kind)
           read == Least(upTo, left)
           chosen == Newest(SubSeq(names, 1, read), p.kind)
           new == [i \in DOMAIN chosen |-> Attached(words, p, chosen[i])]
           m == Least(Len(new), AutoMax - Len(a.made))
           more == SubSeq(new, 1, m)
<1>0. Len(places) \in Nat /\ k + 1 \in 1..Len(places) BY SeqIs DEF Apart
<1>1. ScanDir(a, words, p)
        = IF a.late \/ a.left = 0 THEN [a EXCEPT !.late = TRUE]
          ELSE [made |-> a.made \o more, left |-> left - read, late |-> upTo > left]
  BY DEF ScanDir, Attached
<1>2. CASE a.late \/ a.left = 0
  <2>1. ScanDir(a, words, p) = [made |-> a.made, left |-> a.left, late |-> TRUE]
    <3>1. ScanDir(a, words, p) = [a EXCEPT !.late = TRUE] BY <1>1, <1>2
    <3> HIDE DEF p
    <3> QED BY <3>1 DEF Done, Scanning
  <2> DEFINE b == ScanDir(a, words, p)
  <2> HIDE DEF b, p
  <2>2. b.made = a.made /\ b.left = a.left /\ Scanning(b) BY <2>1 DEF b, Done, Scanning
  <2>3. \A j \in 1..k : j \in 1..(k + 1) OBVIOUS
  <2>4. Done(words, v, places, k + 1, b) BY <2>2, <2>3 DEF Done
  <2> QED BY <2>4 DEF b, p
<1>3. CASE ~(a.late \/ a.left = 0)
  <2>1. p.volume = v BY <1>0 DEF Apart
  <2>2. left \in Nat BY <1>3 DEF Done, Scanning
  <2>3. Distinct(names)
    <3> HIDE DEF p
    <3> QED BY <2>1, ListedIs
  <2> HIDE DEF names
  <2>4. IsSeq(names) /\ Len(names) \in Nat BY <2>3, SeqIs DEF Distinct
  <2>5. upTo \in 0..Len(names)
    <3> HIDE DEF p
    <3> QED BY <2>4, ReadUpToIs
  <2>6. read \in Nat /\ read <= Len(names) /\ read <= left
    <3> HIDE DEF upTo, left
    <3> QED BY <2>2, <2>4, <2>5 DEF Least
  <2> HIDE DEF read, upTo
  <2>7. Falling(chosen)
    <3> DEFINE some == SubSeq(names, 1, read)
    <3>1. IsSeq(some) /\ Len(some) = read /\ \A i \in 1..read : some[i] = names[i]
      BY <2>4, <2>6, SubSeqIs
    <3> HIDE DEF some
    <3>2. \A i \in 1..read : i \in 1..Len(names) BY <2>4, <2>6
    <3>3. \A i \in 1..Len(names) : names[i].id \in Nat BY <2>3 DEF Distinct
    <3>4. \A i, j \in 1..Len(names) : i # j => names[i].id # names[j].id BY <2>3 DEF Distinct
    <3>5. \A i \in 1..Len(some) : some[i].id \in Nat BY <3>1, <3>2, <3>3
    <3>6. \A i, j \in 1..Len(some) : i # j => some[i].id # some[j].id BY <3>1, <3>2, <3>4
    <3>7. Distinct(some) BY <3>1, <3>5, <3>6 DEF Distinct
    <3>8. \A kind : Falling(Newest(some, kind)) BY <3>7, NewestIs
    <3> QED BY <3>8 DEF some
  <2> HIDE DEF chosen
  <2>8. Len(chosen) \in Nat /\ Len(new) = Len(chosen)
    <3>1. Len(chosen) \in Nat /\ DOMAIN chosen = 1..Len(chosen) BY <2>7, SeqIs DEF Falling
    <3>2. new = [i \in 1..Len(chosen) |-> new[i]] BY <3>1
    <3> HIDE DEF new
    <3> QED BY <3>1, <3>2, FcnIs
  <2>9. IsSeq(a.made) /\ Len(a.made) \in Nat /\ Len(a.made) <= AutoMax /\ AutoMax \in Nat
    BY SeqIs, DiscoveryAssumption DEF Done, Good
  <2>10. m \in Nat /\ m <= Len(chosen) /\ Len(a.made) + m <= AutoMax
    <3> DEFINE n == Len(new)
               d == AutoMax - Len(a.made)
    <3>1. n \in Nat /\ n = Len(chosen) BY <2>8
    <3>2. d \in Nat /\ Len(a.made) + d = AutoMax BY <2>9
    <3>3. m = Least(n, d) OBVIOUS
    <3> HIDE DEF n, d, new, m
    <3>4. m \in Nat /\ m <= n /\ m <= d BY <3>1, <3>2, <3>3 DEF Least
    <3> QED BY <2>9, <3>1, <3>2, <3>4
  <2> HIDE DEF m
  <2>11. /\ IsSeq(more) /\ Len(more) = m
         /\ \A i \in 1..m : /\ MadeFor(words, more[i]) /\ more[i].volume = p.volume
                            /\ more[i].base = p.base /\ more[i].dir = p.dir
         /\ \A i, j \in 1..m : i < j => Newer(more[i], more[j])
    <3>1. more = SubSeq(AttachedAll(words, p, chosen), 1, m) BY DEF AttachedAll
    <3> HIDE DEF more, p, new
    <3>2. m \in Nat /\ m <= Len(chosen) BY <2>10
    <3>3. CommandLine(words) /\ Falling(chosen) BY <2>7
    <3>4. AllAttached(words, p, m, more) BY <3>1, <3>2, <3>3, AttachedFit
    <3> QED BY <3>4 DEF AllAttached
  <2> HIDE DEF more
  <2>12. ASSUME NEW i \in 1..Len(a.made), NEW j \in 1..Len(more) PROVE Newer(a.made[i], more[j])
    <3>1. PICK l \in 1..k : a.made[i].base = places[l].base /\ a.made[i].dir = places[l].dir
      BY DEF Done
    <3>2. l \in 1..Len(places) /\ l # k + 1 BY <1>0
    <3>3. places[l].base # p.base \/ places[l].dir # p.dir BY <1>0, <3>2 DEF Apart
    <3>4. a.made[i].volume = v BY DEF Done
    <3>5. more[j].volume = v /\ more[j].base = p.base /\ more[j].dir = p.dir
      BY <2>1, <2>11
    <3> HIDE DEF p
    <3> QED BY <3>1, <3>3, <3>4, <3>5 DEF Newer
  <2> DEFINE made == a.made \o more
             b == [made |-> made, left |-> left - read, late |-> upTo > left]
  <2>13. Good(words, made)
    <3>1. Good(words, a.made) BY DEF Done
    <3> DEFINE old == a.made
    <3> HIDE DEF old
    <3>2. Good(words, old \o more) BY <2>10, <2>11, <2>12, <3>1, JoinGood DEF old
    <3> QED BY <3>2 DEF old
  <2>14. /\ Len(made) = Len(a.made) + Len(more)
         /\ \A i \in 1..Len(a.made) : made[i] = a.made[i]
         /\ \A i \in 1..Len(more) : made[Len(a.made) + i] = more[i]
    <3> DEFINE old == a.made
    <3>1. IsSeq(old) BY <2>9
    <3> HIDE DEF old
    <3>2. /\ Len(old \o more) = Len(old) + Len(more)
          /\ \A i \in 1..Len(old) : (old \o more)[i] = old[i]
          /\ \A i \in 1..Len(more) : (old \o more)[Len(old) + i] = more[i]
      BY <2>11, <3>1, ConcatIs
    <3> QED BY <3>2 DEF old
  <2> HIDE DEF made
  <2>15. ASSUME NEW i \in 1..Len(made)
         PROVE  /\ made[i].volume = v
                /\ \E j \in 1..(k + 1) : made[i].base = places[j].base /\ made[i].dir = places[j].dir
    <3>1. CASE i <= Len(a.made)
      <4>1. i \in 1..Len(a.made) /\ made[i] = a.made[i] BY <2>9, <2>14, <3>1
      <4>2. PICK j \in 1..k : a.made[i].base = places[j].base /\ a.made[i].dir = places[j].dir
        BY <4>1 DEF Done
      <4>3. j \in 1..(k + 1) OBVIOUS
      <4>4. a.made[i].volume = v BY <4>1 DEF Done
      <4> QED BY <4>1, <4>2, <4>3, <4>4
    <3>2. CASE i > Len(a.made)
      <4>1. i - Len(a.made) \in 1..Len(more) /\ Len(a.made) + (i - Len(a.made)) = i
        BY <2>9, <2>10, <2>11, <2>14, <3>2
      <4>2. made[i] = more[i - Len(a.made)] BY <2>14, <4>1
      <4>3. made[i].volume = v /\ made[i].base = p.base /\ made[i].dir = p.dir
        BY <2>1, <2>11, <4>1, <4>2
      <4>4. k + 1 \in 1..(k + 1) OBVIOUS
      <4> QED BY <4>3, <4>4
    <3> QED BY <2>9, <2>10, <2>11, <2>14, <3>1, <3>2
  <2>16. left - read \in Nat
    <3> HIDE DEF left
    <3> QED BY <2>2, <2>6
  <2>17. Done(words, v, places, k + 1, b)
    <3>1. Scanning(b) /\ b.made = made BY <2>16 DEF Scanning
    <3> HIDE DEF b
    <3> QED BY <2>13, <2>15, <3>1 DEF Done
  <2>18. ScanDir(a, words, p) = b BY <1>1, <1>3 DEF made
  <2> QED BY <2>17, <2>18
<1> QED BY <1>2, <1>3

-----------------------------------------------------------------------------
(* The scan of a volume, and of all.                                         *)

(* The scan, with snapshots that fit.                                        *)
Made(words, a) == Scanning(a) /\ Good(words, a.made)

(* An attempt keeps them fit: it scans directories, none twice, only if no   *)
(* attempt before made any.                                                  *)
LEMMA AttemptIs ==
    ASSUME input \in Inputs, NEW words, CommandLine(words), NEW v \in AllVolumes,
           NEW places, Apart(v, places), NEW a, Made(words, a)
    PROVE  Made(words, Attempt(a, words, places))
<1>1. CASE a.made # <<>>
  BY <1>1 DEF Attempt
<1>2. CASE a.made = <<>>
  <2> DEFINE n == Len(places)
  <2>1. n \in Nat BY SeqIs DEF Apart
  <2>2. PICK r : /\ r[0] = a
                 /\ \A i \in 1..n : r[i] = ScanDir(r[i - 1], words, places[i])
                 /\ ScanFold(a, places, words) = r[n]
    BY <2>1, ScanSteps, SMTT(40)
  <2>3. Attempt(a, words, places) = r[n]
    BY <1>2, <2>2 DEF Attempt, ScanFold
  <2> DEFINE T == {k \in Nat : k <= n => Done(words, v, places, k, r[k])}
  <2>4. 0 \in T
    <3>1. Len(a.made) = 0 BY <1>2, EmptyIs
    <3>2. Done(words, v, places, 0, a) BY <3>1 DEF Made, Done
    <3> QED BY <2>2, <3>2
  <2>5. ASSUME NEW k \in Nat, k \in T PROVE k + 1 \in T
    <3> SUFFICES ASSUME k + 1 <= n PROVE Done(words, v, places, k + 1, r[k + 1])
      OBVIOUS
    <3>1. k \in 0..(Len(places) - 1) /\ k + 1 \in 1..n /\ (k + 1) - 1 = k /\ k <= n BY <2>1
    <3>2. Done(words, v, places, k, r[k]) BY <2>5, <3>1
    <3>3. r[k + 1] = ScanDir(r[k], words, places[k + 1]) BY <2>2, <3>1
    <3> QED BY <3>1, <3>2, <3>3, ScanDirIs
  <2>6. \A k \in Nat : k \in T
    <3> HIDE DEF T
    <3> QED BY <2>4, <2>5, NatSet
  <2>7. Done(words, v, places, n, r[n]) BY <2>1, <2>6
  <2> QED BY <2>3, <2>7 DEF Done, Made
<1> QED BY <1>1, <1>2

(* A sequence without repetitions.                                           *)
Differ(s) == IsSeq(s) /\ \A i, j \in 1..Len(s) : i # j => s[i] # s[j]

(* Two different elements.                                                   *)
LEMMA TwoDiffer == ASSUME NEW x, NEW y, x # y PROVE Differ(<<x, y>>)
<1> DEFINE s == <<x, y>>
<1>1. s = [i \in 1..2 |-> s[i]] /\ s[1] = x /\ s[2] = y OBVIOUS
<1> HIDE DEF s
<1>2. IsSeq(s) /\ Len(s) = 2 BY <1>1, FcnIs
<1>3. ASSUME NEW i \in 1..Len(s), NEW j \in 1..Len(s), i # j PROVE s[i] # s[j]
  <2>1. (i = 1 /\ j = 2) \/ (i = 2 /\ j = 1) BY <1>2, <1>3
  <2> QED BY <1>1, <2>1
<1>4. Differ(s) BY <1>2, <1>3 DEF Differ
<1> QED BY <1>4 DEF s

(* Three different elements.                                                 *)
LEMMA ThreeDiffer ==
    ASSUME NEW x, NEW y, NEW z, x # y, x # z, y # z PROVE Differ(<<x, y, z>>)
<1> DEFINE s == <<x, y, z>>
<1>1. s = [i \in 1..3 |-> s[i]] /\ s[1] = x /\ s[2] = y /\ s[3] = z OBVIOUS
<1> HIDE DEF s
<1>2. IsSeq(s) /\ Len(s) = 3 BY <1>1, FcnIs
<1>3. ASSUME NEW i \in 1..Len(s), NEW j \in 1..Len(s), i # j PROVE s[i] # s[j]
  <2>1. \/ i = 1 /\ j \in {2, 3}
        \/ i = 2 /\ j \in {1, 3}
        \/ i = 3 /\ j \in {1, 2}
    BY <1>2, <1>3
  <2> QED BY <1>1, <2>1
<1>4. Differ(s) BY <1>2, <1>3 DEF Differ
<1> QED BY <1>4 DEF s

(* No base is tried twice.                                                   *)
LEMMA BasesDiffer == ASSUME NEW words PROVE Differ(Bases(words))
<1> DEFINE sv == SubvolOf(words)
           a == <<"", "@">>
           b == <<"@", "">>
           c == <<sv, "", "@">>
<1>1. Bases(words) = IF sv \in {"", "@"} THEN (IF sv = "" THEN a ELSE b) ELSE c
  BY DEF Bases
<1>2. Differ(a) /\ Differ(b)
  <2>1. "" # "@" OBVIOUS
  <2> QED BY <2>1, TwoDiffer
<1>3. sv \notin {"", "@"} => Differ(c)
  <2> HIDE DEF sv
  <2>1. sv \notin {"", "@"} => sv # "" /\ sv # "@" /\ "" # "@" OBVIOUS
  <2> QED BY <2>1, ThreeDiffer
<1> HIDE DEF a, b, c, sv
<1> QED BY <1>1, <1>2, <1>3

(* The fields of a place.                                                    *)
LEMMA PlaceIs ==
    ASSUME NEW v, NEW base, NEW dir, NEW kind
    PROVE  LET p == Place(v, base, dir, kind)
           IN  p.volume = v /\ p.base = base /\ p.dir = dir
  BY DEF Place

(* The attempts at a volume: within one no directory is tried twice.         *)
LEMMA AttemptsApart ==
    ASSUME NEW v, NEW bases, Differ(bases)
    PROVE  /\ IsSeq(Attempts(v, bases))
           /\ \A places \in Range(Attempts(v, bases)) : Apart(v, places)
<1> DEFINE x == [b \in DOMAIN bases |-> Place(v, bases[b], ".snapshots", "snapper")]
           t == Place(v, "", "timeshift", "timeshift")
           y == <<t>>
           z(base) == << Place(v, base, ".snapshots", "plain"),
                         Place(v, base, "snapshots", "plain"),
                         Place(v, base, "@snapshots", "plain") >>
           zs == [b \in DOMAIN bases |-> z(bases[b])]
           xy == <<x, y>>
<1>1. Len(bases) \in Nat /\ DOMAIN bases = 1..Len(bases) BY SeqIs DEF Differ
<1>2. Apart(v, x)
  <2>1. x = [b \in 1..Len(bases) |-> x[b]] BY <1>1
  <2>2. \A b \in 1..Len(bases) :
          x[b].volume = v /\ x[b].base = bases[b] /\ x[b].dir = ".snapshots"
    BY <1>1, PlaceIs
  <2> HIDE DEF x
  <2>3. IsSeq(x) /\ Len(x) = Len(bases) BY <1>1, <2>1, FcnIs
  <2> QED BY <2>2, <2>3 DEF Differ, Apart
<1>3. Apart(v, y)
  <2>1. t.volume = v BY DEF Place
  <2> HIDE DEF t
  <2>2. IsSeq(y) /\ Len(y) = 1 /\ y[1] = t BY OneIs
  <2> HIDE DEF y
  <2> QED BY <2>1, <2>2 DEF Apart
<1>4. ASSUME NEW base PROVE Apart(v, z(base))
  <2> DEFINE w == z(base)
  <2>1. w = [i \in 1..3 |-> w[i]] OBVIOUS
  <2>2. /\ \A i \in 1..3 : w[i].volume = v
        /\ w[1].dir = ".snapshots" /\ w[2].dir = "snapshots" /\ w[3].dir = "@snapshots"
    <3>1. /\ w[1] = Place(v, base, ".snapshots", "plain")
          /\ w[2] = Place(v, base, "snapshots", "plain")
          /\ w[3] = Place(v, base, "@snapshots", "plain")
      OBVIOUS
    <3> HIDE DEF w
    <3>2. w[1].volume = v /\ w[2].volume = v /\ w[3].volume = v BY <3>1, PlaceIs
    <3>3. w[1].dir = ".snapshots" /\ w[2].dir = "snapshots" /\ w[3].dir = "@snapshots"
      BY <3>1, PlaceIs
    <3> QED BY <3>2, <3>3
  <2> HIDE DEF w
  <2>3. IsSeq(w) /\ Len(w) = 3 BY <2>1, FcnIs
  <2>4. Apart(v, w) BY <2>2, <2>3 DEF Apart
  <2> QED BY <2>4 DEF w
<1>5. /\ IsSeq(zs)
      /\ \A places \in Range(zs) : Apart(v, places)
  <2>1. zs = [b \in 1..Len(bases) |-> zs[b]] BY <1>1
  <2>2. \A b \in 1..Len(bases) : Apart(v, zs[b])
    <3>1. \A b \in 1..Len(bases) : zs[b] = z(bases[b]) BY <1>1
    <3> HIDE DEF z, zs
    <3> QED BY <1>4, <3>1
  <2> HIDE DEF zs
  <2>3. IsSeq(zs) /\ Len(zs) = Len(bases) BY <1>1, <2>1, FcnIs
  <2>4. \A places \in Range(zs) : \E b \in 1..Len(zs) : places = zs[b] BY <2>3, SeqIs
  <2> QED BY <2>2, <2>3, <2>4
<1> HIDE DEF x, y, zs
<1>6. IsSeq(xy) /\ Range(xy) = {x, y}
  <2>1. xy = [i \in 1..2 |-> xy[i]] /\ xy[1] = x /\ xy[2] = y OBVIOUS
  <2>2. DOMAIN xy = 1..2 OBVIOUS
  <2> HIDE DEF xy
  <2>3. IsSeq(xy) BY <2>1, FcnIs
  <2>4. Range(xy) = {x, y} BY <2>1, <2>2 DEF Range
  <2> QED BY <2>3, <2>4
<1>7. Attempts(v, bases) = xy \o zs
  BY DEF Attempts, x, y, zs
<1> HIDE DEF xy
<1>8. IsSeq(xy \o zs) /\ Range(xy \o zs) = Range(xy) \cup Range(zs) BY <1>5, <1>6, ConcatIs
<1> QED BY <1>2, <1>3, <1>5, <1>6, <1>7, <1>8

(* The options of an entry are a command line.                               *)
LEMMA EffectiveIs ==
    ASSUME Typed(settings), NEW e, Maybe(e.cmdline)
    PROVE  CommandLine(Effective(e))
<1>1. CommandLine(<<>>) BY EmptyIs DEF CommandLine
<1>2. \A v \in DOMAIN Cmdline : CommandLine(Cmdline[v]) BY TextAssumption
<1> QED BY <1>1, <1>2 DEF Effective, Default, Typed, Maybe

(* Snapshots_autodetect makes snapshots that fit, whatever the volumes hold  *)
(* and whenever its time is up.                                              *)
LEMMA AutodetectedIs ==
    ASSUME input \in Inputs, Typed(settings), NEW e, Maybe(e.cmdline), NEW looks \in Nat
    PROVE  Good(Effective(e), Autodetected(e, looks).made)
<1> DEFINE words == Effective(e)
           K == {i \in 1..Len(VolumeOrder) :
                   e.uuid # Nothing /\ Uuid(VolumeOrder[i]) = e.uuid}
           first == Kept(VolumeOrder, K)
           all == first \o VolumeOrder
           L == {i \in 1..Len(all) : Vol(all[i]).opens}
           vols == Kept(all, L)
           bases == Bases(words)
           ss == [i \in DOMAIN vols |-> Attempts(vols[i], bases)]
           tries == FlattenSeq(ss)
           start == [made |-> <<>>, left |-> looks, late |-> FALSE]
<1>1. CommandLine(words) BY EffectiveIs
<1>2. Differ(bases) BY BasesDiffer
<1>3. IsSeq(VolumeOrder) /\ AllVolumes = Range(VolumeOrder) /\ DOMAIN VolumeOrder = 1..Len(VolumeOrder)
      /\ \A i \in 1..Len(VolumeOrder) : VolumeOrder[i] \in AllVolumes
  BY OrderIs, SeqIs
<1>4. Those(VolumeOrder, LAMBDA v : e.uuid # Nothing /\ Uuid(v) = e.uuid) = first
  BY <1>3 DEF Those, Kept, KeptParts
<1>5. IsSeq(first) /\ Range(first) \subseteq AllVolumes
  <2> HIDE DEF K
  <2>1. IsSeq(Kept(VolumeOrder, K))
        /\ Range(Kept(VolumeOrder, K)) = {VolumeOrder[i] : i \in K \cap (1..Len(VolumeOrder))}
    BY <1>3, KeptIs
  <2> QED BY <1>3, <2>1
<1> HIDE DEF first
<1>6. IsSeq(all) /\ Range(all) \subseteq AllVolumes
  BY <1>3, <1>5, ConcatIs
<1> HIDE DEF all
<1>7. DOMAIN all = 1..Len(all) /\ \A i \in 1..Len(all) : all[i] \in AllVolumes
  BY <1>6, SeqIs
<1>8. Those(all, LAMBDA v : Vol(v).opens) = vols
  BY <1>7 DEF Those, Kept, KeptParts
<1>9. IsSeq(vols) /\ Range(vols) \subseteq AllVolumes
  <2> HIDE DEF L
  <2>1. IsSeq(Kept(all, L)) /\ Range(Kept(all, L)) = {all[i] : i \in L \cap (1..Len(all))}
    BY <1>6, KeptIs
  <2> QED BY <1>7, <2>1
<1>10. Autodetected(e, looks) = AttemptFold(start, tries, words)
  BY <1>4, <1>8 DEF Autodetected, AttemptFold, Each, all
<1> HIDE DEF vols, bases, words, start
<1>11. Len(vols) \in Nat /\ DOMAIN vols = 1..Len(vols)
       /\ \A i \in 1..Len(vols) : vols[i] \in AllVolumes
  BY <1>9, SeqIs
<1>12. /\ IsSeq(ss) /\ Len(ss) = Len(vols)
       /\ \A i \in 1..Len(ss) : ss[i] = Attempts(vols[i], bases)
  <2>1. ss = [i \in 1..Len(vols) |-> ss[i]] BY <1>11
  <2>2. \A i \in 1..Len(vols) : ss[i] = Attempts(vols[i], bases) BY <1>11
  <2> HIDE DEF ss
  <2>3. IsSeq(ss) /\ Len(ss) = Len(vols) BY <1>11, <2>1, FcnIs
  <2> QED BY <2>2, <2>3
<1> HIDE DEF ss
<1>13. Parts(ss) BY <1>2, <1>12, AttemptsApart DEF Parts
<1>14. IsSeq(tries) /\ Range(tries) = UNION {Range(ss[i]) : i \in 1..Len(ss)} BY <1>13, FlatIs
<1> HIDE DEF tries
<1>15. ASSUME NEW i \in 1..Len(tries)
       PROVE  \E v \in AllVolumes : Apart(v, tries[i])
  <2>1. tries[i] \in Range(tries) BY <1>14, SeqIs
  <2>2. PICK j \in 1..Len(ss) : tries[i] \in Range(ss[j]) BY <1>14, <2>1
  <2>3. vols[j] \in AllVolumes BY <1>11, <1>12
  <2>4. Apart(vols[j], tries[i]) BY <1>2, <1>12, <2>2, AttemptsApart
  <2> QED BY <2>3, <2>4
<1> DEFINE n == Len(tries)
<1>16. n \in Nat BY <1>14, SeqIs
<1>17. PICK r : /\ r[0] = start
                /\ \A i \in 1..n : r[i] = Attempt(r[i - 1], words, tries[i])
                /\ AttemptFold(start, tries, words) = r[n]
  BY <1>16, AttemptSteps
<1> DEFINE T == {k \in Nat : k <= n => Made(words, r[k])}
<1>18. 0 \in T
  <2>1. Made(words, start)
    <3>1. start.made = <<>> /\ start.left = looks /\ Scanning(start) BY DEF start, Scanning
    <3>2. AutoMax \in Nat BY DiscoveryAssumption
    <3>3. Good(words, <<>>) BY <3>2, EmptyIs DEF Good
    <3> QED BY <3>1, <3>3 DEF Made
  <2> QED BY <1>17, <2>1
<1>19. ASSUME NEW k \in Nat, k \in T PROVE k + 1 \in T
  <2> SUFFICES ASSUME k + 1 <= n PROVE Made(words, r[k + 1])
    OBVIOUS
  <2>1. k + 1 \in 1..n /\ (k + 1) - 1 = k /\ k <= n BY <1>16
  <2>2. Made(words, r[k]) BY <1>19, <2>1
  <2>3. r[k + 1] = Attempt(r[k], words, tries[k + 1]) BY <1>17, <2>1
  <2>4. PICK v \in AllVolumes : Apart(v, tries[k + 1]) BY <1>15, <2>1
  <2> QED BY <1>1, <2>2, <2>3, <2>4, AttemptIs
<1>20. \A k \in Nat : k \in T
  <2> HIDE DEF T
  <2> QED BY <1>18, <1>19, NatSet
<1>21. Made(words, r[n]) BY <1>16, <1>20
<1> QED BY <1>10, <1>17, <1>21 DEF Made, words

-----------------------------------------------------------------------------
(* The third invariant of Discovery, of values instead of variables.         *)

(* Effective, of the settings as a value.                                    *)
Effect(s, e) ==
    IF e.cmdline # Nothing THEN e.cmdline
    ELSE IF Get(s, "cmdline") # Nothing THEN Cmdline[Get(s, "cmdline")] ELSE <<>>

(* SnapshotsFit without a manifest, of values.                               *)
FitsDetected(s, es) ==
    \A e \in Range(es) :
      /\ \A x \in Range(e.snapshots) : MadeFor(Effect(s, e), x)
      /\ Len(e.snapshots) <= AutoMax
      /\ \A i, j \in DOMAIN e.snapshots : i < j => Newer(e.snapshots[i], e.snapshots[j])

(* SnapshotsFit, of values.                                                  *)
Fit(in, s, es) == IF in.manifest = Nothing THEN FitsDetected(s, es) ELSE FitsManifest(es)

(* It is the invariant, of this state.                                       *)
LEMMA FitNow == SnapshotsFit <=> (stage = "recovery" => Fit(input, settings, entryList))
  BY DEF SnapshotsFit, Fit, FitsDetected, FitsManifest, Newer, Effect, MadeFor, BootsSnapshot,
         OtherArgs, OtherWords, Subvols, NotSubvol, Rest, Mounted, Effective, Default, Linux,
         LinuxOf, NamedIn

(* It is the invariant, of the next state.                                   *)
LEMMA FitNext == SnapshotsFit' <=> (stage' = "recovery" => Fit(input', settings', entryList'))
  BY DEF SnapshotsFit, Fit, FitsDetected, FitsManifest, Newer, Effect, MadeFor, BootsSnapshot,
         OtherArgs, OtherWords, Subvols, NotSubvol, Rest, Mounted, Effective, Default, Linux,
         LinuxOf, NamedIn, Each, Those, Flags

(* Entries without snapshots fit.                                            *)
LEMMA EmptyFits ==
    ASSUME NEW s, NEW es, Wholes(s, es), NEW in
    PROVE  Fit(in, s, es)
<1>1. \A e \in Range(es) : e.snapshots = <<>> BY DEF Wholes, Whole
<1>2. Range(<<>>) = {} /\ Len(<<>>) = 0 BY EmptyIs
<1>3. DOMAIN <<>> = {} BY EmptyIs, SeqIs
<1>4. AutoMax \in Nat BY DiscoveryAssumption
<1>5. FitsDetected(s, es) BY <1>1, <1>2, <1>3, <1>4 DEF FitsDetected
<1>6. FitsManifest(es) BY <1>1, <1>2 DEF FitsManifest
<1> QED BY <1>5, <1>6 DEF Fit

(* So do entries of which one has snapshots that were detected.              *)
LEMMA DetectedFits ==
    ASSUME input \in Inputs, Typed(settings), Wholes(settings, entryList),
           NEW i \in DOMAIN entryList, NEW looks \in Nat, NEW es,
           es = [entryList EXCEPT ![i].snapshots = Autodetected(entryList[i], looks).made]
    PROVE  FitsDetected(settings, es)
<1> DEFINE made == Autodetected(entryList[i], looks).made
           f == [entryList[i] EXCEPT !.snapshots = made]
<1>1. IsSeq(entryList) /\ DOMAIN entryList = 1..Len(entryList) BY SeqIs DEF Wholes
<1>2. /\ entryList[i] \in Range(entryList) /\ Whole(settings, entryList[i])
      /\ IsEntry(entryList[i]) /\ Maybe(entryList[i].cmdline)
  BY <1>1, SeqIs DEF Wholes, Whole
<1>3. Effective(entryList[i]) = Effect(settings, entryList[i]) BY DEF Effective, Effect, Default
<1>4. Good(Effect(settings, entryList[i]), made)
  <2>1. Good(Effective(entryList[i]), made) BY <1>2, AutodetectedIs
  <2> HIDE DEF made
  <2> QED BY <1>3, <2>1
<1>5. es = [entryList EXCEPT ![i] = f] OBVIOUS
<1> HIDE DEF made
<1>6. f.snapshots = made /\ f.cmdline = entryList[i].cmdline BY <1>2 DEF IsEntry
<1> HIDE DEF f
<1>7. Effect(settings, f) = Effect(settings, entryList[i]) BY <1>6 DEF Effect
<1>8. /\ \A x \in Range(made) : MadeFor(Effect(settings, f), x)
      /\ Len(made) <= AutoMax
      /\ \A j, k \in DOMAIN made : j < k => Newer(made[j], made[k])
  <2>1. IsSeq(made) BY <1>4 DEF Good
  <2>2. DOMAIN made = 1..Len(made) /\ \A x \in Range(made) : \E j \in 1..Len(made) : x = made[j]
    BY <2>1, SeqIs
  <2> QED BY <1>4, <1>7, <2>2 DEF Good
<1>9. /\ Range(<<>>) = {} /\ Len(<<>>) = 0 /\ DOMAIN <<>> = {} /\ AutoMax \in Nat
  BY EmptyIs, SeqIs, DiscoveryAssumption
<1>10. ASSUME NEW e \in Range(es)
       PROVE  /\ \A x \in Range(e.snapshots) : MadeFor(Effect(settings, e), x)
              /\ Len(e.snapshots) <= AutoMax
              /\ \A j, k \in DOMAIN e.snapshots : j < k => Newer(e.snapshots[j], e.snapshots[k])
  <2>1. PICK k \in DOMAIN entryList : e = es[k] BY <1>5 DEF Range
  <2>2. CASE k = i
    <3>1. e = f BY <1>5, <2>1, <2>2
    <3> QED BY <1>6, <1>8, <3>1
  <2>3. CASE k # i
    <3>1. e = entryList[k] BY <1>5, <2>1, <2>3
    <3>2. e.snapshots = <<>> BY <1>1, <2>1, <3>1, SeqIs DEF Wholes, Whole
    <3> QED BY <1>9, <3>2
  <2> QED BY <2>2, <2>3
<1> QED BY <1>10 DEF FitsDetected

-----------------------------------------------------------------------------
(* Attached snapshots fit their entries.                                     *)

(* Given whole entries, every step keeps SnapshotsFit.                       *)
LEMMA SnapshotsAttachedFit ==
    /\ DiscoveryInit => SnapshotsFit
    /\ EntriesWhole /\ SnapshotsFit /\ [DiscoveryNext]_discoveryVars => SnapshotsFit'
<1>1. DiscoveryInit => SnapshotsFit
  BY DEF DiscoveryInit, SnapshotsFit
<1>2. ASSUME EntriesWhole, SnapshotsFit, [DiscoveryNext]_discoveryVars PROVE SnapshotsFit'
  <2>1. CASE AttachManifest
    <3>1. /\ stage = "snapshots" /\ input' = input /\ settings' = settings
          /\ input.manifest # Nothing
          /\ entryList' = [i \in DOMAIN entryList |-> [entryList[i] EXCEPT !.snapshots = OwnSnaps(i)]]
      BY <2>1 DEF AttachManifest
    <3>2. Wholes(settings, entryList) BY <1>2, <3>1 DEF EntriesWhole
    <3>3. IsSeq(input.manifest)
      BY <1>2, <3>1, InputsAssumption DEF EntriesWhole, Text, Known
    <3>4. FitsManifest(entryList') BY <3>1, <3>2, <3>3, ManifestFits
    <3> QED BY <3>1, <3>4, FitNext DEF Fit
  <2>2. CASE AttachDetected
    <3>1. /\ stage = "snapshots" /\ input' = input /\ settings' = settings
          /\ input.manifest = Nothing
          /\ \/ entryList' = entryList
             \/ \E i \in DOMAIN entryList, looks \in Budgets :
                  entryList' = [entryList EXCEPT ![i].snapshots = Autodetected(entryList[i], looks).made]
      BY <2>2 DEF AttachDetected
    <3>2. Wholes(settings, entryList) /\ Typed(settings) /\ input \in Inputs
      BY <1>2, <3>1 DEF EntriesWhole
    <3>3. CASE entryList' = entryList
      BY <3>1, <3>2, <3>3, EmptyFits, FitNext
    <3>4. CASE entryList' # entryList
      <4>1. PICK i \in DOMAIN entryList, looks \in Budgets :
              entryList' = [entryList EXCEPT ![i].snapshots = Autodetected(entryList[i], looks).made]
        BY <3>1, <3>4
      <4>2. looks \in Nat BY DiscoveryAssumption
      <4>3. FitsDetected(settings, entryList') BY <3>2, <4>1, <4>2, DetectedFits
      <4> QED BY <3>1, <4>3, FitNext DEF Fit
    <3> QED BY <3>3, <3>4
  <2>3. CASE NoSnapshots
    <3>1. stage = "snapshots" /\ input' = input /\ settings' = settings /\ entryList' = entryList
      BY <2>3 DEF NoSnapshots
    <3>2. Wholes(settings, entryList) BY <1>2, <3>1 DEF EntriesWhole
    <3> QED BY <3>1, <3>2, EmptyFits, FitNext
  <2>4. CASE UNCHANGED discoveryVars
    <3>1. /\ input' = input /\ settings' = settings /\ entryList' = entryList /\ stage' = stage
      BY <2>4 DEF discoveryVars
    <3> QED BY <1>2, <3>1, FitNow, FitNext
  <2>5. CASE \/ EarlyPass \/ Parse \/ NoConf \/ Theme \/ Detect \/ Exclude \/ Recover \/ StartAgain
    <3>1. stage' # "recovery"
      BY <2>5 DEF EarlyPass, Parse, NoConf, Theme, Detect, Exclude, Recover, StartAgain, Goto
    <3> QED BY <3>1 DEF SnapshotsFit
  <2> QED BY <1>2, <2>1, <2>2, <2>3, <2>4, <2>5 DEF DiscoveryNext
<1> QED BY <1>1, <1>2

(* An attached snapshot boots that snapshot and no other subvolume, with the *)
(* other flags and words of its entry; those of an entry are from one        *)
(* volume, the newest of a directory first; and a record of a manifest that  *)
(* names one entry is at that entry.                                         *)
THEOREM SpecSnapshotsFit == DiscoverySpec => []SnapshotsFit
  BY EntriesWholeInductive, SnapshotsAttachedFit, PTL DEF DiscoverySpec
=============================================================================
