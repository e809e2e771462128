------------------------------ MODULE SelfHeal ------------------------------
(***************************************************************************)
(* The boot-time self-heal pass (core/efi_selfheal.c): at every start, and *)
(* on the recovery shell's `selfheal' command, Visor looks for a Boot####  *)
(* entry with the path it was loaded from, creates one if there is none,   *)
(* puts it back into BootOrder, and re-copies its binary to the firmware's *)
(* fallback path.  A stamp file beside the running image counts down a     *)
(* cooldown between rewrites of BootOrder.                                 *)
(*                                                                         *)
(* Between two starts other systems and the firmware do what they like to  *)
(* the variables and the fallback file.  A step of the model ends with at  *)
(* most one durable write, so that a power cut can fall between any two.   *)
(***************************************************************************)
EXTENDS Integers, Sequences

CONSTANTS
    LastSlot,           \* the pass scans Boot0000 .. Boot<LastSlot>
    OtherPaths,         \* loader paths of other systems
    Loaders,            \* what a Boot#### may start: a path on this volume or not
    Cooldown,           \* NVSH_COOLDOWN_BOOTS
    ConfigPolicies,     \* what boot.conf may ask for
    ShellPolicies,      \* what the `selfheal' command may ask for
    FirstEntries, FirstOrders, OtherOrders, \* initial and foreign contents
    MaxMeddling,        \* bound: changes made by other systems
    MaxFaults,          \* bound: failed accesses and power cuts
    None, Broken,       \* Boot#### absent / not parsed by nvsh_parse_load_option
    Missing, Malformed, \* BootOrder absent / of odd size
    NoSlot              \* no such Boot####: 0xFFFF

Slots == 0 .. LastSlot
Images == {"main", "fallback"}      \* the two places Visor is loaded from
Own(image) == [path |-> image, here |-> TRUE]
Unusable == {Missing, Malformed}
Policy == [order : {"off", "ensure", "first"}, fallback : BOOLEAN, dry : BOOLEAN]

ASSUME SelfHealAssumption ==
    /\ LastSlot \in Nat
    /\ OtherPaths \cap Images = {}
    /\ Loaders \subseteq [path : Images \cup OtherPaths, here : BOOLEAN]
    /\ \A image \in Images : Own(image) \in Loaders
    /\ Cooldown \in Nat \ {0}
    /\ ConfigPolicies \subseteq Policy /\ ShellPolicies \subseteq Policy
    /\ None \notin Loaders /\ Broken \notin Loaders
    /\ FirstEntries \subseteq [Slots -> Loaders \cup {None, Broken}]
    /\ FirstOrders \cup OtherOrders \subseteq Seq(Slots) \cup Unusable
    /\ \A o \in Unusable : o \notin Seq(Slots)
    /\ NoSlot \notin Slots
    /\ MaxMeddling \in Nat /\ MaxFaults \in Nat

VARIABLES
    entry,      \* the Boot#### variables
    order,      \* the BootOrder variable
    stamp,      \* per image: the .selfheal file in its directory
    file,       \* \EFI\BOOT\BOOTX64.EFI: this binary, another one, cut short
    removable,  \* Visor's volume is removable media
    pc,         \* where the pass is; "off" while another system runs
    run,        \* the image that runs (nvsh_running_path)
    current,    \* BootCurrent
    policy,     \* nvsh_policy_t of the pass
    slot,       \* the Boot#### the pass takes for its own
    owed,       \* history: passes still to be deferred since the last rewrite
    meddled,    \* changes by other systems so far
    faults      \* faults so far

durable == <<entry, order, stamp, file>>
session == <<run, current, policy>>
vars == <<entry, order, stamp, file, removable, pc, run, current, policy, slot,
          owed, meddled, faults>>

Fault == faults < MaxFaults /\ faults' = faults + 1
MayFail == UNCHANGED faults \/ Fault

Init ==
    /\ entry \in FirstEntries
    /\ order \in FirstOrders
    /\ stamp = [image \in Images |-> 0]
    /\ file \in {"absent", "other", "visor"}
    /\ removable \in BOOLEAN
    /\ pc = "off" /\ run = "main" /\ current = NoSlot /\ slot = NoSlot
    /\ policy \in ConfigPolicies
    /\ owed = [image \in Images |-> 0]
    /\ meddled = 0 /\ faults = 0

-----------------------------------------------------------------------------
(* nvram_self_heal: which parts of the pass run. *)

AfterOrder(p) == IF p.fallback THEN "fallback" ELSE "ready"

Begin(p) ==
    /\ policy' = p
    /\ slot' = NoSlot
    /\ pc' = IF removable /\ ~p.dry THEN "ready"
             ELSE IF p.order = "off" THEN AfterOrder(p)
             ELSE "entry"
    /\ UNCHANGED <<durable, removable, owed, meddled, faults>>

(* The firmware starts a Visor image from a Boot#### entry, from the       *)
(* fallback path with no BootCurrent, or by way of another system's loader.*)
Startable(image) == image = "fallback" => file = "visor"

Start(image, c) ==
    /\ pc = "off"
    /\ Startable(image)
    /\ \/ c = NoSlot
       \/ c \in Slots /\ entry[c] = Own(image)
       \/ c \in Slots /\ entry[c] \in Loaders /\ entry[c].path \in OtherPaths
    /\ run' = image
    /\ current' = c
    /\ \E p \in ConfigPolicies : Begin(p)

(* `selfheal [status|off|ensure|first]' in the recovery shell. *)
ShellSelfHeal ==
    /\ pc = "ready"
    /\ \E p \in ShellPolicies : Begin(p)
    /\ UNCHANGED <<run, current>>

-----------------------------------------------------------------------------
(* nvsh_nvram_pass, the Boot#### entry *)

Parsed(bad) == {s \in Slots \ bad : entry[s] \in Loaders}

(* Mutant: any entry of Visor's will do. *)
MatchingAnyImage(bad) == {s \in Parsed(bad) : entry[s].path \in Images}

(* The device path is compared by its file path only. *)
Matching(bad) == {s \in Parsed(bad) : entry[s].path = run}

Free(bad) == Slots \ Parsed(bad)

IsLowest(s, S) == s \in S /\ \A t \in S : s <= t

(* Slots whose variable exists but could not be read. *)
Misread(bad) == \/ bad = {} /\ UNCHANGED faults
                \/ bad \in SUBSET Slots \ {{}} /\ (\A s \in bad : entry[s] # None) /\ Fault

EnterOrder(s) == slot' = s /\ pc' = "order"
LeaveOrder == pc' = AfterOrder(policy)
InPass == UNCHANGED <<session, removable, meddled>>

(* Of several matching entries the last one enumerated is kept, and the    *)
(* order of enumeration is the firmware's.                                 *)
FindEntry ==
    /\ pc = "entry"
    /\ \E bad \in SUBSET Slots : Misread(bad) /\ \E s \in Matching(bad) : EnterOrder(s)
    /\ InPass /\ UNCHANGED <<durable, owed>>

CreateEntry ==
    /\ pc = "entry"
    /\ \E bad \in SUBSET Slots :
         /\ Misread(bad)
         /\ Matching(bad) = {}
         /\ \E s \in Slots :
              /\ IsLowest(s, Free(bad))
              /\ EnterOrder(s)
              /\ entry' = IF policy.dry THEN entry ELSE [entry EXCEPT ![s] = Own(run)]
    /\ InPass /\ UNCHANGED <<order, stamp, file, owed>>

(* No free slot, or the firmware refuses the variable. *)
CreateEntryFails ==
    /\ pc = "entry"
    /\ Matching({}) = {}
    /\ \/ Free({}) = {} /\ UNCHANGED faults
       \/ ~policy.dry /\ Fault
    /\ LeaveOrder
    /\ InPass /\ UNCHANGED <<durable, slot, owed>>

-----------------------------------------------------------------------------
(* nvsh_nvram_pass, BootOrder *)

Usable == order \notin Unusable
Listed(list, s) == \E i \in 1 .. Len(list) : list[i] = s

(* Mutant: the entry is exchanged with the head instead of moved there. *)
ToHeadSwapped(list, s) ==
    IF Listed(list, s)
    THEN LET p == CHOOSE i \in 1 .. Len(list) : list[i] = s
         IN  [i \in 1 .. Len(list) |-> IF i = 1 THEN s
                                        ELSE IF i = p THEN list[1] ELSE list[i]]
    ELSE <<s>> \o list

FirstAt(list, s, p) == /\ p \in 1 .. Len(list) /\ list[p] = s
                       /\ \A i \in 1 .. p - 1 : list[i] # s

(* The first occurrence moves to the head, or the slot is put in front. *)
ToHead(list, s) ==
    IF Listed(list, s)
    THEN LET p == CHOOSE i \in 1 .. Len(list) : FirstAt(list, s, i)
         IN  [i \in 1 .. Len(list) |-> IF i = 1 THEN s
                                        ELSE IF i <= p THEN list[i - 1] ELSE list[i]]
    ELSE <<s>> \o list

(* nvsh_replan_order; it reports a change exactly when the list differs. *)
Replan(list, s, mode, normal) ==
    IF mode = "first" /\ normal THEN ToHead(list, s)
    ELSE IF Listed(list, s) THEN list ELSE Append(list, s)

NormalBoot == current = slot
Wanted == Replan(order, slot, policy.order, NormalBoot)

(* Nothing to do, or BootOrder absent, unreadable or malformed. *)
KeepOrder ==
    /\ pc = "order"
    /\ \/ (Usable => (Wanted = order \/ policy.dry)) /\ UNCHANGED faults
       \/ Fault
    /\ LeaveOrder
    /\ InPass /\ UNCHANGED <<durable, slot, owed>>

(* The stamp beside the running image still counts. *)
Cooling == stamp[run] > 0

(* Mutant: the stamp is not counted down. *)
DeferForever ==
    /\ pc = "order"
    /\ Usable /\ Wanted # order /\ ~policy.dry
    /\ Cooling
    /\ owed' = [owed EXCEPT ![run] = IF @ > 0 THEN @ - 1 ELSE 0]
    /\ MayFail
    /\ LeaveOrder
    /\ InPass /\ UNCHANGED <<durable, slot>>

(* The cooldown is running: count this boot. *)
Defer ==
    /\ pc = "order"
    /\ Usable /\ Wanted # order /\ ~policy.dry
    /\ Cooling
    /\ owed' = [owed EXCEPT ![run] = IF @ > 0 THEN @ - 1 ELSE 0]
    /\ \/ stamp' = [stamp EXCEPT ![run] = @ - 1] /\ UNCHANGED faults
       \/ UNCHANGED stamp /\ Fault
    /\ LeaveOrder
    /\ InPass /\ UNCHANGED <<entry, order, file, slot>>

(* An unreadable stamp counts as no cooldown. *)
RewriteOrder ==
    /\ pc = "order"
    /\ Usable /\ Wanted # order /\ ~policy.dry
    /\ IF Cooling THEN Fault ELSE UNCHANGED faults
    /\ order' = Wanted
    /\ owed' = [owed EXCEPT ![run] = Cooldown]
    /\ pc' = "arm"
    /\ InPass /\ UNCHANGED <<entry, stamp, file, slot>>

(* Mutant: the cooldown is armed one boot short. *)
ArmCooldownShort ==
    /\ pc = "arm"
    /\ stamp' = [stamp EXCEPT ![run] = Cooldown - 1] /\ UNCHANGED faults
    /\ LeaveOrder
    /\ InPass /\ UNCHANGED <<entry, order, file, slot, owed>>

(* nvsh_stamp_write after the rewrite; a failure goes unnoticed. *)
ArmCooldown ==
    /\ pc = "arm"
    /\ \/ stamp' = [stamp EXCEPT ![run] = Cooldown] /\ UNCHANGED faults
       \/ UNCHANGED stamp /\ Fault
    /\ LeaveOrder
    /\ InPass /\ UNCHANGED <<entry, order, file, slot, owed>>

-----------------------------------------------------------------------------
(* nvsh_fallback_restore *)

(* Mutant: any file there is good enough. *)
KeepAnyFallback ==
    /\ pc = "fallback"
    /\ run = "fallback" \/ file # "absent" \/ policy.dry
    /\ pc' = "ready"
    /\ InPass /\ UNCHANGED <<durable, slot, owed, faults>>

(* The copy is in place, or the pass may not or cannot make one. *)
KeepFallback ==
    /\ pc = "fallback"
    /\ \/ (run = "fallback" \/ file = "visor" \/ policy.dry) /\ UNCHANGED faults
       \/ Fault
    /\ pc' = "ready"
    /\ InPass /\ UNCHANGED <<durable, slot, owed>>

(* efi_write_file empties the file before it writes; a copy that cannot be *)
(* read back for the comparison is replaced too.                           *)
EmptyFallback ==
    /\ pc = "fallback"
    /\ run # "fallback" /\ ~policy.dry
    /\ IF file # "visor" THEN UNCHANGED faults ELSE Fault
    /\ file' = "torn"
    /\ pc' = "copy"
    /\ InPass /\ UNCHANGED <<entry, order, stamp, slot, owed>>

WriteFallback ==
    /\ pc = "copy"
    /\ \/ file' = "visor" /\ UNCHANGED faults
       \/ UNCHANGED file /\ Fault
    /\ pc' = "ready"
    /\ InPass /\ UNCHANGED <<entry, order, stamp, slot, owed>>

-----------------------------------------------------------------------------
(* The rest of the machine *)

(* Visor boots something; the machine is started again later. *)
HandOver ==
    /\ pc = "ready"
    /\ pc' = "off"
    /\ UNCHANGED <<durable, removable, session, slot, owed, meddled, faults>>

PowerCut ==
    /\ pc # "off"
    /\ Fault
    /\ pc' = "off"
    /\ UNCHANGED <<durable, removable, session, slot, owed, meddled>>

(* Another system or the firmware changes one thing. *)
Meddle ==
    /\ pc = "off"
    /\ meddled < MaxMeddling /\ meddled' = meddled + 1
    /\ UNCHANGED <<stamp, removable, pc, session, slot, owed, faults>>
    /\ \/ \E s \in Slots : /\ entry[s] # None
                           /\ entry' = [entry EXCEPT ![s] = None]
                           /\ UNCHANGED <<order, file>>
       \/ \E s \in Slots : /\ entry[s] = None
                           /\ \E l \in Loaders : entry' = [entry EXCEPT ![s] = l]
                           /\ UNCHANGED <<order, file>>
       \/ order' \in OtherOrders \ {order} /\ UNCHANGED <<entry, file>>
       \/ file # "other" /\ file' = "other" /\ UNCHANGED <<entry, order>>

NvramPass == FindEntry \/ CreateEntry \/ CreateEntryFails \/ KeepOrder \/ Defer
             \/ RewriteOrder \/ ArmCooldown
FallbackRestore == KeepFallback \/ EmptyFallback \/ WriteFallback
Pass == NvramPass \/ FallbackRestore

Next == \/ \E image \in Images, c \in Slots \cup {NoSlot} : Start(image, c)
        \/ ShellSelfHeal \/ HandOver
        \/ Pass
        \/ PowerCut \/ Meddle

Spec == Init /\ [][Next]_vars

(* Visor's pass runs to its end and something is booted unless the power   *)
(* goes; starting the machine again is nobody's duty.                      *)
FairSpec == Spec /\ WF_vars(Pass) /\ WF_vars(HandOver)

-----------------------------------------------------------------------------
TypeOK ==
    /\ entry \in [Slots -> Loaders \cup {None, Broken}]
    /\ Usable => order \in Seq(Slots)
    /\ stamp \in [Images -> 0 .. Cooldown]
    /\ file \in {"absent", "other", "visor", "torn"}
    /\ removable \in BOOLEAN
    /\ pc \in {"off", "entry", "order", "arm", "fallback", "copy", "ready"}
    /\ run \in Images
    /\ current \in Slots \cup {NoSlot}
    /\ policy \in Policy
    /\ slot \in Slots \cup {NoSlot}
    /\ owed \in [Images -> 0 .. Cooldown]
    /\ meddled \in 0 .. MaxMeddling
    /\ faults \in 0 .. MaxFaults

(* Once BootOrder has been rewritten it lists an entry with Visor's path,  *)
(* at the head if this is `first' and a normal boot.                       *)
RewriteIsOurs ==
    pc = "arm" => /\ Listed(order, slot)
                  /\ entry[slot] \in Loaders /\ entry[slot].path = run
                  /\ (policy.order = "first" /\ NormalBoot) => order[1] = slot

(* The inductive invariant: the slot stays Visor's own until BootOrder is  *)
(* written, and while nothing fails the stamp covers what is owed.         *)
SlotFound ==
    pc \in {"order", "arm"} /\ ~policy.dry =>
        slot \in Slots /\ entry[slot] \in Loaders /\ entry[slot].path = run

RewriteIsWanted == pc = "arm" => Usable /\ ~policy.dry

CooldownCovered ==
    faults = 0 => \A image \in Images :
        owed[image] <= stamp[image] \/ (pc = "arm" /\ image = run)

(* A part of the pass runs only if the policy and the medium allow it.     *)
PassAllowed ==
    /\ pc \in {"entry", "order", "arm"} => policy.order # "off"
    /\ pc \in {"fallback", "copy"} => policy.fallback
    /\ pc = "copy" => file = "torn" /\ run # "fallback" /\ ~policy.dry
    /\ removable /\ pc \notin {"off", "ready"} => policy.dry

IInv == /\ TypeOK /\ SlotFound /\ RewriteIsWanted /\ RewriteIsOurs
        /\ CooldownCovered /\ PassAllowed

Before(list, a, b) ==
    \E i, j \in 1 .. Len(list) : i < j /\ list[i] = a /\ list[j] = b

(* A pass hides no other boot target: a BootOrder it cannot use stays as   *)
(* it is (comment at efi_selfheal.c:455), and in one it rewrites the other *)
(* entries stay listed and in the same order.                              *)
OthersKeepTheirPlace ==
    [][pc # "off" /\ order' # order =>
         /\ Usable /\ Usable'
         /\ \A a \in Slots \ {slot} : Listed(order', a) <=> Listed(order, a)
         /\ \A a, b \in Slots \ {slot} : Before(order', a, b) <=> Before(order, a, b)]_vars

(* Outside `first' on a normal boot a rewrite only appends: whatever was   *)
(* started before Visor still is ("conservative append-only").             *)
AppendsOnly ==
    [][pc # "off" /\ order' # order /\ ~(policy.order = "first" /\ NormalBoot) =>
         order' = Append(order, slot)]_vars

(* A pass overwrites a Boot#### it could read and parse in no case; only   *)
(* a read error can make a used slot look free.                            *)
OtherEntriesKept ==
    [][pc # "off" => \A s \in Slots :
         entry'[s] # entry[s] => (entry[s] \in {None, Broken} \/ faults' > faults)]_vars

(* Without faults an image rewrites BootOrder only after Cooldown passes   *)
(* in which it wanted to and put it off.                                   *)
CooldownHonoured ==
    [][pc # "off" /\ order' # order => (faults' > 0 \/ owed[run] = 0)]_vars

(* Every entry with Visor's path is where the policy wants it and the      *)
(* fallback copy is in place.                                              *)
NothingToFix ==
    /\ policy.order # "off" =>
         /\ Matching({}) # {}
         /\ Usable => \A s \in Matching({}) :
              Replan(order, s, policy.order, current = s) = order
    /\ policy.fallback => (file = "visor" \/ run = "fallback")

(* "Nothing is written when there is nothing to fix, and removable media   *)
(* are always left untouched" (boot.conf.example:118), nor by `selfheal    *)
(* status'.  A read error may hide that nothing is wrong.                  *)
NothingWritten ==
    [][pc # "off" /\ (NothingToFix \/ removable \/ policy.dry) =>
         (UNCHANGED durable \/ pc = "arm" \/ faults' > faults)]_vars

(* Liveness: what the passes of an image bring about once the others leave *)
(* the machine alone, if the image keeps being started.                    *)
InOrder(image) == \E i \in 1 .. Len(order) :
    entry[order[i]] \in Loaders /\ entry[order[i]].path = image
Full == \A s \in Slots : entry[s] \in Loaders

(* The entry is back in BootOrder for good, through any cooldown, unless   *)
(* BootOrder cannot be used or no slot is free.                            *)
EntryComesBack ==
    \A image \in Images :
        []<>(pc = "entry" /\ run = image /\ ~policy.dry)
            => <>[]((Usable /\ ~Full) => InOrder(image))

(* The fallback copy is restored for good if the installed image keeps     *)
(* being started with restore_fallback on.                                 *)
FallbackComesBack ==
    []<>(pc = "fallback" /\ run = "main" /\ ~policy.dry) => <>[](file = "visor")

-----------------------------------------------------------------------------
(* Claims of the documentation that the code does not meet. *)

(* "recreate a missing Visor Boot#### entry" (boot.conf.example:126): once *)
(* the pass has an entry it starts this very image.                        *)
EntryRecreated == pc = "order" /\ ~policy.dry => entry[slot] = Own(run)

(* "BootOrder absent - not inventing one; fallback copy guards             *)
(* reachability" (efi_selfheal.c:433): where there is no BootOrder, no     *)
(* start finds that file cut short.                                        *)
FallbackGuards == pc = "off" /\ order = Missing => file # "torn"
=============================================================================
