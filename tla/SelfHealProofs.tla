--------------------------- MODULE SelfHealProofs ---------------------------
(* What the self-heal pass may do to the boot variables, for any number of *)
(* slots, any loaders, any contents and any number of faults.              *)
EXTENDS SelfHeal, TLAPS, WellFoundedInduction

-----------------------------------------------------------------------------
(* Lemmas about the boot list. *)

(* A listed slot has a first place in the list. *)
LEMMA FirstOccurrence ==
    ASSUME NEW list \in Seq(Slots), NEW s \in Slots, Listed(list, s)
    PROVE  \E p \in 1 .. Len(list) : FirstAt(list, s, p)
<1> DEFINE Less == {ss \in Nat \X Nat : ss[1] < ss[2]}
           T == {i \in 1 .. Len(list) : list[i] = s}
<1>1. IsWellFoundedOn(Less, Nat)
  BY NatLessThanWellFounded, Zenon DEF OpToRel
<1>2. T \subseteq Nat /\ T # {}
  BY DEF Listed
<1>3. PICK p \in T : \A i \in T : ~ (<<i, p>> \in Less)
  <2> HIDE DEF T, Less
  <2> QED BY <1>1, <1>2, WFMin
<1>4. \A i \in T : ~ (i < p)
  BY <1>2, <1>3
<1> QED
  BY <1>4 DEF FirstAt

(* What moving to the head does, place by place. *)
LEMMA ToHeadPlaces ==
    ASSUME NEW list \in Seq(Slots), NEW s \in Slots, Listed(list, s)
    PROVE  \E p \in 1 .. Len(list) :
             /\ list[p] = s
             /\ ToHead(list, s) =
                  [i \in 1 .. Len(list) |-> IF i = 1 THEN s
                       ELSE IF i <= p THEN list[i - 1] ELSE list[i]]
<1> DEFINE p == CHOOSE i \in 1 .. Len(list) : FirstAt(list, s, i)
<1>1. p \in 1 .. Len(list) /\ FirstAt(list, s, p)
  BY FirstOccurrence
<1> QED
  BY <1>1 DEF ToHead, FirstAt

LEMMA ToHeadType ==
    ASSUME NEW list \in Seq(Slots), NEW s \in Slots
    PROVE  ToHead(list, s) \in Seq(Slots) /\ Listed(ToHead(list, s), s)
             /\ ToHead(list, s)[1] = s
<1>1. CASE Listed(list, s)
  <2>1. PICK p \in 1 .. Len(list) :
          ToHead(list, s) = [i \in 1 .. Len(list) |-> IF i = 1 THEN s
                               ELSE IF i <= p THEN list[i - 1] ELSE list[i]]
    BY <1>1, ToHeadPlaces
  <2>2. \A i \in 1 .. Len(list) : ToHead(list, s)[i] \in Slots
    BY <2>1
  <2>3. ToHead(list, s) \in Seq(Slots) /\ Len(ToHead(list, s)) = Len(list)
    BY <2>1, <2>2
  <2> QED
    BY <2>1, <2>3 DEF Listed
<1>2. CASE ~Listed(list, s)
  BY <1>2 DEF ToHead, Listed
<1> QED
  BY <1>1, <1>2

(* Moving to the head leaves the other slots listed, in the same order.    *)
LEMMA ToHeadOthers ==
    ASSUME NEW list \in Seq(Slots), NEW s \in Slots, NEW new, new = ToHead(list, s)
    PROVE  /\ \A a \in Slots \ {s} : Listed(new, a) <=> Listed(list, a)
           /\ \A a, b \in Slots \ {s} : Before(new, a, b) <=> Before(list, a, b)
<1>1. CASE Listed(list, s)
  <2>1. PICK p \in 1 .. Len(list) :
          /\ list[p] = s
          /\ new = [i \in 1 .. Len(list) |-> IF i = 1 THEN s
                       ELSE IF i <= p THEN list[i - 1] ELSE list[i]]
    BY <1>1, ToHeadPlaces
  <2>2. new \in Seq(Slots) /\ Len(new) = Len(list)
    <3>1. new \in Seq(Slots)
      BY ToHeadType
    <3>2. DOMAIN new = 1 .. Len(list)
      BY <2>1
    <3> QED BY <3>1, <3>2
  <2> DEFINE Old(i) == IF i <= p THEN i - 1 ELSE i
             Moved(i) == IF i < p THEN i + 1 ELSE i
  <2>3. \A i \in 1 .. Len(list) : new[i] # s =>
          Old(i) \in 1 .. Len(list) /\ new[i] = list[Old(i)]
    BY <2>1
  <2>4. \A i \in 1 .. Len(list) : list[i] # s =>
          Moved(i) \in 1 .. Len(list) /\ new[Moved(i)] = list[i]
    BY <2>1
  <2>5. \A i, j \in 1 .. Len(list) : i < j /\ new[i] # s => Old(i) < Old(j)
    BY <2>1
  <2>6. \A i, j \in 1 .. Len(list) : i < j /\ list[j] # s => Moved(i) < Moved(j)
    BY <2>1
  <2> HIDE DEF Old, Moved
  <2>7. ASSUME NEW a \in Slots \ {s} PROVE Listed(new, a) <=> Listed(list, a)
    BY <2>2, <2>3, <2>4 DEF Listed
  <2>8. ASSUME NEW a \in Slots \ {s}, NEW b \in Slots \ {s}
        PROVE  Before(new, a, b) <=> Before(list, a, b)
    <3>1. ASSUME Before(new, a, b) PROVE Before(list, a, b)
      <4>1. PICK i \in 1 .. Len(list), j \in 1 .. Len(list) :
              i < j /\ new[i] = a /\ new[j] = b
        BY <2>2, <3>1 DEF Before
      <4>2. /\ Old(i) \in 1 .. Len(list) /\ list[Old(i)] = a
            /\ Old(j) \in 1 .. Len(list) /\ list[Old(j)] = b
            /\ Old(i) < Old(j)
        BY <4>1, <2>3, <2>5
      <4> QED BY <4>2 DEF Before
    <3>2. ASSUME Before(list, a, b) PROVE Before(new, a, b)
      <4>1. PICK i \in 1 .. Len(list), j \in 1 .. Len(list) :
              i < j /\ list[i] = a /\ list[j] = b
        BY <3>2 DEF Before
      <4>2. /\ Moved(i) \in 1 .. Len(list) /\ new[Moved(i)] = a
            /\ Moved(j) \in 1 .. Len(list) /\ new[Moved(j)] = b
            /\ Moved(i) < Moved(j)
        BY <4>1, <2>4, <2>6
      <4> QED BY <4>2, <2>2 DEF Before
    <3> QED BY <3>1, <3>2
  <2> QED BY <2>7, <2>8
<1>2. CASE ~Listed(list, s)
  <2>1. new = <<s>> \o list
    BY <1>2 DEF ToHead
  <2>2. /\ new \in Seq(Slots) /\ Len(new) = Len(list) + 1
        /\ new[1] = s
        /\ \A i \in 1 .. Len(list) : new[i + 1] = list[i]
        /\ \A i \in 1 .. Len(new) : i # 1 => i - 1 \in 1 .. Len(list) /\ new[i] = list[i - 1]
    BY <2>1
  <2>3. ASSUME NEW a \in Slots \ {s} PROVE Listed(new, a) <=> Listed(list, a)
    <3>1. ASSUME Listed(new, a) PROVE Listed(list, a)
      BY <3>1, <2>2 DEF Listed
    <3>2. ASSUME Listed(list, a) PROVE Listed(new, a)
      <4>1. PICK i \in 1 .. Len(list) : list[i] = a
        BY <3>2 DEF Listed
      <4>2. i + 1 \in 1 .. Len(new) /\ new[i + 1] = a
        BY <4>1, <2>2
      <4> QED BY <4>2 DEF Listed
    <3> QED BY <3>1, <3>2
  <2>4. ASSUME NEW a \in Slots \ {s}, NEW b \in Slots \ {s}
        PROVE  Before(new, a, b) <=> Before(list, a, b)
    <3>1. ASSUME Before(new, a, b) PROVE Before(list, a, b)
      <4>1. PICK i \in 1 .. Len(new), j \in 1 .. Len(new) :
              i < j /\ new[i] = a /\ new[j] = b
        BY <3>1 DEF Before
      <4>2. /\ i - 1 \in 1 .. Len(list) /\ list[i - 1] = a
            /\ j - 1 \in 1 .. Len(list) /\ list[j - 1] = b
            /\ i - 1 < j - 1
        BY <4>1, <2>2
      <4> QED BY <4>2 DEF Before
    <3>2. ASSUME Before(list, a, b) PROVE Before(new, a, b)
      <4>1. PICK i \in 1 .. Len(list), j \in 1 .. Len(list) :
              i < j /\ list[i] = a /\ list[j] = b
        BY <3>2 DEF Before
      <4>2. /\ i + 1 \in 1 .. Len(new) /\ new[i + 1] = a
            /\ j + 1 \in 1 .. Len(new) /\ new[j + 1] = b
            /\ i + 1 < j + 1
        BY <4>1, <2>2
      <4> QED BY <4>2 DEF Before
    <3> QED BY <3>1, <3>2
  <2> QED BY <2>3, <2>4
<1> QED BY <1>1, <1>2

(* So does appending a slot that is not listed. *)
LEMMA AppendOthers ==
    ASSUME NEW list \in Seq(Slots), NEW s \in Slots, NEW new, new = Append(list, s)
    PROVE  /\ \A a \in Slots \ {s} : Listed(new, a) <=> Listed(list, a)
           /\ \A a, b \in Slots \ {s} : Before(new, a, b) <=> Before(list, a, b)
<1>1. /\ new \in Seq(Slots) /\ Len(new) = Len(list) + 1
      /\ new[Len(list) + 1] = s
      /\ \A i \in 1 .. Len(list) : new[i] = list[i]
  OBVIOUS
<1>2. \A i \in 1 .. Len(new) : new[i] # s => i \in 1 .. Len(list) /\ list[i] = new[i]
  BY <1>1
<1>3. \A i \in 1 .. Len(list) : i \in 1 .. Len(new)
  BY <1>1
<1>4. ASSUME NEW a \in Slots \ {s} PROVE Listed(new, a) <=> Listed(list, a)
  BY <1>1, <1>2, <1>3 DEF Listed
<1>5. ASSUME NEW a \in Slots \ {s}, NEW b \in Slots \ {s}
      PROVE  Before(new, a, b) <=> Before(list, a, b)
  BY <1>1, <1>2, <1>3 DEF Before
<1> QED BY <1>4, <1>5

(* nvsh_replan_order as a whole. *)
LEMMA ReplanSound ==
    ASSUME NEW list \in Seq(Slots), NEW s \in Slots, NEW mode, NEW normal \in BOOLEAN,
           NEW new, new = Replan(list, s, mode, normal)
    PROVE  /\ new \in Seq(Slots)
           /\ Listed(new, s)
           /\ mode = "first" /\ normal => new[1] = s
           /\ \A a \in Slots \ {s} : Listed(new, a) <=> Listed(list, a)
           /\ \A a, b \in Slots \ {s} : Before(new, a, b) <=> Before(list, a, b)
<1>1. CASE mode = "first" /\ normal
  BY <1>1, ToHeadType, ToHeadOthers DEF Replan
<1>2. CASE ~(mode = "first" /\ normal) /\ Listed(list, s)
  BY <1>2 DEF Replan
<1>3. CASE ~(mode = "first" /\ normal) /\ ~Listed(list, s)
  <2>1. new = Append(list, s)
    BY <1>3 DEF Replan
  <2>2. new \in Seq(Slots) /\ Listed(new, s)
    <3>1. new \in Seq(Slots) /\ Len(new) = Len(list) + 1 /\ new[Len(list) + 1] = s
      BY <2>1
    <3>2. Len(list) + 1 \in 1 .. Len(new)
      BY <3>1
    <3> QED BY <3>1, <3>2 DEF Listed
  <2> QED BY <1>3, <2>1, <2>2, AppendOthers
<1> QED BY <1>1, <1>2, <1>3

-----------------------------------------------------------------------------
(* Type correctness *)

LEMMA FaultType ==
    ASSUME faults \in 0 .. MaxFaults, UNCHANGED faults \/ Fault
    PROVE  faults' \in 0 .. MaxFaults
BY SelfHealAssumption DEF Fault

LEMMA WantedType ==
    ASSUME TypeOK, Usable, slot \in Slots
    PROVE  Wanted \in Seq(Slots)
<1>1. order \in Seq(Slots) /\ NormalBoot \in BOOLEAN
  BY DEF TypeOK, NormalBoot
<1>2. Replan(order, slot, policy.order, NormalBoot) \in Seq(Slots)
  BY <1>1, ReplanSound
<1> QED
  BY <1>2 DEF Wanted

LEMMA TypeStep ==
    ASSUME TypeOK, SlotFound, [Next]_vars
    PROVE  TypeOK'
<1> USE DEF durable, session
<1>1. ASSUME NEW image \in Images, NEW c \in Slots \cup {NoSlot}, Start(image, c)
      PROVE  TypeOK'
  BY <1>1, SelfHealAssumption DEF Start, Begin, AfterOrder, TypeOK, Usable
<1>2. CASE ShellSelfHeal
  BY <1>2, SelfHealAssumption DEF ShellSelfHeal, Begin, AfterOrder, TypeOK, Usable
<1>3. CASE HandOver
  BY <1>3 DEF HandOver, TypeOK, Usable
<1>4. CASE FindEntry
  <2>1. PICK bad \in SUBSET Slots : Misread(bad) /\ \E s \in Matching(bad) : EnterOrder(s)
    BY <1>4 DEF FindEntry
  <2>2. faults' \in 0 .. MaxFaults
    BY <2>1, FaultType DEF Misread, TypeOK
  <2> QED BY <1>4, <2>1, <2>2 DEF FindEntry, Matching, Parsed, EnterOrder, InPass, TypeOK, Usable
<1>5. CASE CreateEntry
  <2>1. PICK bad \in SUBSET Slots, s \in Slots :
          /\ Misread(bad) /\ EnterOrder(s)
          /\ entry' = IF policy.dry THEN entry ELSE [entry EXCEPT ![s] = Own(run)]
    BY <1>5 DEF CreateEntry
  <2>2. faults' \in 0 .. MaxFaults
    BY <2>1, FaultType DEF Misread, TypeOK
  <2>3. Own(run) \in Loaders
    BY SelfHealAssumption DEF TypeOK
  <2>4. entry' \in [Slots -> Loaders \cup {None, Broken}]
    BY <2>1, <2>3 DEF TypeOK
  <2> QED BY <1>5, <2>1, <2>2, <2>4 DEF CreateEntry, EnterOrder, InPass, TypeOK, Usable
<1>6. CASE CreateEntryFails
  <2>1. faults' \in 0 .. MaxFaults
    BY <1>6, FaultType DEF CreateEntryFails, TypeOK
  <2> QED BY <1>6, <2>1 DEF CreateEntryFails, LeaveOrder, AfterOrder, InPass, TypeOK, Usable
<1>7. CASE KeepOrder
  <2>1. faults' \in 0 .. MaxFaults
    BY <1>7, FaultType DEF KeepOrder, TypeOK
  <2> QED BY <1>7, <2>1 DEF KeepOrder, LeaveOrder, AfterOrder, InPass, TypeOK, Usable
<1>8. CASE Defer
  <2>1. faults' \in 0 .. MaxFaults
    BY <1>8, FaultType DEF Defer, TypeOK
  <2>2. stamp' \in [Images -> 0 .. Cooldown] /\ owed' \in [Images -> 0 .. Cooldown]
    <3>1. stamp \in [Images -> 0 .. Cooldown] /\ stamp[run] > 0 /\ run \in Images
      BY <1>8 DEF Defer, Cooling, TypeOK
    <3>2. stamp' = [stamp EXCEPT ![run] = stamp[run] - 1] \/ stamp' = stamp
      BY <1>8 DEF Defer
    <3>3. stamp[run] - 1 \in 0 .. Cooldown
      BY <3>1, SelfHealAssumption
    <3>4. stamp' \in [Images -> 0 .. Cooldown]
      BY <3>1, <3>2, <3>3
    <3>5. owed' \in [Images -> 0 .. Cooldown]
      BY <1>8, SelfHealAssumption DEF Defer, TypeOK
    <3> QED BY <3>4, <3>5
  <2> QED BY <1>8, <2>1, <2>2 DEF Defer, LeaveOrder, AfterOrder, InPass, TypeOK, Usable
<1>9. CASE RewriteOrder
  <2>1. faults' \in 0 .. MaxFaults
    BY <1>9, FaultType DEF RewriteOrder, TypeOK
  <2>2. owed' \in [Images -> 0 .. Cooldown]
    BY <1>9, SelfHealAssumption DEF RewriteOrder, TypeOK
  <2>3. order' \in Seq(Slots)
    BY <1>9, WantedType DEF RewriteOrder, SlotFound
  <2> QED BY <1>9, <2>1, <2>2, <2>3 DEF RewriteOrder, InPass, TypeOK, Usable
<1>10. CASE ArmCooldown
  <2>1. faults' \in 0 .. MaxFaults
    BY <1>10, FaultType DEF ArmCooldown, TypeOK
  <2>2. stamp' \in [Images -> 0 .. Cooldown]
    <3>1. stamp' = [stamp EXCEPT ![run] = Cooldown] \/ stamp' = stamp
      BY <1>10 DEF ArmCooldown
    <3>2. Cooldown \in 0 .. Cooldown
      BY SelfHealAssumption
    <3> QED BY <3>1, <3>2 DEF TypeOK
  <2> QED BY <1>10, <2>1, <2>2 DEF ArmCooldown, LeaveOrder, AfterOrder, InPass, TypeOK, Usable
<1>11. CASE FallbackRestore
  <2>1. faults' \in 0 .. MaxFaults
    BY <1>11, FaultType DEF FallbackRestore, KeepFallback, EmptyFallback, WriteFallback, TypeOK
  <2> QED BY <1>11, <2>1 DEF FallbackRestore, KeepFallback, EmptyFallback, WriteFallback,
                          InPass, TypeOK, Usable
<1>12. CASE PowerCut
  BY <1>12, FaultType DEF PowerCut, TypeOK, Usable
<1>13. CASE Meddle
  <2>1. meddled' \in 0 .. MaxMeddling
    BY <1>13, SelfHealAssumption DEF Meddle, TypeOK
  <2>2. entry' \in [Slots -> Loaders \cup {None, Broken}]
    BY <1>13 DEF Meddle, TypeOK
  <2>3. (Usable => order \in Seq(Slots))'
    BY <1>13, SelfHealAssumption DEF Meddle, TypeOK, Usable
  <2> QED BY <1>13, <2>1, <2>2, <2>3 DEF Meddle, TypeOK
<1>14. CASE UNCHANGED vars
  BY <1>14 DEF vars, TypeOK, Usable
<1> QED
  BY <1>1, <1>2, <1>3, <1>4, <1>5, <1>6, <1>7, <1>8, <1>9, <1>10, <1>11, <1>12, <1>13, <1>14
     DEF Next, Pass, NvramPass

-----------------------------------------------------------------------------
(* The inductive invariant, one lemma per conjunct *)

LEMMA InitIInv == Init => IInv
<1>1. Init => TypeOK
  <2> SUFFICES ASSUME Init PROVE TypeOK
    OBVIOUS
  <2>1. entry \in [Slots -> Loaders \cup {None, Broken}] /\ (Usable => order \in Seq(Slots))
    BY SelfHealAssumption DEF Init, Usable
  <2>2. 0 \in 0 .. Cooldown /\ 0 \in 0 .. MaxMeddling /\ 0 \in 0 .. MaxFaults
    BY SelfHealAssumption
  <2>3. policy \in Policy
    BY SelfHealAssumption DEF Init
  <2> QED BY <2>1, <2>2, <2>3 DEF Init, TypeOK, Images
<1> QED
  BY <1>1 DEF Init, IInv, SlotFound, RewriteIsWanted, RewriteIsOurs, CooldownCovered,
              PassAllowed, TypeOK

(* The steps that lead into the order part or stay in it. *)
LEMMA SlotFoundStep ==
    ASSUME IInv, [Next]_vars
    PROVE  SlotFound'
<1> USE DEF IInv, SlotFound, InPass, session, durable
<1>1. CASE FindEntry
  BY <1>1 DEF FindEntry, Matching, Parsed, EnterOrder
<1>2. CASE CreateEntry
  <2>1. PICK s \in Slots :
          /\ EnterOrder(s)
          /\ entry' = IF policy.dry THEN entry ELSE [entry EXCEPT ![s] = Own(run)]
    BY <1>2 DEF CreateEntry
  <2>2. Own(run) \in Loaders /\ Own(run).path = run
    BY SelfHealAssumption DEF TypeOK, Own
  <2> QED BY <1>2, <2>1, <2>2 DEF CreateEntry, EnterOrder, TypeOK
<1>3. CASE RewriteOrder
  BY <1>3 DEF RewriteOrder
<1>4. CASE pc' \notin {"order", "arm"}
  BY <1>4
<1>5. CASE UNCHANGED vars
  BY <1>5 DEF vars
<1> QED
  BY <1>1, <1>2, <1>3, <1>4, <1>5
     DEF Next, Pass, NvramPass, FallbackRestore, Start, ShellSelfHeal, Begin, AfterOrder,
         HandOver, CreateEntryFails, KeepOrder, Defer, ArmCooldown, LeaveOrder,
         KeepFallback, EmptyFallback, WriteFallback, PowerCut, Meddle

LEMMA RewriteStep ==
    ASSUME IInv, [Next]_vars
    PROVE  RewriteIsWanted' /\ RewriteIsOurs'
<1> USE DEF IInv, RewriteIsWanted, RewriteIsOurs
<1>1. CASE RewriteOrder
  <2>1. /\ order \in Seq(Slots) /\ slot \in Slots /\ NormalBoot \in BOOLEAN
        /\ entry[slot] \in Loaders /\ entry[slot].path = run
    BY <1>1 DEF RewriteOrder, TypeOK, SlotFound, NormalBoot
  <2>2. /\ Replan(order, slot, policy.order, NormalBoot) \in Seq(Slots)
        /\ Listed(Replan(order, slot, policy.order, NormalBoot), slot)
        /\ policy.order = "first" /\ NormalBoot =>
             Replan(order, slot, policy.order, NormalBoot)[1] = slot
    BY <2>1, ReplanSound
  <2>3. /\ order' = Replan(order, slot, policy.order, NormalBoot)
        /\ UNCHANGED <<entry, slot, run, current, policy>> /\ ~policy.dry
    BY <1>1 DEF RewriteOrder, Wanted, InPass, session
  <2>4. order' \in Seq(Slots)
    BY <2>2, <2>3
  <2>5. Usable'
    BY <2>4, SelfHealAssumption DEF Usable
  <2> QED BY <2>1, <2>2, <2>3, <2>5 DEF NormalBoot
<1>2. CASE pc' # "arm"
  BY <1>2
<1>3. CASE UNCHANGED vars
  BY <1>3 DEF vars, Usable, NormalBoot
<1> QED
  BY <1>1, <1>2, <1>3
     DEF Next, Pass, NvramPass, FallbackRestore, Start, ShellSelfHeal, Begin, AfterOrder,
         HandOver, FindEntry, CreateEntry, EnterOrder, CreateEntryFails, KeepOrder, Defer,
         ArmCooldown, LeaveOrder, KeepFallback, EmptyFallback, WriteFallback, PowerCut, Meddle

LEMMA CooldownStep ==
    ASSUME IInv, [Next]_vars
    PROVE  CooldownCovered'
<1> SUFFICES ASSUME faults' = 0, NEW image \in Images
             PROVE  owed'[image] <= stamp'[image] \/ (pc' = "arm" /\ image = run')
  BY DEF CooldownCovered
<1> USE DEF IInv, CooldownCovered, TypeOK, InPass, session, durable
<1>1. faults = 0 /\ UNCHANGED faults
  <2>1. faults' = faults \/ faults' = faults + 1
    BY DEF Next, Pass, NvramPass, FallbackRestore, Start, ShellSelfHeal, Begin, HandOver,
           FindEntry, CreateEntry, Misread, CreateEntryFails, KeepOrder, Defer, MayFail,
           RewriteOrder, ArmCooldown, KeepFallback, EmptyFallback, WriteFallback, PowerCut,
           Meddle, Fault, vars
  <2> QED BY <2>1
<1>2. ~Fault
  BY <1>1 DEF Fault
<1>3. owed[image] \in 0 .. Cooldown /\ stamp[image] \in 0 .. Cooldown /\ run \in Images
  OBVIOUS
<1>4. CASE Defer
  <2>1. /\ stamp[run] > 0
        /\ stamp' = [stamp EXCEPT ![run] = @ - 1]
        /\ owed' = [owed EXCEPT ![run] = IF @ > 0 THEN @ - 1 ELSE 0]
        /\ pc = "order"
    BY <1>2, <1>4 DEF Defer, Cooling
  <2>2. owed[image] <= stamp[image]
    BY <1>1, <2>1
  <2> QED BY <1>3, <2>1, <2>2
<1>5. CASE RewriteOrder
  BY <1>1, <1>3, <1>5 DEF RewriteOrder
<1>6. CASE ArmCooldown
  <2>1. stamp' = [stamp EXCEPT ![run] = Cooldown] /\ UNCHANGED owed
    BY <1>2, <1>6 DEF ArmCooldown
  <2> QED BY <1>1, <1>3, <2>1
<1>7. CASE UNCHANGED <<stamp, owed>> /\ pc # "arm"
  BY <1>1, <1>7
<1>8. CASE UNCHANGED vars
  BY <1>1, <1>8 DEF vars
<1>9. CASE PowerCut
  BY <1>2, <1>9 DEF PowerCut
<1> QED
  BY <1>4, <1>5, <1>6, <1>7, <1>8, <1>9
     DEF Next, Pass, NvramPass, FallbackRestore, Start, ShellSelfHeal, Begin, HandOver,
         FindEntry, CreateEntry, CreateEntryFails, KeepOrder, KeepFallback, EmptyFallback,
         WriteFallback, Meddle

LEMMA PassAllowedStep ==
    ASSUME IInv, [Next]_vars
    PROVE  PassAllowed'
<1> USE DEF IInv, PassAllowed, TypeOK, InPass, session, durable
<1>1. CASE NvramPass
  BY <1>1 DEF NvramPass, FindEntry, CreateEntry, EnterOrder, CreateEntryFails, KeepOrder,
              Defer, RewriteOrder, ArmCooldown, LeaveOrder, AfterOrder
<1>2. CASE FallbackRestore
  BY <1>2 DEF FallbackRestore, KeepFallback, EmptyFallback, WriteFallback
<1>3. ASSUME NEW image \in Images, NEW c \in Slots \cup {NoSlot}, Start(image, c)
      PROVE  PassAllowed'
  BY <1>3 DEF Start, Begin, AfterOrder
<1>4. CASE ShellSelfHeal
  BY <1>4 DEF ShellSelfHeal, Begin, AfterOrder
<1>5. CASE HandOver \/ PowerCut \/ Meddle
  BY <1>5 DEF HandOver, PowerCut, Meddle
<1>6. CASE UNCHANGED vars
  BY <1>6 DEF vars
<1> QED
  BY <1>1, <1>2, <1>3, <1>4, <1>5, <1>6 DEF Next, Pass

(* The invariant that the theorems below rest on. *)
THEOREM Invariant == Spec => []IInv
<1>1. Init => IInv
  BY InitIInv
<1>2. IInv /\ [Next]_vars => IInv'
  BY TypeStep, SlotFoundStep, RewriteStep, CooldownStep, PassAllowedStep DEF IInv
<1> QED
  BY <1>1, <1>2, PTL DEF Spec

(* Every variable keeps its type. *)
THEOREM TypeCorrect == Spec => []TypeOK
BY Invariant, PTL DEF IInv

(* A BootOrder just rewritten lists Visor's entry, at the head if wanted.  *)
THEOREM RewriteSound == Spec => []RewriteIsOurs
BY Invariant, PTL DEF IInv

-----------------------------------------------------------------------------
(* What a step may not do *)

(* Visor writes BootOrder in one place. *)
LEMMA OnlyRewrite ==
    ASSUME IInv, [Next]_vars, pc # "off", order' # order
    PROVE  RewriteOrder
BY DEF Next, Pass, NvramPass, FallbackRestore, Start, ShellSelfHeal, Begin, HandOver,
       FindEntry, CreateEntry, CreateEntryFails, KeepOrder, Defer, ArmCooldown,
       KeepFallback, EmptyFallback, WriteFallback, PowerCut, Meddle, durable, vars

(* No other boot target is hidden or moved against the others. *)
THEOREM OthersUndisturbed == Spec => OthersKeepTheirPlace
<1>1. ASSUME IInv, [Next]_vars, pc # "off", order' # order
      PROVE  /\ Usable /\ Usable'
             /\ \A a \in Slots \ {slot} : Listed(order', a) <=> Listed(order, a)
             /\ \A a, b \in Slots \ {slot} : Before(order', a, b) <=> Before(order, a, b)
  <2>1. RewriteOrder
    BY <1>1, OnlyRewrite
  <2>2. Usable'
    BY <1>1, <2>1, RewriteStep DEF RewriteOrder, RewriteIsWanted
  <2>3. /\ order \in Seq(Slots) /\ slot \in Slots /\ NormalBoot \in BOOLEAN
        /\ Usable /\ order' = Replan(order, slot, policy.order, NormalBoot)
    BY <1>1, <2>1 DEF RewriteOrder, Wanted, NormalBoot, IInv, TypeOK, SlotFound
  <2> QED BY <2>2, <2>3, ReplanSound
<1>2. IInv /\ [Next]_vars =>
        [pc # "off" /\ order' # order =>
           /\ Usable /\ Usable'
           /\ \A a \in Slots \ {slot} : Listed(order', a) <=> Listed(order, a)
           /\ \A a, b \in Slots \ {slot} : Before(order', a, b) <=> Before(order, a, b)]_vars
  BY <1>1
<1> QED
  BY <1>2, Invariant, PTL DEF Spec, OthersKeepTheirPlace

(* Outside `first' on a normal boot a rewrite only appends. *)
THEOREM Conservative == Spec => AppendsOnly
<1>1. ASSUME IInv, [Next]_vars, pc # "off", order' # order,
             ~(policy.order = "first" /\ NormalBoot)
      PROVE  order' = Append(order, slot)
  BY <1>1, OnlyRewrite DEF RewriteOrder, Wanted, Replan
<1>2. IInv /\ [Next]_vars =>
        [pc # "off" /\ order' # order /\ ~(policy.order = "first" /\ NormalBoot) =>
           order' = Append(order, slot)]_vars
  BY <1>1
<1> QED
  BY <1>2, Invariant, PTL DEF Spec, AppendsOnly

(* A readable Boot#### that can be parsed is never overwritten. *)
THEOREM EntriesSafe == Spec => OtherEntriesKept
<1>1. ASSUME IInv, [Next]_vars, pc # "off", NEW s \in Slots, entry'[s] # entry[s]
      PROVE  entry[s] \in {None, Broken} \/ faults' > faults
  <2>1. CreateEntry
    BY <1>1 DEF Next, Pass, NvramPass, FallbackRestore, Start, ShellSelfHeal, Begin,
         HandOver, FindEntry, CreateEntryFails, KeepOrder, Defer, RewriteOrder, ArmCooldown,
         KeepFallback, EmptyFallback, WriteFallback, PowerCut, Meddle, durable, vars
  <2>2. PICK bad \in SUBSET Slots, t \in Slots :
          /\ Misread(bad) /\ IsLowest(t, Free(bad))
          /\ entry' = IF policy.dry THEN entry ELSE [entry EXCEPT ![t] = Own(run)]
    BY <2>1 DEF CreateEntry
  <2>3. s = t
    BY <1>1, <2>2 DEF IInv, TypeOK
  <2>4. CASE bad = {}
    BY <1>1, <2>2, <2>3, <2>4 DEF IsLowest, Free, Parsed, IInv, TypeOK
  <2>5. CASE bad # {}
    BY <1>1, <2>2, <2>5 DEF Misread, Fault, IInv, TypeOK
  <2> QED BY <2>4, <2>5
<1>2. IInv /\ [Next]_vars =>
        [pc # "off" => \A s \in Slots :
           entry'[s] # entry[s] => (entry[s] \in {None, Broken} \/ faults' > faults)]_vars
  BY <1>1
<1> QED
  BY <1>2, Invariant, PTL DEF Spec, OtherEntriesKept

(* Without faults a rewrite comes only after the whole cooldown. *)
THEOREM CooldownHolds == Spec => CooldownHonoured
<1>1. ASSUME IInv, [Next]_vars, pc # "off", order' # order
      PROVE  faults' > 0 \/ owed[run] = 0
  <2>1. RewriteOrder
    BY <1>1, OnlyRewrite
  <2>2. /\ faults \in Nat /\ run \in Images
        /\ owed[run] \in 0 .. Cooldown /\ pc = "order"
    BY <1>1, <2>1 DEF IInv, TypeOK, RewriteOrder
  <2>3. CASE stamp[run] = 0 /\ faults = 0
    BY <1>1, <2>2, <2>3 DEF IInv, CooldownCovered
  <2>4. CASE ~(stamp[run] = 0 /\ faults = 0)
    <3>1. stamp[run] \in Nat
      BY <1>1, <2>2, SelfHealAssumption DEF IInv, TypeOK
    <3>2. IF Cooling THEN Fault ELSE UNCHANGED faults
      BY <2>1 DEF RewriteOrder
    <3> QED BY <2>2, <2>4, <3>1, <3>2 DEF Cooling, Fault
  <2> QED BY <2>3, <2>4
<1>2. IInv /\ [Next]_vars =>
        [pc # "off" /\ order' # order => (faults' > 0 \/ owed[run] = 0)]_vars
  BY <1>1
<1> QED
  BY <1>2, Invariant, PTL DEF Spec, CooldownHonoured

(* With nothing to fix, on removable media and for `selfheal status', a    *)
(* pass writes nothing unless a read fails.                                *)
THEOREM QuietWhenSound == Spec => NothingWritten
<1>1. ASSUME IInv, [Next]_vars, pc # "off", NothingToFix \/ removable \/ policy.dry,
             pc # "arm", ~(faults' > faults)
      PROVE  UNCHANGED durable
  <2> USE DEF IInv, TypeOK
  <2>1. faults \in Nat /\ ~Fault
    BY <1>1 DEF Fault
  <2>2. pc \in {"entry", "order", "fallback", "copy"} => NothingToFix \/ policy.dry
    BY <1>1 DEF PassAllowed
  <2>3. CASE CreateEntry
    <3>1. PICK bad \in SUBSET Slots, s \in Slots :
            /\ Misread(bad) /\ Matching(bad) = {}
            /\ entry' = IF policy.dry THEN entry ELSE [entry EXCEPT ![s] = Own(run)]
      BY <2>3 DEF CreateEntry
    <3>2. bad = {}
      BY <2>1, <3>1 DEF Misread
    <3>3. policy.dry
      BY <1>1, <2>2, <2>3, <3>1, <3>2 DEF CreateEntry, NothingToFix, PassAllowed
    <3> QED BY <2>3, <3>1, <3>3 DEF CreateEntry, durable
  <2>4. ASSUME pc = "order", Usable, Wanted # order, ~policy.dry PROVE FALSE
    <3>1. slot \in Matching({})
      BY <1>1, <2>4 DEF SlotFound, Matching, Parsed
    <3>2. NothingToFix /\ policy.order # "off"
      BY <1>1, <2>2, <2>4 DEF PassAllowed
    <3>3. Replan(order, slot, policy.order, current = slot) = order
      BY <2>4, <3>1, <3>2 DEF NothingToFix
    <3> QED BY <2>4, <3>3 DEF Wanted, NormalBoot
  <2>5. ~Defer /\ ~RewriteOrder
    BY <2>4 DEF Defer, RewriteOrder
  <2>6. ~EmptyFallback
    BY <1>1, <2>1, <2>2 DEF EmptyFallback, NothingToFix, PassAllowed
  <2>7. ~WriteFallback
    BY <1>1, <2>2 DEF WriteFallback, NothingToFix, PassAllowed
  <2>8. ~ArmCooldown /\ ~Meddle
    BY <1>1 DEF ArmCooldown, Meddle
  <2> QED
    BY <1>1, <2>3, <2>5, <2>6, <2>7, <2>8
       DEF Next, Pass, NvramPass, FallbackRestore, Start, ShellSelfHeal, Begin, HandOver,
           FindEntry, CreateEntryFails, KeepOrder, KeepFallback, PowerCut, durable, vars
<1>2. IInv /\ [Next]_vars =>
        [pc # "off" /\ (NothingToFix \/ removable \/ policy.dry) =>
           (UNCHANGED durable \/ pc = "arm" \/ faults' > faults)]_vars
  BY <1>1
<1> QED
  BY <1>2, Invariant, PTL DEF Spec, NothingWritten
=============================================================================
