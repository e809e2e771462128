--------------------------- MODULE HandoverProofs ---------------------------
(* What reaches an image, for any entries, volumes, disks, verdicts, files   *)
(* that change and any number of platform boots: the proofs about EntryFiles *)
(* and Handover.                                                             *)
EXTENDS Handover, SequenceTheorems, WellFoundedInduction, TLAPS

-----------------------------------------------------------------------------
(* The volume a path search finds.                                           *)
LEMMA Least ==
    ASSUME NEW S \in SUBSET Nat, S # {}
    PROVE  Min(S) \in S /\ \A n \in S : Min(S) <= n
<1> DEFINE Less == {ss \in Nat \X Nat : ss[1] < ss[2]}
<1>1. IsWellFoundedOn(Less, Nat)
  BY NatLessThanWellFounded, Zenon DEF OpToRel
<1>2. PICK n \in S : \A m \in S : ~ (<<m, n>> \in Less)
  <2> HIDE DEF Less
  <2> QED
    BY <1>1, WFMin
<1>3. n \in Nat /\ \A m \in S : m \in Nat /\ ~ (m < n)
  <2>1. S \subseteq Nat
    OBVIOUS
  <2> QED
    BY <1>2, <2>1
<1>4. \A m \in S : n <= m
  BY <1>3
<1> QED
  BY <1>4 DEF Min

LEMMA FirstWithVolume ==
    ASSUME NEW d, NEW mounted, NEW path, NEW uuid,
           NEW v, v = FirstWith(d, mounted, path, uuid), v # NoVolume
    PROVE  v \in Volumes /\ v \in mounted /\ Matches(v, uuid) /\ Opens(d, v, path)
<1> DEFINE has(w) == w \in mounted /\ Matches(w, uuid) /\ Opens(d, w, path)
           I == {i \in 1 .. Len(VolumeOrder) : has(VolumeOrder[i])}
<1> SUFFICES v \in Volumes /\ has(v)
  OBVIOUS
<1>1. CASE has(BootVolume)
  BY <1>1, VolumesAssumption DEF FirstWith
<1>2. CASE ~has(BootVolume) /\ \E w \in Volumes : has(w)
  <2>1. I # {} /\ I \in SUBSET Nat
    BY <1>2, VolumesAssumption DEF Volumes, Range
  <2>2. Min(I) \in I
    BY <2>1, Least
  <2>3. v = VolumeOrder[Min(I)]
    BY <1>2, <2>1 DEF FirstWith, SelectInSeq
  <2> DEFINE i == Min(I)
  <2>4. i \in 1 .. Len(VolumeOrder) /\ has(VolumeOrder[i])
    BY <2>2
  <2> HIDE DEF i, I, has
  <2>5. VolumeOrder[i] \in Volumes
    BY <2>4, VolumesAssumption
  <2> QED
    BY <2>3, <2>4, <2>5 DEF i
<1>3. CASE ~has(BootVolume) /\ ~\E w \in Volumes : has(w)
  BY <1>3 DEF FirstWith
<1> QED
  BY <1>1, <1>2, <1>3

LEMMA FirstWithFinds ==
    ASSUME NEW d, NEW mounted, NEW path, NEW uuid, NEW v \in Volumes,
           v \in mounted, Matches(v, uuid), Opens(d, v, path)
    PROVE  FirstWith(d, mounted, path, uuid) # NoVolume
<1> DEFINE has(w) == w \in mounted /\ Matches(w, uuid) /\ Opens(d, w, path)
           I == {i \in 1 .. Len(VolumeOrder) : has(VolumeOrder[i])}
<1>1. CASE has(BootVolume)
  BY <1>1, VolumesAssumption DEF FirstWith
<1>2. CASE ~has(BootVolume)
  <2>1. PICK j \in 1 .. Len(VolumeOrder) : VolumeOrder[j] = v
    BY VolumesAssumption DEF Volumes, Range
  <2>2. I # {} /\ I \in SUBSET Nat
    BY <2>1
  <2> DEFINE i == Min(I)
  <2>3. i \in 1 .. Len(VolumeOrder)
    BY <2>2, Least
  <2>4. FirstWith(d, mounted, path, uuid) = VolumeOrder[i]
    BY <1>2, <2>2 DEF FirstWith, SelectInSeq
  <2> HIDE DEF i, I, has
  <2> QED
    BY <2>3, <2>4, VolumesAssumption
<1> QED
  BY <1>1, <1>2

LEMMA DevicePathVolume ==
    ASSUME NEW d, NEW sys, NEW path, NEW uuid,
           NEW v, v = DevicePathOf(d, sys, path, uuid), v # NoVolume
    PROVE  v \in Volumes /\ Matches(v, uuid) /\ Opens(d, v, path)
<1> DEFINE has(w) == w \in sys.mounted /\ Matches(w, uuid) /\ Opens(d, w, path)
           named(w) == has(w) /\ w \in PathVolumes
           I == {i \in 1 .. Len(VolumeOrder) : named(VolumeOrder[i])}
<1> SUFFICES v \in Volumes /\ has(v)
  OBVIOUS
<1>1. CASE has(BootVolume)
  BY <1>1, VolumesAssumption DEF DevicePathOf
<1>2. CASE ~has(BootVolume) /\ \E w \in Volumes : named(w)
  <2>1. I # {} /\ I \in SUBSET Nat
    BY <1>2, VolumesAssumption DEF Volumes, Range
  <2> DEFINE i == Min(I)
  <2>2. i \in 1 .. Len(VolumeOrder) /\ has(VolumeOrder[i])
    BY <2>1, Least
  <2>3. v = VolumeOrder[i]
    BY <1>2, <2>1 DEF DevicePathOf, SelectInSeq
  <2> HIDE DEF i, I, has
  <2>4. VolumeOrder[i] \in Volumes
    BY <2>2, VolumesAssumption
  <2> QED
    BY <2>2, <2>3, <2>4
<1>3. CASE ~has(BootVolume) /\ ~\E w \in Volumes : named(w)
  BY <1>3 DEF DevicePathOf
<1> QED
  BY <1>1, <1>2, <1>3

-----------------------------------------------------------------------------
(* The progress of the block probe: every volume is bound or still to come.  *)
Probed(sys) ==
    /\ sys.mounted \subseteq Volumes /\ Volumes \ DriverVolumes \subseteq sys.mounted
    /\ \/ sys.rest = Unprobed
       \/ sys.rest \in Seq(Volumes) /\ Volumes \subseteq sys.mounted \cup Range(sys.rest)

LEMMA FirstProbed == Probed(FirstProbe)
BY DEF Probed, FirstProbe

LEMMA ProbeOrderAll ==
    ASSUME NEW uuid
    PROVE  ProbeOrder(uuid) \in Seq(Volumes) /\ Volumes \subseteq Range(ProbeOrder(uuid))
<1>1. VolumeOrder \in Seq(Volumes) /\ Volumes = Range(VolumeOrder)
  BY VolumesAssumption DEF Volumes
<1>2. CASE uuid \notin Volumes
  BY <1>1, <1>2 DEF ProbeOrder
<1>3. CASE uuid \in Volumes
  <2> DEFINE i == CHOOSE k \in DOMAIN VolumeOrder : VolumeOrder[k] = uuid
             order == [VolumeOrder EXCEPT ![1] = uuid, ![i] = VolumeOrder[1]]
  <2>1. ProbeOrder(uuid) = order
    BY <1>3 DEF ProbeOrder
  <2>2. i \in DOMAIN VolumeOrder /\ VolumeOrder[i] = uuid
    BY <1>1, <1>3 DEF Range
  <2> HIDE DEF i
  <2>3. i \in 1 .. Len(VolumeOrder) /\ 1 \in 1 .. Len(VolumeOrder)
    BY <1>1, <2>2
  <2>4. order \in Seq(Volumes) /\ DOMAIN order = DOMAIN VolumeOrder
    BY <1>1, <1>3, <2>3
  <2>5. ASSUME NEW j \in DOMAIN VolumeOrder
        PROVE  \E k \in DOMAIN order : order[k] = VolumeOrder[j]
    <3>1. CASE j = 1
      BY <2>2, <2>3, <2>4, <3>1
    <3>2. CASE j = i /\ j # 1
      BY <2>2, <2>3, <2>4, <3>2
    <3>3. CASE j # i /\ j # 1
      BY <2>2, <2>4, <3>3
    <3> QED
      BY <3>1, <3>2, <3>3
  <2> HIDE DEF order
  <2>6. Volumes \subseteq Range(order)
    BY <1>1, <2>5 DEF Range
  <2> QED
    BY <2>1, <2>4, <2>6
<1> QED
  BY <1>2, <1>3

LEMMA UntriedAll ==
    ASSUME NEW sys, Probed(sys), NEW uuid
    PROVE  /\ Untried(sys, uuid) \in Seq(Volumes)
           /\ Volumes \subseteq sys.mounted \cup Range(Untried(sys, uuid))
BY ProbeOrderAll DEF Probed, Untried

LEMMA ConnectToKeeps ==
    ASSUME NEW sys, Probed(sys), NEW uuid, NEW n \in 0 .. Len(Untried(sys, uuid))
    PROVE  /\ Probed(ConnectTo(sys, uuid, n))
           /\ sys.mounted \subseteq ConnectTo(sys, uuid, n).mounted
           /\ n = Len(Untried(sys, uuid)) => Volumes \subseteq ConnectTo(sys, uuid, n).mounted
<1> DEFINE todo == Untried(sys, uuid)
           front == SubSeq(todo, 1, n)
           back == SubSeq(todo, n + 1, Len(todo))
<1>1. todo \in Seq(Volumes) /\ Volumes \subseteq sys.mounted \cup Range(todo)
  BY UntriedAll
<1>2. ConnectTo(sys, uuid, n) = [mounted |-> sys.mounted \cup Range(front), rest |-> back]
  BY DEF ConnectTo
<1> HIDE DEF todo
<1>3. n \in 0 .. Len(todo)
  BY DEF todo
<1>4. /\ front \in Seq(Volumes) /\ Len(front) = n
      /\ \A i \in 1 .. n : front[i] = todo[i]
      /\ back \in Seq(Volumes) /\ Len(back) = Len(todo) - n
      /\ \A i \in 1 .. Len(todo) - n : back[i] = todo[n + i]
  BY <1>1, <1>3
<1>5. Range(todo) \subseteq Range(front) \cup Range(back)
  <2> HIDE DEF front, back
  <2> SUFFICES ASSUME NEW i \in 1 .. Len(todo)
               PROVE  todo[i] \in Range(front) \cup Range(back)
    BY <1>1 DEF Range
  <2>1. CASE i <= n
    BY <1>3, <1>4, <2>1 DEF Range
  <2>2. CASE i > n
    <3>1. i - n \in 1 .. Len(todo) - n /\ back[i - n] = todo[i]
      BY <1>1, <1>3, <1>4, <2>2
    <3>2. i - n \in DOMAIN back
      BY <1>4, <3>1
    <3> QED
      BY <3>1, <3>2 DEF Range
  <2> QED
    BY <1>3, <2>1, <2>2
<1> HIDE DEF front, back
<1>6. Range(front) \subseteq Volumes
  BY <1>4 DEF Range
<1>7. n = Len(todo) => Range(back) = {}
  BY <1>1, <1>4 DEF Range
<1>8. Probed(ConnectTo(sys, uuid, n))
  BY <1>1, <1>2, <1>4, <1>5, <1>6 DEF Probed
<1> QED
  BY <1>1, <1>2, <1>5, <1>7, <1>8 DEF todo

-----------------------------------------------------------------------------
(* A search ends with a volume that opens the path, or with every volume     *)
(* bound and none that does.                                                 *)
Finds(d, sys, path, uuid, v) ==
    IF v = NoVolume
    THEN \A w \in Volumes : Matches(w, uuid) => ~Opens(d, w, path)
    ELSE v \in Volumes /\ v \in sys.mounted /\ Matches(v, uuid) /\ Opens(d, v, path)

LEMMA SearchFinds ==
    ASSUME NEW d, NEW sys, Probed(sys), NEW path, NEW uuid
    PROVE  /\ Probed(Search(d, sys, path, uuid).fs)
           /\ Finds(d, Search(d, sys, path, uuid).fs, path, uuid, Search(d, sys, path, uuid).vol)
<1> DEFINE at(t) == FirstWith(d, t.mounted, path, uuid)
           r == Search(d, sys, path, uuid)
<1> SUFFICES Probed(r.fs) /\ Finds(d, r.fs, path, uuid, r.vol)
  OBVIOUS
<1>1. ASSUME NEW t, Probed(t), at(t) # NoVolume \/ Volumes \subseteq t.mounted
      PROVE  Finds(d, t, path, uuid, at(t))
  BY <1>1, FirstWithVolume, FirstWithFinds DEF Finds
<1>2. CASE at(sys) # NoVolume \/ ~MayProbe(sys)
  <2>1. r = [vol |-> at(sys), fs |-> sys]
    BY <1>2 DEF Search
  <2>2. ~MayProbe(sys) => Volumes \subseteq sys.mounted
    BY DEF MayProbe, Probed, Range
  <2> QED
    BY <1>1, <1>2, <2>1, <2>2
<1>3. CASE at(sys) = NoVolume /\ MayProbe(sys)
  <2> DEFINE tries == 0 .. Len(Untried(sys, uuid))
             hits == {m \in tries : at(ConnectTo(sys, uuid, m)) # NoVolume}
             n == IF hits = {} THEN Len(Untried(sys, uuid)) ELSE Min(hits)
             s == ConnectTo(sys, uuid, n)
  <2>1. r = [vol |-> at(s), fs |-> s]
    BY <1>3 DEF Search, Probe
  <2>2. Len(Untried(sys, uuid)) \in Nat
    BY UntriedAll
  <2>3. n \in tries /\ (hits # {} => n \in hits)
    <3>1. CASE hits = {}
      BY <2>2, <3>1
    <3>2. CASE hits # {}
      <4>1. hits \in SUBSET Nat /\ hits \subseteq tries
        BY <2>2
      <4> HIDE DEF hits, tries
      <4> QED
        BY <3>2, <4>1, Least
    <3> QED
      BY <3>1, <3>2
  <2> HIDE DEF n, hits
  <2>4. Probed(s) /\ (hits = {} => Volumes \subseteq s.mounted)
    BY <2>3, ConnectToKeeps DEF n
  <2>5. hits # {} => at(s) # NoVolume
    BY <2>3 DEF hits
  <2> QED
    BY <1>1, <2>1, <2>4, <2>5
<1> QED
  BY <1>2, <1>3

(* What a file was found on is what OnVolume finds there; and the partition  *)
(* uuid= names is found if the file can be read from it.                     *)
FoundOn(d, path, f) ==
    /\ f.vol \in Volumes
    /\ OnVolume(d, f.vol, path).data = f.data /\ OnVolume(d, f.vol, path).path = f.path

LEMMA BySearchFinds ==
    ASSUME NEW d, NEW sys, Probed(sys), NEW path, NEW uuid,
           NEW f, f = BySearch(d, sys, path, uuid)
    PROVE  /\ Probed(f.fs)
           /\ IF f.vol = NoVolume THEN f.data = Missing ELSE FoundOn(d, path, f)
           /\ uuid \in Volumes /\ OnVolume(d, uuid, path).data # Missing => f.vol = uuid
<1> DEFINE first == Search(d, sys, path, uuid)
           second == Search(d, first.fs, HostPath[path], uuid)
<1>1. Probed(first.fs) /\ Finds(d, first.fs, path, uuid, first.vol)
  BY SearchFinds
<1>2. Probed(second.fs) /\ Finds(d, second.fs, HostPath[path], uuid, second.vol)
  BY <1>1, SearchFinds
<1>3. CASE ~(first.vol = NoVolume /\ path \in DOMAIN HostPath)
  <2>1. f = [data |-> IF first.vol = NoVolume THEN Missing ELSE Data(d, first.vol, path),
             path |-> path, vol |-> first.vol, fs |-> first.fs]
    BY <1>3 DEF BySearch
  <2> HIDE DEF first
  <2>2. /\ Probed(f.fs) /\ f.vol = first.vol /\ f.path = path
        /\ f.data = IF first.vol = NoVolume THEN Missing ELSE Data(d, first.vol, path)
    BY <1>1, <2>1
  <2>3. f.vol # NoVolume => FoundOn(d, path, f)
    BY <1>1, <2>2 DEF FoundOn, Finds, OnVolume
  <2>4. ASSUME uuid \in Volumes, OnVolume(d, uuid, path).data # Missing PROVE f.vol = uuid
    <3>1. f.vol # NoVolume => f.vol = uuid
      BY <1>1, <2>2, <2>4, VolumesAssumption DEF Finds, Matches
    <3>2. f.vol = NoVolume => ~Opens(d, uuid, path) /\ path \notin DOMAIN HostPath
      BY <1>1, <1>3, <2>2, <2>4 DEF Finds, Matches
    <3>3. f.vol = NoVolume => FALSE
      BY <2>4, <3>2 DEF OnVolume, Opens, Data
    <3> QED
      BY <3>1, <3>3
  <2> QED
    BY <2>2, <2>3, <2>4
<1>4. CASE first.vol = NoVolume /\ path \in DOMAIN HostPath
  <2>1. f = [data |-> IF second.vol = NoVolume THEN Missing
                      ELSE Data(d, second.vol, HostPath[path]),
             path |-> HostPath[path], vol |-> second.vol, fs |-> second.fs]
    BY <1>4 DEF BySearch
  <2>2. \A w \in Volumes : Matches(w, uuid) => ~Opens(d, w, path)
    BY <1>1, <1>4 DEF Finds
  <2> HIDE DEF first, second
  <2> DEFINE rest == HostPath[path]
  <2>3. /\ Probed(f.fs) /\ f.vol = second.vol /\ f.path = rest
        /\ f.data = IF second.vol = NoVolume THEN Missing ELSE Data(d, second.vol, rest)
    BY <1>2, <2>1
  <2>4. f.vol # NoVolume => FoundOn(d, path, f)
    BY <1>2, <1>4, <2>2, <2>3 DEF FoundOn, Finds, OnVolume
  <2>5. ASSUME uuid \in Volumes, OnVolume(d, uuid, path).data # Missing PROVE f.vol = uuid
    <3>1. f.vol # NoVolume => f.vol = uuid
      BY <1>2, <2>3, <2>5, VolumesAssumption DEF Finds, Matches
    <3>2. f.vol = NoVolume => ~Opens(d, uuid, path) /\ ~Opens(d, uuid, rest)
      BY <1>2, <2>2, <2>3, <2>5 DEF Finds, Matches
    <3>3. f.vol = NoVolume => FALSE
      BY <1>4, <2>5, <3>2 DEF OnVolume, Opens, Data
    <3> QED
      BY <3>1, <3>3
  <2> QED
    BY <2>3, <2>4, <2>5
<1> QED
  BY <1>3, <1>4

LEMMA LoadFromFinds ==
    ASSUME NEW d, NEW sys, Probed(sys), NEW path, NEW uuid \in Volumes \cup {NoVolume},
           NEW own, NEW held \in Volumes \cup {NoVolume},
           NEW f, f = LoadFrom(d, sys, path, uuid, own, held)
    PROVE  /\ Probed(f.fs)
           /\ IF f.data = Missing THEN f.vol \in Volumes \cup {NoVolume} /\ f.keep = held
              ELSE FoundOn(d, path, f)
                   /\ f.keep = IF held = NoVolume THEN f.vol ELSE held
           /\ held # NoVolume /\ OnVolume(d, held, path).data # Missing => f.vol = held
           /\ /\ held = NoVolume /\ own = NoVolume /\ uuid # NoVolume
              /\ OnVolume(d, uuid, path).data # Missing
              => f.vol = uuid
<1> DEFINE on(v) == [data |-> OnVolume(d, v, path).data, path |-> OnVolume(d, v, path).path,
                     vol |-> v, keep |-> IF held = NoVolume THEN v ELSE held, fs |-> sys]
<1>1. own \in sys.mounted => own \in Volumes /\ own # NoVolume
  BY VolumesAssumption DEF Probed
<1>2. CASE held # NoVolume /\ OnVolume(d, held, path).data # Missing
  <2>1. f = on(held)
    BY <1>2 DEF LoadFrom
  <2> QED
    BY <1>2, <2>1 DEF FoundOn
<1>3. CASE /\ ~(held # NoVolume /\ OnVolume(d, held, path).data # Missing)
           /\ own \in sys.mounted /\ OnVolume(d, own, path).data # Missing
  <2>1. f = on(own)
    BY <1>3 DEF LoadFrom
  <2> QED
    BY <1>1, <1>3, <2>1 DEF FoundOn
<1>4. CASE /\ ~(held # NoVolume /\ OnVolume(d, held, path).data # Missing)
           /\ ~(own \in sys.mounted /\ OnVolume(d, own, path).data # Missing)
  <2> DEFINE near == BySearch(d, sys, path, uuid)
             far == BySearch(d, near.fs, path, NoVolume)
             g == IF near.data = Missing /\ uuid # NoVolume THEN far ELSE near
  <2>1. f = IF g.data = Missing
            THEN [data |-> Missing, path |-> path, vol |-> NoVolume, keep |-> held, fs |-> g.fs]
            ELSE [data |-> g.data, path |-> g.path, vol |-> g.vol,
                  keep |-> IF held = NoVolume THEN g.vol ELSE held, fs |-> g.fs]
    BY <1>4 DEF LoadFrom
  <2>2. /\ Probed(near.fs)
        /\ IF near.vol = NoVolume THEN near.data = Missing ELSE FoundOn(d, path, near)
        /\ uuid \in Volumes /\ OnVolume(d, uuid, path).data # Missing => near.vol = uuid
    BY BySearchFinds
  <2>3. /\ Probed(far.fs)
        /\ IF far.vol = NoVolume THEN far.data = Missing ELSE FoundOn(d, path, far)
    BY <2>2, BySearchFinds
  <2> HIDE DEF near, far
  <2>4. /\ Probed(g.fs) /\ (g.data # Missing => FoundOn(d, path, g))
        /\ uuid # NoVolume /\ OnVolume(d, uuid, path).data # Missing
           => g.vol = uuid /\ g.data # Missing
    BY <2>2, <2>3, VolumesAssumption DEF FoundOn
  <2> HIDE DEF g
  <2> QED
    BY <1>4, <2>1, <2>4 DEF FoundOn
<1> QED
  BY <1>2, <1>3, <1>4

LEMMA DataType ==
    ASSUME NEW d \in Disk, NEW v \in Volumes, NEW path \in Files
    PROVE  OnVolume(d, v, path).data \in Contents \cup {Missing}
<1>1. path \in DOMAIN HostPath => HostPath[path] \in Files
  BY VolumesAssumption DEF Range
<1>2. \A p \in Files : d[v][p] \in Contents \cup {Missing, Unreadable}
  BY DEF Disk
<1> QED
  BY <1>1, <1>2 DEF OnVolume, Data

-----------------------------------------------------------------------------
(* The inductive invariant.                                                  *)

(* Where visor_boot works with a kernel that passed sha256= and shim, and    *)
(* where that kernel's image has been accepted.                              *)
Verified == {"cmdline", "path", "pinned", "reread", "buffer", "refused", "initrd",
             "register", "start", "raw", "fallback", "rawinitrd", "rawcmdline"}
Accepted == {"initrd", "register", "start"}

Typing ==
    /\ disk \in Disks /\ policy \in Policies
    /\ entry \in Entries \cup {None} /\ password \in Passwords \cup {None}
    /\ keep \in Volumes \cup {NoVolume} /\ Probed(fs) /\ changes \in Nat
    /\ (pc # "menu" /\ pc # "running") => entry \in Entries

(* Which entry is being worked on, and who has control.                      *)
StageInv ==
    /\ pc \in {"load", "verify"} \cup Verified => entry.kernel # None
    /\ pc = "bootmgr" => entry.kernel = None
    /\ pc # "running" => running = None
    /\ pc = "running" =>
         /\ running.by \in {"firmware", "bootmgr", "pe", "raw"}
         /\ running.by = "bootmgr" => entry.kernel = None

(* An image that may have control.                                           *)
Sound(i) ==
    /\ policy.secureBoot => i.data \in Trusted
    /\ entry.pin # None => i.data = entry.pin

VerifiedInv ==
    /\ pc \in Verified => HashOk
    /\ pc \in Accepted => Sound(image)
    /\ pc = "reread" => entry.pin = None
    /\ pc = "fallback" => ~Unverified
    /\ pc \in {"rawinitrd", "rawcmdline"} => Sound(kernel)
    /\ OnlyVerifiedRuns

(* What the kernel will be given is complete before it is.                   *)
CompleteInv ==
    /\ pc \in Verified \ {"cmdline"} => Measurable(line) \subseteq measured
    /\ pc \in {"register", "rawcmdline"} /\ entry.luks =>
         initrd # None /\ Unpacks(initrd.key)
    /\ pc = "start" /\ entry.luks => offered # None /\ Unpacks(offered.key)
    /\ CompleteHandover

(* Buffers, pages and LoadFile2 exist only where visor_boot still needs them. *)
CleanInv ==
    /\ offered # None => offered = initrd /\ pc \in {"start", "running"}
    /\ pages # {} => pc \in {"rawinitrd", "rawcmdline", "running"}
    /\ initrd # None => pc \in {"register", "start", "rawcmdline", "running"}
    /\ pc = "running" /\ running.by = "bootmgr" => initrd = None
    /\ pc = "menu" /\ entry # None /\ entry.kernel # None => password = None

(* Where the pages of the raw hand-over may lie.                             *)
Placed(h, p) ==
    /\ p.use = "image" =>
         /\ p.first <= p.at /\ p.at + h.init <= p.first + p.size
         /\ p.at % h.align = 0 /\ p.at >= h.pref /\ p.at + h.init <= Limit
    /\ p.use = "initrd" => p.at <= h.initrdMax

PlacedInv ==
    pc \in {"rawinitrd", "rawcmdline"} \/ (pc = "running" /\ running.by = "raw") =>
        \A p \in pages : Placed(SetupOf[kernel.data], p)

(* A boot that Visor owes to a BootNext target that did not start: the mark  *)
(* of the boot before is still there until Visor loads something itself.     *)
Owed == mark # None /\ policy.counter /\ boots = mark + 1

HandoffInv ==
    /\ boots \in Nat /\ mark \in Nat \cup {None} /\ stranded \in Nat \cup {None}
    /\ stranded # None => stranded <= boots
    /\ next # None => pc = "reset"
    /\ pc \in {"bootnext", "reset"} => mark = boots /\ policy.counter
    /\ stranded = boots =>
         \/ pc \in {"bootmgr", "load"}
         \/ Owed /\ pc \notin {"options", "bootnext", "reset"}

(* While no file changes: the volumes that have the kernel, and the initrd   *)
(* beside it.                                                                *)
Wanted(v) ==
    entry.own = NoVolume /\ entry.uuid # NoVolume
    /\ OnVolume(disk, entry.uuid, entry.kernel).data # Missing => v = entry.uuid
Near(v) == v = kernel.vol \/ kernel.vol \notin PathVolumes
Neighbour(i) ==
    i.data # Missing =>
        i.vol = kernel.vol \/ OnVolume(disk, kernel.vol, entry.initrd).data = Missing

VolumesInv ==
    /\ changes = 0 =>
         /\ pc \in {"verify"} \cup Verified =>
              /\ kernel.vol \in Volumes /\ Wanted(kernel.vol)
              /\ OnVolume(disk, kernel.vol, entry.kernel).data # Missing
         /\ pc \in {"verify", "cmdline", "path", "pinned", "reread", "buffer", "initrd"} =>
              keep = kernel.vol
         /\ pc \in {"pinned", "reread"} => Wanted(dp) /\ Near(dp)
         /\ pc \in Accepted => Wanted(image.vol) /\ Near(image.vol)
         /\ pc = "register" => Neighbour(initrd)
         /\ pc = "start" /\ offered # None => Neighbour(offered)
    /\ RightVolumes

IInv ==
    /\ Typing /\ StageInv /\ VerifiedInv /\ CompleteInv /\ CleanInv /\ PlacedInv
    /\ HandoffInv /\ VolumesInv

-----------------------------------------------------------------------------
(* What visor_decrypt_buffer and luks_build_keyfile_archive return.          *)
LEMMA ClearType ==
    ASSUME NEW c \in Contents \cup {Missing}, NEW secret, NEW p
    PROVE  Clear(c, secret, p) \in Contents \cup {Missing}
BY DisksAssumption DEF Clear, Decrypt, Stream

LEMMA CpioNameType ==
    ASSUME NEW path \in Seq(STRING), CpioName(path) # None
    PROVE  CpioName(path) \in Seq(STRING) /\ Len(CpioName(path)) >= 1
BY EntriesAssumption DEF CpioName

(* Every directory above the keyfile is in the archive before it.            *)
LEMMA ArchiveUnpacks ==
    ASSUME NEW e, e.keyPath \in Seq(STRING), NEW p \in Passwords \cup {None},
           Archive(e, p) # None
    PROVE  Archive(e, p) \in Archives /\ Unpacks(Archive(e, p))
<1> DEFINE name == CpioName(e.keyPath)
           n == Len(name)
           archive == Archive(e, p)
<1>1. name # None /\ p \in Passwords /\ p # None
      /\ archive = Parents(name) \o <<CpioEntry(name, p), Trailer>>
  BY NoneAssumption DEF Archive
<1>2. name \in Seq(STRING) /\ n \in Nat /\ n >= 1
  BY <1>1, CpioNameType
<1> HIDE DEF name, archive
<1>3. /\ DOMAIN Parents(name) = 1 .. n - 1
      /\ \A i \in 1 .. n - 1 : Parents(name)[i] = [name |-> SubSeq(name, 1, i), data |-> None]
  BY <1>2 DEF Parents, CpioEntry
<1>4. \A i \in 1 .. n - 1 : SubSeq(name, 1, i) \in Seq(STRING) /\ Len(SubSeq(name, 1, i)) = i
  BY <1>2
<1> DEFINE Member == [name : Seq(STRING), data : Passwords \cup {None}] \cup {Trailer}
<1>5. Parents(name) \in Seq(Member) /\ Len(Parents(name)) = n - 1
  <2>1. \A i \in 1 .. n - 1 : Parents(name)[i] \in Member
    BY <1>3, <1>4
  <2>2. Parents(name) = [i \in 1 .. n - 1 |-> Parents(name)[i]]
    BY <1>3 DEF Parents
  <2> HIDE DEF Member
  <2>3. Parents(name) \in [1 .. n - 1 -> Member]
    BY <2>1, <2>2
  <2> QED
    BY <1>2, <2>3
<1>6. CpioEntry(name, p) \in Member /\ Trailer \in Member
  BY <1>1, <1>2 DEF CpioEntry
<1>7. /\ archive \in Seq(Member) /\ Len(archive) = n + 1
      /\ \A i \in 1 .. n - 1 : archive[i] = Parents(name)[i]
      /\ archive[n] = CpioEntry(name, p) /\ archive[n + 1] = Trailer
  <2> DEFINE tail == <<CpioEntry(name, p), Trailer>>
  <2> HIDE DEF Member
  <2>1. tail \in Seq(Member) /\ Len(tail) = 2 /\ tail[1] = CpioEntry(name, p) /\ tail[2] = Trailer
    BY <1>6
  <2>2. archive = Parents(name) \o tail
    BY <1>1
  <2> DEFINE front == Parents(name)
  <2>3. front \in Seq(Member) /\ Len(front) = n - 1
    BY <1>5
  <2> HIDE DEF tail, n, front
  <2>4. archive = front \o tail
    BY <2>2 DEF front
  <2>5. /\ Len(archive) = n + 1 /\ archive \in Seq(Member)
        /\ \A i \in 1 .. n + 1 : archive[i] = IF i <= n - 1 THEN front[i] ELSE tail[i - (n - 1)]
    <3>1. /\ Len(front \o tail) = Len(front) + Len(tail) /\ front \o tail \in Seq(Member)
          /\ \A i \in 1 .. Len(front) + Len(tail) :
                (front \o tail)[i] = IF i <= Len(front) THEN front[i] ELSE tail[i - Len(front)]
      BY <2>1, <2>3, ConcatProperties
    <3>2. n \in Nat /\ Len(front) + Len(tail) = n + 1
      BY <1>2, <2>1, <2>3
    <3>3. archive \in Seq(Member) /\ Len(archive) = n + 1
      BY <2>4, <3>1, <3>2
    <3>4. \A i \in 1 .. n + 1 : archive[i] = IF i <= n - 1 THEN front[i] ELSE tail[i - (n - 1)]
      BY <2>3, <2>4, <3>1, <3>2
    <3> QED
      BY <3>3, <3>4
  <2>6. \A i \in 1 .. n - 1 : archive[i] = front[i]
    BY <1>2, <2>5
  <2>7. archive[n] = tail[1] /\ archive[n + 1] = tail[2]
    <3>1. n \in 1 .. n + 1 /\ ~(n <= n - 1) /\ n - (n - 1) = 1
      BY <1>2 DEF n
    <3>2. n + 1 \in 1 .. n + 1 /\ ~(n + 1 <= n - 1) /\ n + 1 - (n - 1) = 2
      BY <1>2 DEF n
    <3> QED
      BY <2>5, <3>1, <3>2
  <2> QED
    BY <2>1, <2>5, <2>6, <2>7 DEF front
<1>8. \A i \in 1 .. n : archive[i].name = SubSeq(name, 1, i)
  BY <1>2, <1>3, <1>7, SubSeqFull DEF CpioEntry
<1>9. ASSUME NEW i \in 1 .. n + 1, NEW m \in 1 .. Len(archive[i].name) - 1
      PROVE  \E j \in 1 .. i - 1 : archive[j].name = SubSeq(archive[i].name, 1, m)
  <2>1. CASE i = n + 1
    <3>1. archive[i].name = <<"TRAILER!!!">>
      BY <1>7, <2>1 DEF Trailer, CpioEntry
    <3>2. Len(archive[i].name) = 1
      BY <3>1
    <3> QED
      BY <3>2
  <2>2. CASE i \in 1 .. n
    <3>1. archive[i].name = SubSeq(name, 1, i) /\ m \in 1 .. i - 1
      BY <1>2, <1>4, <1>8, <2>2
    <3>2. archive[m].name = SubSeq(name, 1, m)
      BY <1>2, <1>8, <2>2, <3>1
    <3>3. SubSeq(SubSeq(name, 1, i), 1, m) = SubSeq(name, 1, m)
      BY <1>2, <2>2, <3>1
    <3> QED
      BY <3>1, <3>2, <3>3
  <2> QED
    BY <2>1, <2>2
<1>10. DOMAIN archive = 1 .. n + 1 /\ archive[n].data # None
  <2>1. archive[n].data = p
    BY <1>7 DEF CpioEntry
  <2> HIDE DEF Member, n
  <2>2. DOMAIN archive = 1 .. Len(archive)
    BY <1>7
  <2> QED
    BY <1>1, <1>7, <2>1, <2>2
<1>11. n \in DOMAIN archive
  BY <1>2, <1>10
<1>12. archive # None
  BY DEF archive
<1>13. Unpacks(archive)
  <2> HIDE DEF n, Member
  <2> QED
    BY <1>9, <1>10, <1>11, <1>12 DEF Unpacks
<1> QED
  BY <1>7, <1>13 DEF archive, Archives

-----------------------------------------------------------------------------
(* Where linux_alloc_raw_image may put a kernel.                             *)
LEMMA Aligned ==
    ASSUME NEW b \in Nat, NEW n \in Nat \ {0}
    PROVE  /\ AlignUp(b, n) \in Nat /\ b <= AlignUp(b, n) /\ AlignUp(b, n) <= b + n - 1
           /\ AlignUp(b, n) % n = 0
<1> DEFINE a == b + n - 1
           q == a \div n
<1>1. a \in Nat
  OBVIOUS
<1>2. q \in Nat /\ a < q * n + n /\ q * n <= a /\ (q * n) % n = 0
  BY <1>1
<1>3. AlignUp(b, n) = q * n
  BY DEF AlignUp
<1> HIDE DEF q
<1>4. q * n \in Nat
  BY <1>2
<1> DEFINE up == q * n
<1> HIDE DEF up
<1>5. up \in Nat /\ a < up + n /\ up <= a /\ up % n = 0
  BY <1>2, <1>4 DEF up
<1> QED
  BY <1>3, <1>5 DEF up

LEMMA Divides ==
    ASSUME NEW a \in Nat, NEW m \in Nat \ {0}, NEW n \in Nat \ {0}, m % n = 0, a % m = 0
    PROVE  a % n = 0
<1> DEFINE q == a \div m
           r == m \div n
<1>1. q \in Nat /\ r \in Nat /\ a = m * q /\ m = n * r
  OBVIOUS
<1> HIDE DEF q, r
<1> DEFINE s == r * q
<1>2. s \in Nat /\ a = s * n
  BY <1>1
<1> HIDE DEF s
<1>3. (s * n) % n = 0
  BY <1>2
<1> QED
  BY <1>2, <1>3

LEMMA PlacementsRight ==
    ASSUME NEW c \in BzImages, HeaderOk(SetupOf[c]), NEW p \in Placements(SetupOf[c])
    PROVE  Placed(SetupOf[c], p)
<1> DEFINE h == SetupOf[c]
           n == Alignment(h)
           total == Needed(h) + n - 1
<1>1. /\ h.init \in Nat /\ h.init > 0 /\ h.pref \in Nat /\ h.align \in Nat \ {0}
      /\ n \in Nat \ {0} /\ n % h.align = 0 /\ Limit \in Nat
  <2>1. /\ h.init \in Nat /\ h.pref \in Nat
        /\ h.align \in Nat \ {0} /\ h.minAlign \in Nat \ {0}
        /\ h.align % h.minAlign = 0 \/ h.minAlign % h.align = 0
    BY SetupAssumption
  <2>2. h.init > 0 /\ Limit \in Nat
    BY LimitAssumption DEF HeaderOk
  <2> HIDE DEF h
  <2>3. CASE n = h.align
    BY <2>1, <2>2, <2>3
  <2>4. CASE n = h.minAlign /\ h.minAlign > h.align
    <3>1. h.align % h.minAlign = h.align
      BY <2>1, <2>4
    <3> QED
      BY <2>1, <2>2, <2>4, <3>1
  <2> QED
    BY <2>3, <2>4 DEF Alignment
<1>2. \/ AtPreferred(h) /\ p = Place("image", h.pref, h.pref, total)
      \/ \E b \in 0 .. Limit - total :
            /\ AlignUp(b, n) >= h.pref /\ AlignUp(b, n) + Needed(h) <= Limit
            /\ p = Place("image", AlignUp(b, n), b, total)
  BY DEF Placements
<1> HIDE DEF h, n
<1>3. CASE AtPreferred(h) /\ p = Place("image", h.pref, h.pref, total)
  <2>1. h.pref % n = 0 /\ h.pref + h.init <= Limit
    BY <1>3 DEF AtPreferred, Needed, n
  <2>2. h.pref % h.align = 0
    BY <1>1, <2>1, Divides
  <2> QED
    BY <1>1, <1>3, <2>1, <2>2 DEF Placed, Place, Needed, h
<1>4. ASSUME NEW b \in 0 .. Limit - total,
             AlignUp(b, n) >= h.pref, AlignUp(b, n) + Needed(h) <= Limit,
             p = Place("image", AlignUp(b, n), b, total)
      PROVE  Placed(h, p)
  <2> DEFINE up == AlignUp(b, n)
  <2>1. b \in Nat
    BY <1>1, <1>4 DEF Needed
  <2>2. up \in Nat /\ b <= up /\ up <= b + n - 1 /\ up % n = 0
    BY <1>1, <2>1, Aligned
  <2>3. up % h.align = 0
    BY <1>1, <2>2, Divides
  <2> HIDE DEF up
  <2>4. /\ p.use = "image" /\ p.at = up /\ p.first = b /\ p.size = h.init + n - 1
        /\ up >= h.pref /\ up + h.init <= Limit
    BY <1>4 DEF Place, Needed, up
  <2> QED
    BY <1>1, <2>1, <2>2, <2>3, <2>4 DEF Placed
<1> QED
  BY <1>2, <1>3, <1>4 DEF h

-----------------------------------------------------------------------------
(* Types.                                                                    *)
LEMMA Loaded ==
    ASSUME Typing, entry \in Entries, NEW path, NEW k \in Volumes \cup {NoVolume},
           NEW f, f = LoadFrom(disk, fs, path, entry.uuid, entry.own, k)
    PROVE  /\ Probed(f.fs) /\ f.keep \in Volumes \cup {NoVolume}
           /\ IF f.data = Missing THEN f.vol \in Volumes \cup {NoVolume} /\ f.keep = k
              ELSE /\ f.vol \in Volumes /\ f.keep = IF k = NoVolume THEN f.vol ELSE k
                   /\ OnVolume(disk, f.vol, path).data = f.data
           /\ path \in Files => f.data \in Contents \cup {Missing}
           /\ k # NoVolume /\ OnVolume(disk, k, path).data # Missing => f.vol = k
           /\ /\ k = NoVolume /\ entry.own = NoVolume /\ entry.uuid # NoVolume
              /\ OnVolume(disk, entry.uuid, path).data # Missing
              => f.vol = entry.uuid
<1>1. entry.uuid \in Volumes \cup {NoVolume} /\ disk \in Disk /\ Probed(fs)
  BY EntriesAssumption, DisksAssumption DEF Entry, Typing
<1>2. /\ Probed(f.fs)
      /\ IF f.data = Missing THEN f.vol \in Volumes \cup {NoVolume} /\ f.keep = k
         ELSE FoundOn(disk, path, f) /\ f.keep = IF k = NoVolume THEN f.vol ELSE k
      /\ k # NoVolume /\ OnVolume(disk, k, path).data # Missing => f.vol = k
      /\ /\ k = NoVolume /\ entry.own = NoVolume /\ entry.uuid # NoVolume
         /\ OnVolume(disk, entry.uuid, path).data # Missing
         => f.vol = entry.uuid
  BY <1>1, LoadFromFinds
<1>3. path \in Files => f.data \in Contents \cup {Missing}
  BY <1>1, <1>2, DataType DEF FoundOn
<1> QED
  BY <1>2, <1>3 DEF FoundOn

LEMMA TypingStep ==
    ASSUME Typing, [Next]_vars
    PROVE  Typing'
<1> USE DEF Typing, fixed, world, nvram, loader
<1>1. ASSUME NEW e \in Entries, NEW p \in Passwords \cup {None}, Select(e, p)
      PROVE  Typing'
  BY <1>1 DEF Select
<1>2. CASE CheckMark
  BY <1>2 DEF CheckMark, Chainload
<1>3. ASSUME NEW stored \in BOOLEAN, Mark(stored) PROVE Typing'
  BY <1>3 DEF Mark, Chainload
<1>4. ASSUME NEW stored \in BOOLEAN, SetBootNext(stored) PROVE Typing'
  BY <1>4 DEF SetBootNext, Chainload
<1>5. ASSUME NEW works \in BOOLEAN, Reset(works) PROVE Typing'
  BY <1>5, FirstProbed DEF Reset, PlatformBoot, Fresh
<1>6. ASSUME NEW v \in {"ok", "violation", "error"}, ChainloadBootMgr(v)
      PROVE  Typing'
  BY <1>6 DEF ChainloadBootMgr
<1>7. ASSUME NEW v \in {"ok", "violation", "error"}, LoadPinned(v) PROVE Typing'
  BY <1>7 DEF LoadPinned, Accept, Refused
<1>8. ASSUME NEW v \in {"ok", "violation", "error"}, LoadReread(v) PROVE Typing'
  BY <1>8 DEF LoadReread, Accept, Refused
<1>9. ASSUME NEW v \in {"ok", "violation", "error"}, LoadBuffer(v) PROVE Typing'
  BY <1>9 DEF LoadBuffer, Accept, Refused
<1>10. CASE LoadKernel
  <2>1. PICK f, c :
           /\ f = LoadFrom(disk, fs, entry.kernel, entry.uuid, entry.own, NoVolume)
           /\ fs' = f.fs /\ entry \in Entries
           /\ \/ GiveUp
              \/ keep' = f.keep /\ pc' = "verify" /\ UNCHANGED password
    BY <1>10 DEF LoadKernel
  <2>2. Probed(f.fs) /\ f.keep \in Volumes \cup {NoVolume}
    BY <2>1, Loaded
  <2> QED
    BY <1>10, <2>1, <2>2 DEF LoadKernel, GiveUp
<1>11. CASE Verify
  BY <1>11 DEF Verify, GiveUp
<1>12. CASE Cmdline
  BY <1>12 DEF Cmdline
<1>13. CASE MakePath
  BY <1>13 DEF MakePath
<1>14. CASE LoadRefused
  BY <1>14 DEF LoadRefused, GiveUp
<1>15. CASE LoadInitrd
  <2>1. PICK f, c :
           /\ f = LoadFrom(disk, fs, entry.initrd, entry.uuid, entry.own, keep)
           /\ fs' = f.fs /\ entry \in Entries
           /\ \/ GiveUp
              \/ keep' = f.keep /\ UNCHANGED password
    BY <1>15 DEF LoadInitrd
  <2>2. Probed(f.fs) /\ f.keep \in Volumes \cup {NoVolume}
    BY <2>1, Loaded
  <2>3. UNCHANGED <<disk, policy, changes, entry>>
    BY <1>15 DEF LoadInitrd
  <2>4. entry \in Entries
    BY <1>15 DEF LoadInitrd
  <2> QED
    BY <2>1, <2>2, <2>3, <2>4 DEF GiveUp
<1>16. CASE KeyOnly
  BY <1>16 DEF KeyOnly, GiveUp
<1>17. CASE Start
  BY <1>17 DEF Start
<1>18. ASSUME NEW installed \in BOOLEAN, Register(installed) PROVE Typing'
  BY <1>18 DEF Register, GiveUp
<1>19. CASE RawRefused
  BY <1>19 DEF RawRefused, GiveUp
<1>20. CASE RawFails
  BY <1>20 DEF RawFails, GiveUp
<1>21. CASE RawNoInitrd
  BY <1>21 DEF RawNoInitrd
<1>22. CASE RawStart
  BY <1>22 DEF RawStart
<1>23. ASSUME NEW p, RawImage(p) PROVE Typing'
  BY <1>23 DEF RawImage
<1>24. ASSUME NEW at, RawInitrd(Place("initrd", at, at, 1)) PROVE Typing'
  <2>1. PICK f :
           /\ f = LoadFrom(disk, fs, entry.initrd, entry.uuid, entry.own, NoVolume)
           /\ fs' = f.fs /\ entry \in Entries
    BY <1>24 DEF RawInitrd
  <2>2. Probed(f.fs)
    BY <2>1, Loaded
  <2>3. UNCHANGED <<disk, policy, changes, entry, password, keep>> /\ pc' = "rawcmdline"
    BY <1>24 DEF RawInitrd
  <2> QED
    BY <2>1, <2>2, <2>3
<1>25. CASE ImageReturns
  BY <1>25 DEF ImageReturns, GiveUp
<1>26. ASSUME NEW works \in BOOLEAN, PowerCycle(works) PROVE Typing'
  BY <1>26, FirstProbed DEF PowerCycle, PlatformBoot, Fresh
<1>27. ASSUME NEW d \in Disks, Change(d) PROVE Typing'
  BY <1>27 DEF Change
<1>28. CASE UNCHANGED vars
  BY <1>28 DEF vars
<1> QED
  BY <1>1, <1>2, <1>3, <1>4, <1>5, <1>6, <1>7, <1>8, <1>9, <1>10, <1>11, <1>12,
     <1>13, <1>14, <1>15, <1>16, <1>17, <1>18, <1>19, <1>20, <1>21, <1>22, <1>23,
     <1>24, <1>25, <1>26, <1>27, <1>28 DEF Next, BootVisor


-----------------------------------------------------------------------------
(* Which entry is being worked on.                                           *)
LEMMA StageStep ==
    ASSUME StageInv, [Next]_vars
    PROVE  StageInv'
<1> USE DEF StageInv, Verified, fixed, world, nvram, loader
<1>1. ASSUME NEW e \in Entries, NEW p \in Passwords \cup {None}, Select(e, p)
      PROVE  StageInv'
  BY <1>1 DEF Select
<1>2. CASE CheckMark
  BY <1>2 DEF CheckMark, Chainload
<1>3. ASSUME NEW stored \in BOOLEAN, Mark(stored) PROVE StageInv'
  BY <1>3 DEF Mark, Chainload
<1>4. ASSUME NEW stored \in BOOLEAN, SetBootNext(stored) PROVE StageInv'
  BY <1>4 DEF SetBootNext, Chainload
<1>5. ASSUME NEW works \in BOOLEAN, Reset(works) PROVE StageInv'
  BY <1>5 DEF Reset, PlatformBoot, Fresh
<1>6. ASSUME NEW v \in {"ok", "violation", "error"}, ChainloadBootMgr(v)
      PROVE  StageInv'
  BY <1>6 DEF ChainloadBootMgr
<1>7. ASSUME NEW v \in {"ok", "violation", "error"}, LoadPinned(v) PROVE StageInv'
  BY <1>7 DEF LoadPinned, Accept, Refused
<1>8. ASSUME NEW v \in {"ok", "violation", "error"}, LoadReread(v) PROVE StageInv'
  BY <1>8 DEF LoadReread, Accept, Refused
<1>9. ASSUME NEW v \in {"ok", "violation", "error"}, LoadBuffer(v) PROVE StageInv'
  BY <1>9 DEF LoadBuffer, Accept, Refused
<1>10. CASE LoadKernel
  BY <1>10 DEF LoadKernel, GiveUp
<1>11. CASE Verify
  BY <1>11 DEF Verify, GiveUp
<1>12. CASE Cmdline
  BY <1>12 DEF Cmdline
<1>13. CASE MakePath
  BY <1>13 DEF MakePath
<1>14. CASE LoadRefused
  BY <1>14 DEF LoadRefused, GiveUp
<1>15. CASE LoadInitrd
  BY <1>15 DEF LoadInitrd, GiveUp
<1>16. CASE KeyOnly
  BY <1>16 DEF KeyOnly, GiveUp
<1>17. CASE Start
  BY <1>17 DEF Start
<1>18. ASSUME NEW installed \in BOOLEAN, Register(installed) PROVE StageInv'
  BY <1>18 DEF Register, GiveUp
<1>19. CASE RawRefused
  BY <1>19 DEF RawRefused, GiveUp
<1>20. CASE RawFails
  BY <1>20 DEF RawFails, GiveUp
<1>21. CASE RawNoInitrd
  BY <1>21 DEF RawNoInitrd
<1>22. CASE RawStart
  BY <1>22 DEF RawStart
<1>23. ASSUME NEW p, RawImage(p) PROVE StageInv'
  BY <1>23 DEF RawImage
<1>24. ASSUME NEW at, RawInitrd(Place("initrd", at, at, 1)) PROVE StageInv'
  BY <1>24 DEF RawInitrd
<1>25. CASE ImageReturns
  BY <1>25 DEF ImageReturns, GiveUp
<1>26. ASSUME NEW works \in BOOLEAN, PowerCycle(works) PROVE StageInv'
  BY <1>26 DEF PowerCycle, PlatformBoot, Fresh
<1>27. ASSUME NEW d \in Disks, Change(d) PROVE StageInv'
  BY <1>27 DEF Change
<1>28. CASE UNCHANGED vars
  BY <1>28 DEF vars
<1> QED
  BY <1>1, <1>2, <1>3, <1>4, <1>5, <1>6, <1>7, <1>8, <1>9, <1>10, <1>11, <1>12,
     <1>13, <1>14, <1>15, <1>16, <1>17, <1>18, <1>19, <1>20, <1>21, <1>22, <1>23,
     <1>24, <1>25, <1>26, <1>27, <1>28 DEF Next, BootVisor


-----------------------------------------------------------------------------
(* What was hashed and accepted is what gets control.                        *)
LEMMA VerifiedStep ==
    ASSUME StageInv, VerifiedInv, [Next]_vars
    PROVE  VerifiedInv'
<1> USE DEF StageInv, VerifiedInv, Verified, Accepted, Sound, OnlyVerifiedRuns, ImageRuns,
            HashOk, Unverified, Verdicts, fixed, world, nvram, loader
<1>1. ASSUME NEW e \in Entries, NEW p \in Passwords \cup {None}, Select(e, p)
      PROVE  VerifiedInv'
  BY <1>1 DEF Select
<1>2. CASE CheckMark
  BY <1>2 DEF CheckMark, Chainload
<1>3. ASSUME NEW stored \in BOOLEAN, Mark(stored) PROVE VerifiedInv'
  BY <1>3 DEF Mark, Chainload
<1>4. ASSUME NEW stored \in BOOLEAN, SetBootNext(stored) PROVE VerifiedInv'
  BY <1>4 DEF SetBootNext, Chainload
<1>5. ASSUME NEW works \in BOOLEAN, Reset(works) PROVE VerifiedInv'
  BY <1>5 DEF Reset, PlatformBoot, Fresh
<1>6. ASSUME NEW v \in {"ok", "violation", "error"}, ChainloadBootMgr(v)
      PROVE  VerifiedInv'
  BY <1>6 DEF ChainloadBootMgr
<1>7. ASSUME NEW v \in {"ok", "violation", "error"}, LoadPinned(v)
      PROVE  VerifiedInv'
  BY <1>7 DEF LoadPinned, Accept, Refused, MayReread
<1>8. ASSUME NEW v \in {"ok", "violation", "error"}, LoadReread(v)
      PROVE  VerifiedInv'
  BY <1>8 DEF LoadReread, Accept, Refused
<1>9. ASSUME NEW v \in {"ok", "violation", "error"}, LoadBuffer(v)
      PROVE  VerifiedInv'
  BY <1>9 DEF LoadBuffer, Accept, Refused
<1>10. CASE LoadKernel
  BY <1>10 DEF LoadKernel, GiveUp
<1>11. CASE Verify
  BY <1>11 DEF Verify, GiveUp
<1>12. CASE Cmdline
  BY <1>12 DEF Cmdline
<1>13. CASE MakePath
  BY <1>13 DEF MakePath, KernelPath
<1>14. CASE LoadRefused
  BY <1>14 DEF LoadRefused, GiveUp
<1>15. CASE LoadInitrd
  BY <1>15 DEF LoadInitrd, GiveUp
<1>16. CASE KeyOnly
  BY <1>16 DEF KeyOnly, GiveUp
<1>17. CASE Start
  BY <1>17 DEF Start
<1>18. ASSUME NEW installed \in BOOLEAN, Register(installed) PROVE VerifiedInv'
  BY <1>18 DEF Register, GiveUp
<1>19. CASE RawRefused
  BY <1>19 DEF RawRefused, GiveUp
<1>20. CASE RawFails
  BY <1>20 DEF RawFails, GiveUp
<1>21. CASE RawNoInitrd
  BY <1>21 DEF RawNoInitrd
<1>22. CASE RawStart
  BY <1>22 DEF RawStart
<1>23. ASSUME NEW p, RawImage(p) PROVE VerifiedInv'
  BY <1>23 DEF RawImage
<1>24. ASSUME NEW at, RawInitrd(Place("initrd", at, at, 1)) PROVE VerifiedInv'
  BY <1>24 DEF RawInitrd
<1>25. CASE ImageReturns
  BY <1>25 DEF ImageReturns, GiveUp
<1>26. ASSUME NEW works \in BOOLEAN, PowerCycle(works) PROVE VerifiedInv'
  BY <1>26 DEF PowerCycle, PlatformBoot, Fresh
<1>27. ASSUME NEW d \in Disks, Change(d) PROVE VerifiedInv'
  BY <1>27 DEF Change
<1>28. CASE UNCHANGED vars
  BY <1>28 DEF vars
<1> QED
  BY <1>1, <1>2, <1>3, <1>4, <1>5, <1>6, <1>7, <1>8, <1>9, <1>10, <1>11, <1>12,
     <1>13, <1>14, <1>15, <1>16, <1>17, <1>18, <1>19, <1>20, <1>21, <1>22, <1>23,
     <1>24, <1>25, <1>26, <1>27, <1>28 DEF Next, BootVisor


-----------------------------------------------------------------------------
(* The keyfile and the measured command line.                                *)
LEMMA WithKeyUnpacks ==
    ASSUME entry \in Entries, NEW c \in Contents \cup {Missing},
           NEW v \in Volumes \cup {NoVolume}, NEW p \in Passwords \cup {None},
           NEW i, i = WithKey(entry, c, v, p), entry.luks, Archive(entry, p) # None
    PROVE  i # None /\ Unpacks(i.key)
<1>1. entry.keyPath \in Seq(STRING)
  BY EntriesAssumption DEF Entry
<1>2. Archive(entry, p) \in Archives /\ Unpacks(Archive(entry, p))
  BY <1>1, ArchiveUnpacks
<1>3. i = [data |-> c, vol |-> v, key |-> Archive(entry, p)]
  BY DEF WithKey
<1>4. i \in Initrds
  BY <1>2, <1>3 DEF Initrds
<1> QED
  BY <1>2, <1>3, <1>4, NoneAssumption

LEMMA CompleteStep ==
    ASSUME Typing, StageInv, CompleteInv, [Next]_vars
    PROVE  CompleteInv'
<1> USE DEF StageInv, CompleteInv, Verified, CompleteHandover, LinuxRuns, Measurable,
            fixed, world, nvram, loader
<1>1. ASSUME NEW e \in Entries, NEW p \in Passwords \cup {None}, Select(e, p)
      PROVE  CompleteInv'
  BY <1>1 DEF Select
<1>2. CASE CheckMark
  BY <1>2 DEF CheckMark, Chainload
<1>3. ASSUME NEW stored \in BOOLEAN, Mark(stored) PROVE CompleteInv'
  BY <1>3 DEF Mark, Chainload
<1>4. ASSUME NEW stored \in BOOLEAN, SetBootNext(stored) PROVE CompleteInv'
  BY <1>4 DEF SetBootNext, Chainload
<1>5. ASSUME NEW works \in BOOLEAN, Reset(works) PROVE CompleteInv'
  BY <1>5 DEF Reset, PlatformBoot, Fresh
<1>6. ASSUME NEW v \in {"ok", "violation", "error"}, ChainloadBootMgr(v)
      PROVE  CompleteInv'
  BY <1>6 DEF ChainloadBootMgr
<1>7. ASSUME NEW v \in {"ok", "violation", "error"}, LoadPinned(v)
      PROVE  CompleteInv'
  BY <1>7 DEF LoadPinned, Accept, Refused
<1>8. ASSUME NEW v \in {"ok", "violation", "error"}, LoadReread(v)
      PROVE  CompleteInv'
  BY <1>8 DEF LoadReread, Accept, Refused
<1>9. ASSUME NEW v \in {"ok", "violation", "error"}, LoadBuffer(v)
      PROVE  CompleteInv'
  BY <1>9 DEF LoadBuffer, Accept, Refused
<1>10. CASE LoadKernel
  BY <1>10 DEF LoadKernel, GiveUp
<1>11. CASE Verify
  BY <1>11 DEF Verify, GiveUp
<1>12. CASE Cmdline
  BY <1>12 DEF Cmdline
<1>13. CASE MakePath
  BY <1>13 DEF MakePath
<1>14. CASE LoadRefused
  BY <1>14 DEF LoadRefused, GiveUp
<1>15. CASE LoadInitrd
  <2>1. PICK f, c :
           /\ f = LoadFrom(disk, fs, entry.initrd, entry.uuid, entry.own, keep)
           /\ c = Clear(f.data, entry.initrdSealed, password)
           /\ entry \in Entries /\ entry.initrd # None /\ pc = "initrd"
           /\ \/ GiveUp
              \/ /\ ~(c = Missing /\ InitrdRequired) /\ (c = Missing \/ ~AppendFails(entry, password))
                 /\ initrd' = IF c = Missing THEN None ELSE WithKey(entry, c, f.vol, password)
                 /\ pc' = IF c = Missing THEN "start" ELSE "register"
                 /\ UNCHANGED line
    BY <1>15 DEF LoadInitrd, Typing
  <2>2. UNCHANGED <<policy, entry, measured, offered, running>>
    BY <1>15 DEF LoadInitrd
  <2>3. CASE GiveUp
    BY <2>1, <2>2, <2>3 DEF GiveUp
  <2>4. CASE c = Missing /\ pc' = "start" /\ ~entry.luks /\ UNCHANGED line
    BY <2>1, <2>2, <2>4
  <2>5. CASE /\ pc' = "register" /\ UNCHANGED line
             /\ initrd' = WithKey(entry, c, f.vol, password)
             /\ ~AppendFails(entry, password)
    <3>1. f.vol \in Volumes \cup {NoVolume} /\ f.data \in Contents \cup {Missing}
      BY <2>1, Loaded, EntriesAssumption DEF Typing, Entry
    <3>2. c \in Contents \cup {Missing} /\ password \in Passwords \cup {None}
      BY <2>1, <3>1, ClearType DEF Typing
    <3>3. entry.luks => initrd' # None /\ Unpacks(initrd'.key)
      BY <2>1, <2>5, <3>1, <3>2, WithKeyUnpacks DEF AppendFails
    <3> QED
      BY <2>1, <2>2, <2>5, <3>3
  <2> QED
    BY <2>1, <2>3, <2>4, <2>5 DEF InitrdRequired
<1>16. CASE KeyOnly
  <2>1. UNCHANGED <<policy, entry, measured, offered, running>> /\ entry \in Entries
        /\ pc = "initrd"
    BY <1>16 DEF KeyOnly, Typing
  <2>2. CASE GiveUp
    BY <2>1, <2>2 DEF GiveUp
  <2>3. CASE ~entry.luks /\ pc' = "start" /\ UNCHANGED line
    BY <2>1, <2>3
  <2>4. CASE /\ entry.luks /\ Archive(entry, password) # None
             /\ initrd' = [data |-> Missing, vol |-> NoVolume, key |-> Archive(entry, password)]
             /\ pc' = "register" /\ UNCHANGED line
    <3>1. initrd' = WithKey(entry, Missing, NoVolume, password)
      BY <2>4 DEF WithKey
    <3>2. initrd' # None /\ Unpacks(initrd'.key)
      BY <2>1, <2>4, <3>1, WithKeyUnpacks DEF Typing
    <3> QED
      BY <2>1, <2>4, <3>2
  <2> QED
    BY <1>16, <2>2, <2>3, <2>4 DEF KeyOnly
<1>17. CASE Start
  BY <1>17 DEF Start
<1>18. ASSUME NEW installed \in BOOLEAN, Register(installed) PROVE CompleteInv'
  BY <1>18 DEF Register, GiveUp
<1>19. CASE RawRefused
  BY <1>19 DEF RawRefused, GiveUp
<1>20. CASE RawFails
  BY <1>20 DEF RawFails, GiveUp
<1>21. CASE RawNoInitrd
  BY <1>21 DEF RawNoInitrd
<1>22. CASE RawStart
  BY <1>22 DEF RawStart
<1>23. ASSUME NEW p, RawImage(p) PROVE CompleteInv'
  BY <1>23 DEF RawImage
<1>24. ASSUME NEW at, RawInitrd(Place("initrd", at, at, 1)) PROVE CompleteInv'
  <2>1. PICK f, c :
           /\ f = LoadFrom(disk, fs, entry.initrd, entry.uuid, entry.own, NoVolume)
           /\ c = Clear(f.data, entry.initrdSealed, password)
           /\ ~AppendFails(entry, password) /\ initrd' = WithKey(entry, c, f.vol, password)
    BY <1>24 DEF RawInitrd
  <2>2. /\ UNCHANGED <<policy, entry, measured, offered, running, line>> /\ pc' = "rawcmdline"
        /\ entry \in Entries /\ entry.initrd # None /\ pc = "rawinitrd"
    BY <1>24 DEF RawInitrd, Typing
  <2>3. f.vol \in Volumes \cup {NoVolume} /\ f.data \in Contents \cup {Missing}
    BY <2>1, <2>2, Loaded, EntriesAssumption DEF Entry
  <2>4. c \in Contents \cup {Missing} /\ password \in Passwords \cup {None}
    BY <2>1, <2>3, ClearType DEF Typing
  <2>5. entry.luks => initrd' # None /\ Unpacks(initrd'.key)
    BY <2>1, <2>2, <2>3, <2>4, WithKeyUnpacks DEF AppendFails
  <2> QED
    BY <2>2, <2>5
<1>25. CASE ImageReturns
  BY <1>25 DEF ImageReturns, GiveUp
<1>26. ASSUME NEW works \in BOOLEAN, PowerCycle(works) PROVE CompleteInv'
  BY <1>26 DEF PowerCycle, PlatformBoot, Fresh
<1>27. ASSUME NEW d \in Disks, Change(d) PROVE CompleteInv'
  BY <1>27 DEF Change
<1>28. CASE UNCHANGED vars
  BY <1>28 DEF vars
<1> QED
  BY <1>1, <1>2, <1>3, <1>4, <1>5, <1>6, <1>7, <1>8, <1>9, <1>10, <1>11, <1>12,
     <1>13, <1>14, <1>15, <1>16, <1>17, <1>18, <1>19, <1>20, <1>21, <1>22, <1>23,
     <1>24, <1>25, <1>26, <1>27, <1>28 DEF Next, BootVisor


-----------------------------------------------------------------------------
(* Nothing is left behind.                                                   *)
LEMMA CleanStep ==
    ASSUME StageInv, CleanInv, [Next]_vars
    PROVE  CleanInv'
<1> USE DEF StageInv, CleanInv, Verified, fixed, world, nvram, loader
<1>1. ASSUME NEW e \in Entries, NEW p \in Passwords \cup {None}, Select(e, p)
      PROVE  CleanInv'
  BY <1>1 DEF Select
<1>2. CASE CheckMark
  BY <1>2 DEF CheckMark, Chainload
<1>3. ASSUME NEW stored \in BOOLEAN, Mark(stored) PROVE CleanInv'
  BY <1>3 DEF Mark, Chainload
<1>4. ASSUME NEW stored \in BOOLEAN, SetBootNext(stored) PROVE CleanInv'
  BY <1>4 DEF SetBootNext, Chainload
<1>5. ASSUME NEW works \in BOOLEAN, Reset(works) PROVE CleanInv'
  BY <1>5 DEF Reset, PlatformBoot, Fresh
<1>6. ASSUME NEW v \in {"ok", "violation", "error"}, ChainloadBootMgr(v)
      PROVE  CleanInv'
  BY <1>6 DEF ChainloadBootMgr
<1>7. ASSUME NEW v \in {"ok", "violation", "error"}, LoadPinned(v) PROVE CleanInv'
  BY <1>7 DEF LoadPinned, Accept, Refused
<1>8. ASSUME NEW v \in {"ok", "violation", "error"}, LoadReread(v) PROVE CleanInv'
  BY <1>8 DEF LoadReread, Accept, Refused
<1>9. ASSUME NEW v \in {"ok", "violation", "error"}, LoadBuffer(v) PROVE CleanInv'
  BY <1>9 DEF LoadBuffer, Accept, Refused
<1>10. CASE LoadKernel
  BY <1>10 DEF LoadKernel, GiveUp
<1>11. CASE Verify
  BY <1>11 DEF Verify, GiveUp
<1>12. CASE Cmdline
  BY <1>12 DEF Cmdline
<1>13. CASE MakePath
  BY <1>13 DEF MakePath
<1>14. CASE LoadRefused
  BY <1>14 DEF LoadRefused, GiveUp
<1>15. CASE LoadInitrd
  BY <1>15 DEF LoadInitrd, GiveUp
<1>16. CASE KeyOnly
  BY <1>16 DEF KeyOnly, GiveUp
<1>17. CASE Start
  BY <1>17 DEF Start
<1>18. ASSUME NEW installed \in BOOLEAN, Register(installed) PROVE CleanInv'
  BY <1>18 DEF Register, GiveUp
<1>19. CASE RawRefused
  BY <1>19 DEF RawRefused, GiveUp
<1>20. CASE RawFails
  BY <1>20 DEF RawFails, GiveUp
<1>21. CASE RawNoInitrd
  BY <1>21 DEF RawNoInitrd
<1>22. CASE RawStart
  BY <1>22 DEF RawStart
<1>23. ASSUME NEW p, RawImage(p) PROVE CleanInv'
  BY <1>23 DEF RawImage
<1>24. ASSUME NEW at, RawInitrd(Place("initrd", at, at, 1)) PROVE CleanInv'
  BY <1>24 DEF RawInitrd
<1>25. CASE ImageReturns
  BY <1>25 DEF ImageReturns, GiveUp
<1>26. ASSUME NEW works \in BOOLEAN, PowerCycle(works) PROVE CleanInv'
  BY <1>26 DEF PowerCycle, PlatformBoot, Fresh
<1>27. ASSUME NEW d \in Disks, Change(d) PROVE CleanInv'
  BY <1>27 DEF Change
<1>28. CASE UNCHANGED vars
  BY <1>28 DEF vars
<1> QED
  BY <1>1, <1>2, <1>3, <1>4, <1>5, <1>6, <1>7, <1>8, <1>9, <1>10, <1>11, <1>12,
     <1>13, <1>14, <1>15, <1>16, <1>17, <1>18, <1>19, <1>20, <1>21, <1>22, <1>23,
     <1>24, <1>25, <1>26, <1>27, <1>28 DEF Next, BootVisor


-----------------------------------------------------------------------------
(* The raw kernel's pages.                                                   *)
LEMMA PlacedStep ==
    ASSUME StageInv, PlacedInv, [Next]_vars
    PROVE  PlacedInv'
<1> USE DEF StageInv, PlacedInv, fixed, world, nvram, loader
<1>1. ASSUME NEW e \in Entries, NEW p \in Passwords \cup {None}, Select(e, p)
      PROVE  PlacedInv'
  BY <1>1 DEF Select
<1>2. CASE CheckMark
  BY <1>2 DEF CheckMark, Chainload
<1>3. ASSUME NEW stored \in BOOLEAN, Mark(stored) PROVE PlacedInv'
  BY <1>3 DEF Mark, Chainload
<1>4. ASSUME NEW stored \in BOOLEAN, SetBootNext(stored) PROVE PlacedInv'
  BY <1>4 DEF SetBootNext, Chainload
<1>5. ASSUME NEW works \in BOOLEAN, Reset(works) PROVE PlacedInv'
  BY <1>5 DEF Reset, PlatformBoot, Fresh
<1>6. ASSUME NEW v \in {"ok", "violation", "error"}, ChainloadBootMgr(v)
      PROVE  PlacedInv'
  BY <1>6 DEF ChainloadBootMgr
<1>7. ASSUME NEW v \in {"ok", "violation", "error"}, LoadPinned(v) PROVE PlacedInv'
  BY <1>7 DEF LoadPinned, Accept, Refused
<1>8. ASSUME NEW v \in {"ok", "violation", "error"}, LoadReread(v) PROVE PlacedInv'
  BY <1>8 DEF LoadReread, Accept, Refused
<1>9. ASSUME NEW v \in {"ok", "violation", "error"}, LoadBuffer(v) PROVE PlacedInv'
  BY <1>9 DEF LoadBuffer, Accept, Refused
<1>10. CASE LoadKernel
  BY <1>10 DEF LoadKernel, GiveUp
<1>11. CASE Verify
  BY <1>11 DEF Verify, GiveUp
<1>12. CASE Cmdline
  BY <1>12 DEF Cmdline
<1>13. CASE MakePath
  BY <1>13 DEF MakePath
<1>14. CASE LoadRefused
  BY <1>14 DEF LoadRefused, GiveUp
<1>15. CASE LoadInitrd
  BY <1>15 DEF LoadInitrd, GiveUp
<1>16. CASE KeyOnly
  BY <1>16 DEF KeyOnly, GiveUp
<1>17. CASE Start
  BY <1>17 DEF Start
<1>18. ASSUME NEW installed \in BOOLEAN, Register(installed) PROVE PlacedInv'
  BY <1>18 DEF Register, GiveUp
<1>19. CASE RawRefused
  BY <1>19 DEF RawRefused, GiveUp
<1>20. CASE RawFails
  BY <1>20 DEF RawFails, GiveUp
<1>21. CASE RawNoInitrd
  BY <1>21 DEF RawNoInitrd
<1>22. CASE RawStart
  BY <1>22 DEF RawStart
<1>23. ASSUME NEW p, RawImage(p) PROVE PlacedInv'
  BY <1>23, PlacementsRight DEF RawImage
<1>24. ASSUME NEW at, RawInitrd(Place("initrd", at, at, 1)) PROVE PlacedInv'
  BY <1>24 DEF RawInitrd, Place, Placed
<1>25. CASE ImageReturns
  BY <1>25 DEF ImageReturns, GiveUp
<1>26. ASSUME NEW works \in BOOLEAN, PowerCycle(works) PROVE PlacedInv'
  BY <1>26 DEF PowerCycle, PlatformBoot, Fresh
<1>27. ASSUME NEW d \in Disks, Change(d) PROVE PlacedInv'
  BY <1>27 DEF Change
<1>28. CASE UNCHANGED vars
  BY <1>28 DEF vars
<1> QED
  BY <1>1, <1>2, <1>3, <1>4, <1>5, <1>6, <1>7, <1>8, <1>9, <1>10, <1>11, <1>12,
     <1>13, <1>14, <1>15, <1>16, <1>17, <1>18, <1>19, <1>20, <1>21, <1>22, <1>23,
     <1>24, <1>25, <1>26, <1>27, <1>28 DEF Next, BootVisor


-----------------------------------------------------------------------------
(* The mark of the boot before.                                              *)
LEMMA HandoffStep ==
    ASSUME HandoffInv, [Next]_vars
    PROVE  HandoffInv'
<1> USE NoneAssumption DEF HandoffInv, Owed, fixed, world, nvram, loader
<1>1. ASSUME NEW e \in Entries, NEW p \in Passwords \cup {None}, Select(e, p)
      PROVE  HandoffInv'
  BY <1>1 DEF Select
<1>2. CASE CheckMark
  BY <1>2 DEF CheckMark, Chainload, JustFailed
<1>3. ASSUME NEW stored \in BOOLEAN, Mark(stored) PROVE HandoffInv'
  BY <1>3 DEF Mark, Chainload
<1>4. ASSUME NEW stored \in BOOLEAN, SetBootNext(stored) PROVE HandoffInv'
  BY <1>4 DEF SetBootNext, Chainload
<1>5. ASSUME NEW works \in BOOLEAN, Reset(works) PROVE HandoffInv'
  BY <1>5 DEF Reset, PlatformBoot, Fresh
<1>6. ASSUME NEW v \in {"ok", "violation", "error"}, ChainloadBootMgr(v)
      PROVE  HandoffInv'
  BY <1>6 DEF ChainloadBootMgr
<1>7. ASSUME NEW v \in {"ok", "violation", "error"}, LoadPinned(v) PROVE HandoffInv'
  BY <1>7 DEF LoadPinned, Accept, Refused
<1>8. ASSUME NEW v \in {"ok", "violation", "error"}, LoadReread(v) PROVE HandoffInv'
  BY <1>8 DEF LoadReread, Accept, Refused
<1>9. ASSUME NEW v \in {"ok", "violation", "error"}, LoadBuffer(v) PROVE HandoffInv'
  BY <1>9 DEF LoadBuffer, Accept, Refused
<1>10. CASE LoadKernel
  BY <1>10 DEF LoadKernel, GiveUp
<1>11. CASE Verify
  BY <1>11 DEF Verify, GiveUp
<1>12. CASE Cmdline
  BY <1>12 DEF Cmdline
<1>13. CASE MakePath
  BY <1>13 DEF MakePath
<1>14. CASE LoadRefused
  BY <1>14 DEF LoadRefused, GiveUp
<1>15. CASE LoadInitrd
  BY <1>15 DEF LoadInitrd, GiveUp
<1>16. CASE KeyOnly
  BY <1>16 DEF KeyOnly, GiveUp
<1>17. CASE Start
  BY <1>17 DEF Start
<1>18. ASSUME NEW installed \in BOOLEAN, Register(installed) PROVE HandoffInv'
  BY <1>18 DEF Register, GiveUp
<1>19. CASE RawRefused
  BY <1>19 DEF RawRefused, GiveUp
<1>20. CASE RawFails
  BY <1>20 DEF RawFails, GiveUp
<1>21. CASE RawNoInitrd
  BY <1>21 DEF RawNoInitrd
<1>22. CASE RawStart
  BY <1>22 DEF RawStart
<1>23. ASSUME NEW p, RawImage(p) PROVE HandoffInv'
  BY <1>23 DEF RawImage
<1>24. ASSUME NEW at, RawInitrd(Place("initrd", at, at, 1)) PROVE HandoffInv'
  BY <1>24 DEF RawInitrd
<1>25. CASE ImageReturns
  BY <1>25 DEF ImageReturns, GiveUp
<1>26. ASSUME NEW works \in BOOLEAN, PowerCycle(works) PROVE HandoffInv'
  BY <1>26 DEF PowerCycle, PlatformBoot, Fresh
<1>27. ASSUME NEW d \in Disks, Change(d) PROVE HandoffInv'
  BY <1>27 DEF Change
<1>28. CASE UNCHANGED vars
  BY <1>28 DEF vars
<1> QED
  BY <1>1, <1>2, <1>3, <1>4, <1>5, <1>6, <1>7, <1>8, <1>9, <1>10, <1>11, <1>12,
     <1>13, <1>14, <1>15, <1>16, <1>17, <1>18, <1>19, <1>20, <1>21, <1>22, <1>23,
     <1>24, <1>25, <1>26, <1>27, <1>28 DEF Next, BootVisor


-----------------------------------------------------------------------------
(* The volumes.                                                              *)
LEMMA VolumesStep ==
    ASSUME Typing, StageInv, CleanInv, VolumesInv, [Next]_vars
    PROVE  VolumesInv'
<1> USE DEF StageInv, VolumesInv, Verified, Accepted, Wanted, Near, Neighbour, RightVolumes, LinuxRuns,
            fixed, world, nvram, loader
<1>1. ASSUME NEW e \in Entries, NEW p \in Passwords \cup {None}, Select(e, p)
      PROVE  VolumesInv'
  BY <1>1 DEF Select
<1>2. CASE CheckMark
  BY <1>2 DEF CheckMark, Chainload
<1>3. ASSUME NEW stored \in BOOLEAN, Mark(stored) PROVE VolumesInv'
  BY <1>3 DEF Mark, Chainload
<1>4. ASSUME NEW stored \in BOOLEAN, SetBootNext(stored) PROVE VolumesInv'
  BY <1>4 DEF SetBootNext, Chainload
<1>5. ASSUME NEW works \in BOOLEAN, Reset(works) PROVE VolumesInv'
  BY <1>5 DEF Reset, PlatformBoot, Fresh
<1>6. ASSUME NEW v \in {"ok", "violation", "error"}, ChainloadBootMgr(v)
      PROVE  VolumesInv'
  BY <1>6 DEF ChainloadBootMgr
<1>7. ASSUME NEW v \in {"ok", "violation", "error"}, LoadPinned(v) PROVE VolumesInv'
  BY <1>7 DEF LoadPinned, Accept, Refused
<1>8. ASSUME NEW v \in {"ok", "violation", "error"}, LoadReread(v) PROVE VolumesInv'
  BY <1>8 DEF LoadReread, Accept, Refused
<1>9. ASSUME NEW v \in {"ok", "violation", "error"}, LoadBuffer(v) PROVE VolumesInv'
  BY <1>9 DEF LoadBuffer, Accept, Refused
<1>10. CASE LoadKernel
  <2>1. PICK f, c :
           /\ f = LoadFrom(disk, fs, entry.kernel, entry.uuid, entry.own, NoVolume)
           /\ c = Clear(f.data, entry.sealed, password)
           /\ \/ GiveUp
              \/ /\ c # Missing /\ keep' = f.keep /\ pc' = "verify"
                 /\ kernel' = [data |-> c, path |-> f.path, vol |-> f.vol]
    BY <1>10 DEF LoadKernel
  <2>2. UNCHANGED <<disk, changes, entry, image, offered, running>> /\ entry \in Entries /\ pc = "load"
    BY <1>10 DEF LoadKernel, Typing
  <2>3. CASE GiveUp
    BY <2>2, <2>3 DEF GiveUp
  <2>4. CASE /\ c # Missing /\ keep' = f.keep /\ pc' = "verify"
             /\ kernel' = [data |-> c, path |-> f.path, vol |-> f.vol]
    <3>1. f.data # Missing
      BY <2>1, <2>4 DEF Clear
    <3>2. /\ f.vol \in Volumes /\ f.keep = f.vol
          /\ OnVolume(disk, f.vol, entry.kernel).data # Missing /\ Wanted(f.vol)
      BY <2>1, <2>2, <3>1, Loaded
    <3>3. kernel'.vol = f.vol /\ keep' = f.vol
      BY <2>4, <3>2
    <3> QED
      BY <2>2, <2>4, <3>2, <3>3
  <2> QED
    BY <2>1, <2>3, <2>4
<1>11. CASE Verify
  BY <1>11 DEF Verify, GiveUp
<1>12. CASE Cmdline
  BY <1>12 DEF Cmdline
<1>13. CASE MakePath
  <2>1. /\ UNCHANGED <<disk, changes, entry, kernel, keep, image, offered, running>>
        /\ pc = "path" /\ pc' \in {"buffer", "pinned"} /\ dp' = KernelPath
        /\ pc' = "pinned" => KernelPath # NoVolume
    BY <1>13 DEF MakePath
  <2>2. ASSUME changes = 0, KernelPath # NoVolume PROVE Wanted(KernelPath) /\ Near(KernelPath)
    <3>1. CASE KernelPath = keep
      BY <2>1, <2>2, <3>1
    <3>2. CASE keep \notin PathVolumes /\ entry.own \in fs.mounted
      BY <2>1, <2>2, <3>2, VolumesAssumption DEF Typing, Probed
    <3>3. CASE /\ keep \notin PathVolumes
               /\ KernelPath = DevicePathOf(disk, fs, kernel.path, entry.uuid)
      <4>1. Matches(KernelPath, entry.uuid)
        BY <2>2, <3>3, DevicePathVolume
      <4> QED
        BY <2>1, <2>2, <3>3, <4>1 DEF Matches
    <3> QED
      BY <2>2, <3>1, <3>2, <3>3 DEF KernelPath
  <2> QED
    BY <2>1, <2>2
<1>14. CASE LoadRefused
  BY <1>14 DEF LoadRefused, GiveUp
<1>15. CASE LoadInitrd
  <2>1. PICK f, c :
           /\ f = LoadFrom(disk, fs, entry.initrd, entry.uuid, entry.own, keep)
           /\ \/ GiveUp
              \/ /\ initrd' = IF c = Missing THEN None ELSE WithKey(entry, c, f.vol, password)
                 /\ keep' = f.keep
                 /\ pc' = IF c = Missing THEN "start" ELSE "register"
                 /\ UNCHANGED kernel
    BY <1>15 DEF LoadInitrd
  <2>2. UNCHANGED <<disk, changes, entry, image, offered, running>> /\ entry \in Entries
        /\ pc = "initrd"
    BY <1>15 DEF LoadInitrd, Typing
  <2>3. offered = None
    BY <2>2 DEF CleanInv
  <2>4. CASE GiveUp
    BY <2>2, <2>4 DEF GiveUp
  <2>5. CASE pc' = "start" /\ UNCHANGED kernel
    BY <2>2, <2>3, <2>5
  <2>6. CASE /\ initrd' = WithKey(entry, c, f.vol, password) /\ UNCHANGED kernel
             /\ pc' = "register"
    <3>1. keep \in Volumes \cup {NoVolume}
      BY DEF Typing
    <3>2. changes = 0 => f.vol = kernel.vol \/ OnVolume(disk, kernel.vol, entry.initrd).data = Missing
      BY <2>1, <2>2, <3>1, Loaded, VolumesAssumption
    <3>3. initrd'.vol = f.vol
      BY <2>6 DEF WithKey
    <3> QED
      BY <2>2, <2>6, <3>2, <3>3
  <2> QED
    BY <2>1, <2>4, <2>5, <2>6
<1>16. CASE KeyOnly
  <2>1. UNCHANGED <<disk, changes, entry, image, offered, running>> /\ pc = "initrd"
    BY <1>16 DEF KeyOnly
  <2>2. offered = None
    BY <2>1 DEF CleanInv
  <2>3. CASE GiveUp
    BY <2>1, <2>3 DEF GiveUp
  <2>4. CASE pc' = "start" /\ UNCHANGED kernel
    BY <2>1, <2>2, <2>4
  <2>5. CASE /\ initrd' = [data |-> Missing, vol |-> NoVolume, key |-> Archive(entry, password)]
             /\ pc' = "register" /\ UNCHANGED kernel
    <3>1. initrd'.data = Missing
      BY <2>5
    <3> QED
      BY <2>1, <2>5, <3>1
  <2> QED
    BY <1>16, <2>3, <2>4, <2>5 DEF KeyOnly
<1>17. CASE Start
  BY <1>17 DEF Start
<1>18. ASSUME NEW installed \in BOOLEAN, Register(installed) PROVE VolumesInv'
  BY <1>18 DEF Register, GiveUp
<1>19. CASE RawRefused
  BY <1>19 DEF RawRefused, GiveUp
<1>20. CASE RawFails
  BY <1>20 DEF RawFails, GiveUp
<1>21. CASE RawNoInitrd
  BY <1>21 DEF RawNoInitrd
<1>22. CASE RawStart
  BY <1>22 DEF RawStart
<1>23. ASSUME NEW p, RawImage(p) PROVE VolumesInv'
  BY <1>23 DEF RawImage
<1>24. ASSUME NEW at, RawInitrd(Place("initrd", at, at, 1)) PROVE VolumesInv'
  BY <1>24 DEF RawInitrd
<1>25. CASE ImageReturns
  BY <1>25 DEF ImageReturns, GiveUp
<1>26. ASSUME NEW works \in BOOLEAN, PowerCycle(works) PROVE VolumesInv'
  BY <1>26 DEF PowerCycle, PlatformBoot, Fresh
<1>27. ASSUME NEW d \in Disks, Change(d) PROVE VolumesInv'
  <2>1. changes' # 0 /\ UNCHANGED <<running, pc>>
    BY <1>27 DEF Change, Typing
  <2> QED
    BY <2>1
<1>28. CASE UNCHANGED vars
  BY <1>28 DEF vars
<1> QED
  BY <1>1, <1>2, <1>3, <1>4, <1>5, <1>6, <1>7, <1>8, <1>9, <1>10, <1>11, <1>12,
     <1>13, <1>14, <1>15, <1>16, <1>17, <1>18, <1>19, <1>20, <1>21, <1>22, <1>23,
     <1>24, <1>25, <1>26, <1>27, <1>28 DEF Next, BootVisor

-----------------------------------------------------------------------------
(* The invariant.                                                            *)
LEMMA InitInv == Init => IInv
<1> SUFFICES ASSUME Init PROVE IInv
  OBVIOUS
<1>1. Typing
  BY FirstProbed DEF Init, Typing
<1>2. StageInv /\ HandoffInv
  BY NoneAssumption DEF Init, StageInv, HandoffInv, Verified
<1>3. VerifiedInv /\ CleanInv
  BY DEF Init, VerifiedInv, CleanInv, Verified, Accepted, OnlyVerifiedRuns, ImageRuns
<1>4. CompleteInv /\ PlacedInv
  BY DEF Init, CompleteInv, PlacedInv, Verified, CompleteHandover, LinuxRuns
<1>5. VolumesInv
  BY DEF Init, VolumesInv, Verified, Accepted, RightVolumes, LinuxRuns
<1> QED
  BY <1>1, <1>2, <1>3, <1>4, <1>5 DEF IInv

LEMMA Inductive == IInv /\ [Next]_vars => IInv'
BY TypingStep, StageStep, VerifiedStep, CompleteStep, CleanStep, PlacedStep, HandoffStep,
   VolumesStep DEF IInv

THEOREM Invariant == Spec => []IInv
BY InitInv, Inductive, PTL DEF Spec


-----------------------------------------------------------------------------
(* Secure Boot and sha256=: whatever LoadImage answers and however often it  *)
(* is asked, the image visor_boot starts is an accepted and pinned one.      *)
THEOREM SpecOnlyVerifiedRuns == Spec => []OnlyVerifiedRuns
<1>1. IInv => OnlyVerifiedRuns
  BY DEF IInv, VerifiedInv
<1> QED
  BY Invariant, <1>1, PTL

(* luks=1 and the TPM: no Linux starts without a keyfile its initramfs can   *)
(* unpack, nor with a command line tpm_measure_cmdline has not seen.         *)
THEOREM SpecCompleteHandover == Spec => []CompleteHandover
<1>1. IInv => CompleteHandover
  BY DEF IInv, CompleteInv
<1> QED
  BY Invariant, <1>1, PTL

(* While no file changes, the image comes from the partition uuid= names if  *)
(* it is there, and the initrd from the kernel's neighbourhood, whichever    *)
(* drivers load_entry_file had to bind on the way.                           *)
THEOREM SpecRightVolumes == Spec => []RightVolumes
<1>1. IInv => RightVolumes
  BY DEF IInv, VolumesInv
<1> QED
  BY Invariant, <1>1, PTL

(* visor_boot that returns leaves no LoadFile2, pages, initrd or passphrase. *)
THEOREM SpecCleanReturn == Spec => []CleanReturn
<1>1. IInv => CleanReturn
  BY DEF IInv, CleanInv, CleanReturn
<1> QED
  BY Invariant, <1>1, PTL

(* linux_alloc_raw_image and linux_place_raw_initrd: the image is aligned,   *)
(* inside its allocation, above its preferred address, below the limit.      *)
THEOREM SpecRawPlaced == Spec => []RawPlaced
<1>1. IInv => RawPlaced
  BY DEF IInv, StageInv, PlacedInv, Placed, RawPlaced
<1> QED
  BY Invariant, <1>1, PTL

(* windows_bootnext=1: Visor tries to load something itself before it hands  *)
(* off again in a boot that it owes to a BootNext that failed.               *)
LEMMA HandoffOnce ==
    ASSUME HandoffInv, [Next]_vars
    PROVE  next' # None /\ next = None => boots # stranded
<1> DEFINE Once == next' # None /\ next = None => boots # stranded
<1> SUFFICES Once
  OBVIOUS
<1> USE DEF HandoffInv, fixed, world, nvram, loader
<1>1. ASSUME NEW e \in Entries, NEW p \in Passwords \cup {None}, Select(e, p)
      PROVE  Once
  BY <1>1 DEF Select
<1>2. CASE CheckMark
  BY <1>2 DEF CheckMark, Chainload
<1>3. ASSUME NEW stored \in BOOLEAN, Mark(stored) PROVE Once
  BY <1>3 DEF Mark, Chainload
<1>4. ASSUME NEW stored \in BOOLEAN, SetBootNext(stored) PROVE Once
  BY <1>4 DEF SetBootNext, Chainload
<1>5. ASSUME NEW works \in BOOLEAN, Reset(works) PROVE Once
  BY <1>5 DEF Reset, PlatformBoot, Fresh
<1>6. ASSUME NEW v \in {"ok", "violation", "error"}, ChainloadBootMgr(v) PROVE Once
  BY <1>6 DEF ChainloadBootMgr
<1>7. ASSUME NEW v \in {"ok", "violation", "error"}, LoadPinned(v) PROVE Once
  BY <1>7 DEF LoadPinned, Accept, Refused
<1>8. ASSUME NEW v \in {"ok", "violation", "error"}, LoadReread(v) PROVE Once
  BY <1>8 DEF LoadReread, Accept, Refused
<1>9. ASSUME NEW v \in {"ok", "violation", "error"}, LoadBuffer(v) PROVE Once
  BY <1>9 DEF LoadBuffer, Accept, Refused
<1>10. CASE LoadKernel
  BY <1>10 DEF LoadKernel, GiveUp
<1>11. CASE Verify
  BY <1>11 DEF Verify, GiveUp
<1>12. CASE Cmdline
  BY <1>12 DEF Cmdline
<1>13. CASE MakePath
  BY <1>13 DEF MakePath
<1>14. CASE LoadRefused
  BY <1>14 DEF LoadRefused, GiveUp
<1>15. CASE LoadInitrd
  BY <1>15 DEF LoadInitrd, GiveUp
<1>16. CASE KeyOnly
  BY <1>16 DEF KeyOnly, GiveUp
<1>17. CASE Start
  BY <1>17 DEF Start
<1>18. ASSUME NEW installed \in BOOLEAN, Register(installed) PROVE Once
  BY <1>18 DEF Register, GiveUp
<1>19. CASE RawRefused
  BY <1>19 DEF RawRefused, GiveUp
<1>20. CASE RawFails
  BY <1>20 DEF RawFails, GiveUp
<1>21. CASE RawNoInitrd
  BY <1>21 DEF RawNoInitrd
<1>22. CASE RawStart
  BY <1>22 DEF RawStart
<1>23. ASSUME NEW p, RawImage(p) PROVE Once
  BY <1>23 DEF RawImage
<1>24. ASSUME NEW at, RawInitrd(Place("initrd", at, at, 1)) PROVE Once
  BY <1>24 DEF RawInitrd
<1>25. CASE ImageReturns
  BY <1>25 DEF ImageReturns, GiveUp
<1>26. ASSUME NEW works \in BOOLEAN, PowerCycle(works) PROVE Once
  BY <1>26 DEF PowerCycle, PlatformBoot, Fresh
<1>27. ASSUME NEW d \in Disks, Change(d) PROVE Once
  BY <1>27 DEF Change
<1>28. CASE UNCHANGED vars
  BY <1>28 DEF vars
<1> QED
  BY <1>1, <1>2, <1>3, <1>4, <1>5, <1>6, <1>7, <1>8, <1>9, <1>10, <1>11, <1>12,
     <1>13, <1>14, <1>15, <1>16, <1>17, <1>18, <1>19, <1>20, <1>21, <1>22, <1>23,
     <1>24, <1>25, <1>26, <1>27, <1>28 DEF Next, BootVisor

THEOREM SpecNoHandoffLoop == Spec => NoHandoffLoop
<1>1. IInv /\ [Next]_vars => [next' # None /\ next = None => boots # stranded]_vars
  BY HandoffOnce DEF IInv
<1> QED
  BY Invariant, <1>1, PTL DEF Spec, NoHandoffLoop
=============================================================================
