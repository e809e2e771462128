---------------------------- MODULE HotplugProofs ----------------------------
(***************************************************************************)
(* Proofs about Hotplug, for any handles, contents and start lists: the    *)
(* invariant IInv, and that what the user sees refines VolumeMenu.         *)
(***************************************************************************)
EXTENDS Hotplug, FiniteSetTheorems, SequenceTheorems, TLAPS

(* What the loop that unlinks entries does to the list. *)
LEMMA WithoutOne ==
    ASSUME NEW S, NEW s \in Seq(S), NEW i \in DOMAIN s
    PROVE  /\ Without(s, i) \in Seq(S)
           /\ Len(Without(s, i)) = Len(s) - 1
           /\ \A j \in DOMAIN Without(s, i) :
                Without(s, i)[j] = s[IF j < i THEN j ELSE j + 1]
<1>1. Len(s) \in Nat /\ DOMAIN s = 1 .. Len(s) /\ i \in 1 .. Len(s)
  OBVIOUS
<1>2. \A j \in 1 .. Len(s) - 1 : (IF j < i THEN s[j] ELSE s[j + 1]) \in S
  BY <1>1
<1>3. Without(s, i) \in [1 .. Len(s) - 1 -> S]
  BY <1>1, <1>2 DEF Without
<1>. QED
  BY <1>1, <1>3 DEF Without

(* What a step of the search appends. *)
LEMMA FoundOne ==
    ASSUME entries \in Seq(Entry), vol \in Handles, added \in Nat,
           NEW list \in Seq(Paths), Found(list)
    PROVE  /\ entries' \in Seq(Entry) /\ added' \in Nat
           /\ Len(entries') = Len(entries) + Len(list)
           /\ \A j \in 1 .. Len(entries) : entries'[j] = entries[j]
           /\ \A j \in 1 .. Len(list) : entries'[Len(entries) + j] = Tag(list[j])
<1> DEFINE new == [i \in 1 .. Len(list) |-> Tag(list[i])]
<1>1. Len(list) \in Nat /\ Len(entries) \in Nat
  OBVIOUS
<1>2. \A i \in 1 .. Len(list) : Tag(list[i]) \in Entry
  BY DEF Tag, Entry
<1>3. new \in Seq(Entry) /\ Len(new) = Len(list)
  BY <1>1, <1>2
<1>4. entries' = entries \o new /\ added' = added + Len(list)
  BY DEF Found
<1> HIDE DEF new
<1>5. \A j \in 1 .. Len(list) : new[j] = Tag(list[j])
  BY DEF new
<1>6. entries' \in Seq(Entry) /\ Len(entries') = Len(entries) + Len(list)
  <2>1. /\ entries \o new \in Seq(Entry)
        /\ Len(entries \o new) = Len(entries) + Len(new)
    BY <1>3, ConcatProperties
  <2>. QED
    BY <1>3, <1>4, <2>1
<1>7. \A j \in 1 .. Len(entries) : entries'[j] = entries[j]
  BY <1>1, <1>3, <1>4
<1>8. \A j \in 1 .. Len(list) : entries'[Len(entries) + j] = Tag(list[j])
  BY <1>1, <1>3, <1>4, <1>5
<1>. QED
  BY <1>1, <1>4, <1>6, <1>7, <1>8

-----------------------------------------------------------------------------
(* The initial state. *)
LEMMA Initially == Init => IInv
<1> SUFFICES ASSUME Init PROVE IInv
  OBVIOUS
<1>1. TypeOK
  <2>1. IsFiniteSet(attached) /\ Cardinality(attached) \in Nat
    BY HotplugAssumption, FS_Subset, FS_CardinalityType DEF Init
  <2>2. queue \in Seq(Handles)
    <3>1. CASE queue = <<>>
      BY <3>1
    <3>2. CASE queue \in Orders(attached)
      <4>1. queue \in [1 .. Cardinality(attached) -> attached]
        BY <3>2 DEF Orders
      <4>2. attached \subseteq Handles
        BY DEF Init
      <4>. QED
        BY <2>1, <4>1, <4>2
    <3>. QED
      BY <3>1, <3>2 DEF Init, Arm
  <2>3. entries \in Seq(Entry) /\ was \in Seq(Entry)
    BY HotplugAssumption DEF Init
  <2>4. known \in SUBSET Handles
    BY DEF Init, Arm
  <2>5. /\ attached \in SUBSET Handles /\ mounted \in SUBSET attached
        /\ empty \in SUBSET attached /\ changes \in Nat /\ fresh \in SUBSET Handles
        /\ excused \in SUBSET Handles
        /\ blkKnown \in SUBSET Handles /\ tried \in SUBSET Handles
        /\ vol \in Handles \cup {Nowhere} /\ walked \in Nat /\ base \in Nat
        /\ stage \in Stages \cup {Done}
    BY DEF Init, Stages, WindowsStage, FallbackStage
  <2>6. /\ uki \in BOOLEAN /\ raw \in BOOLEAN /\ live \in BOOLEAN
        /\ pc \in {"idle", "blocks", "locate", "drop", "discover", "scan", "settle"}
        /\ fs \in SUBSET Handles /\ picked \in Handles \cup {Nowhere}
        /\ probed \in BOOLEAN /\ discovery \in BOOLEAN /\ removed \in BOOLEAN
        /\ before \in Nat /\ added \in Nat /\ removedAt \in Nat /\ first \in Nat
        /\ mask \in SUBSET {"added", "removed"}
    BY DEF Init
  <2>. QED
    BY <2>2, <2>3, <2>4, <2>5, <2>6 DEF TypeOK
<1>2. NothingTwice /\ TaggedRight
  BY HotplugAssumption DEF Init, NothingTwice, TaggedRight
<1>3. ShownWerePresent /\ SearchInv
  BY DEF Init, ShownWerePresent, SearchInv, SearchSoFar, SearchPlace, SearchListed
<1>4. ShownAreKnown
  BY DEF Init, Arm, ShownAreKnown, KnownSoon
<1>. QED
  BY <1>1, <1>2, <1>3, <1>4 DEF IInv

-----------------------------------------------------------------------------
(* Every step keeps the types. *)
LEMMA DevicesKeepTypes == TypeOK /\ Environment => TypeOK'
<1> SUFFICES ASSUME TypeOK, NEW v \in Handles,
                    Plug(v) \/ Unplug(v) \/ Eject(v) \/ Insert(v)
             PROVE  TypeOK'
  BY DEF Environment
<1>1. CASE Plug(v)
  BY <1>1 DEF TypeOK, Plug, Appears, Change, search, blocks, outcome
<1>2. CASE Unplug(v)
  BY <1>2 DEF TypeOK, Unplug, Change, search, blocks, outcome
<1>3. CASE Eject(v)
  BY <1>3 DEF TypeOK, Eject, Change, search, blocks, outcome
<1>4. CASE Insert(v)
  BY <1>4 DEF TypeOK, Insert, Appears, Change, search, blocks, outcome
<1>. QED
  BY <1>1, <1>2, <1>3, <1>4

LEMMA ListingTyped ==
    ASSUME TypeOK, SearchPlace, vol # Nowhere
    PROVE  Listing \in Seq(Paths)
BY HotplugAssumption DEF TypeOK, SearchPlace, Listing

LEMMA SearchKeepsTypes == TypeOK /\ SearchPlace /\ Scan => TypeOK'
<1> SUFFICES ASSUME TypeOK, SearchPlace, Scan PROVE TypeOK'
  OBVIOUS
<1>1. vol \in Handles /\ Listing \in Seq(Paths) /\ pc' \in {"scan", "settle"}
  BY ListingTyped DEF TypeOK, Scan, SearchOnce, WalkKernel, WalkPause, WalkEnd,
     SearchVendor, SearchFallback, InSearch, StepDone
<1>2. \A list \in Seq(Paths) : Found(list) => entries' \in Seq(Entry) /\ added' \in Nat
  BY <1>1, FoundOne DEF TypeOK
<1>3. entries' \in Seq(Entry) /\ added' \in Nat
  <2>1. CASE SearchOnce
    BY <1>1, <1>2, <2>1 DEF SearchOnce
  <2>2. CASE WalkKernel
    <3>1. <<Listing[walked + 1]>> \in Seq(Paths)
      BY <1>1, <2>2 DEF WalkKernel, TypeOK
    <3>. QED
      BY <1>2, <2>2, <3>1 DEF WalkKernel
  <2>3. CASE WalkPause \/ WalkEnd
    BY <2>3 DEF TypeOK, WalkPause, WalkEnd
  <2>4. CASE SearchVendor
    <3>2. Found(IF VendorWanted THEN Listing ELSE <<>>) /\ <<>> \in Seq(Paths)
      BY <2>4 DEF SearchVendor
    <3>1. PICK list \in Seq(Paths) : Found(list)
      BY <1>1, <3>2
    <3>. QED
      BY <1>2, <3>1
  <2>5. CASE SearchFallback
    <3>2. Found(IF FallbackWanted THEN Listing ELSE <<>>) /\ <<>> \in Seq(Paths)
      BY <2>5 DEF SearchFallback
    <3>1. PICK list \in Seq(Paths) : Found(list)
      BY <1>1, <3>2
    <3>. QED
      BY <1>2, <3>1
  <2>. QED
    BY <2>1, <2>2, <2>3, <2>4, <2>5 DEF Scan
<1>4. /\ vol' \in Handles \cup {Nowhere} /\ stage' \in Stages \cup {Done}
      /\ walked' \in Nat /\ uki' \in BOOLEAN /\ raw' \in BOOLEAN /\ live' \in BOOLEAN
  <2>1. CASE SearchOnce
    BY <2>1 DEF TypeOK, SearchOnce, Stages, WindowsStage, UkiStage, FallbackStage, Done
  <2>2. CASE WalkKernel
    BY <2>2 DEF TypeOK, WalkKernel
  <2>6. CASE WalkPause
    BY <2>6 DEF TypeOK, WalkPause, search
  <2>3. CASE WalkEnd
    BY <2>3 DEF TypeOK, WalkEnd, Stages, Walks, WindowsStage, FallbackStage, Done
  <2>4. CASE SearchVendor
    BY <2>4 DEF TypeOK, SearchVendor, Stages, VendorStage, WindowsStage, FallbackStage, Done
  <2>5. CASE SearchFallback
    <3>1. /\ vol' = Nowhere /\ stage' = Done /\ walked' = 0 /\ live' = FALSE
          /\ uki' = uki /\ raw' = raw
      BY <2>5 DEF SearchFallback, Finish
    <3>2. live' \in BOOLEAN
      BY <3>1, Zenon
    <3>. QED
      BY <3>1, <3>2 DEF TypeOK
  <2>. QED
    BY <2>1, <2>2, <2>3, <2>4, <2>5, <2>6 DEF Scan
<1>5. InSearch /\ base' = base
  BY DEF Scan, SearchOnce, WalkKernel, WalkPause, WalkEnd, SearchVendor, SearchFallback,
     InSearch
<1>. QED
  BY <1>1, <1>3, <1>4, <1>5 DEF TypeOK, InSearch, hardware, blocks, outcome

LEMMA PollKeepsTypes ==
    ASSUME TypeOK, SearchPlace, Poll PROVE TypeOK'
<1>1. CASE Probe
  <2>0. queue \in Seq(Handles) /\ mounted \in SUBSET attached
    BY DEF TypeOK
  <2>1. queue' \in Seq(Handles) /\ mounted' \in SUBSET attached /\ probed' \in BOOLEAN
    <3>1. CASE Bare = {}
      <4>1. queue' = <<>> /\ probed' = FALSE /\ mounted' = mounted
        BY <1>1, <3>1 DEF Probe
      <4>2. <<>> \in Seq(Handles)
        OBVIOUS
      <4>3. probed' \in BOOLEAN
        BY <4>1, Zenon
      <4>. QED
        BY <2>0, <4>1, <4>2, <4>3
    <3>2. CASE Bare # {}
      <4>1. PICK i \in Bare : /\ queue' = SubSeq(queue, i + 1, Len(queue)) /\ probed' = TRUE
                              /\ mounted' = mounted \cup Bound({queue[i]})
        BY <1>1, <3>2 DEF Probe
      <4>2. i \in 1 .. Len(queue)
        BY <2>0 DEF Bare
      <4>3. queue' \in Seq(Handles)
        BY <2>0, <4>1, <4>2
      <4>. QED
        BY <2>0, <4>1, <4>3 DEF Bound
    <3>. QED
      BY <3>1, <3>2
  <2>. QED
    BY <1>1, <2>1 DEF TypeOK, Probe, search, outcome
<1>2. CASE NewBlocks
  BY <1>2 DEF TypeOK, NewBlocks, Bound, search, outcome
<1>3. CASE Locate
  <2>1. /\ first' \in Nat /\ removed' \in BOOLEAN /\ removedAt' \in Nat
        /\ mask' \in SUBSET {"added", "removed"} /\ pc' \in {"idle", "drop"}
    <3>1. CASE mounted = {}
      <4>1. pc' = "idle" /\ mask' = {} /\ first' = first /\ removed' = removed
            /\ removedAt' = removedAt
        BY <1>3, <3>1 DEF Locate
      <4>. QED
        BY <4>1 DEF TypeOK
    <3>2. CASE mounted # {}
      <4>1. pc' = "drop" /\ removed' = FALSE /\ removedAt' = 0
        BY <1>3, <3>2 DEF Locate
      <4>2. mask' = mask /\ first' = first
        BY <1>3, <3>2 DEF Locate, outcome
      <4>. QED
        BY <4>1, <4>2 DEF TypeOK
    <3>. QED
      BY <3>1, <3>2
  <2>. QED
    BY <1>3, <2>1 DEF TypeOK, Locate, hardware, blocks, search
<1>4. CASE DropEntry
  <2>1. entries' \in Seq(Entry) /\ removedAt' \in Nat
    BY <1>4, WithoutOne DEF TypeOK, DropEntry
  <2>. QED
    BY <1>4, <2>1 DEF TypeOK, DropEntry, hardware, blocks, search, outcome
<1>5. CASE DropDone
  <2>1. /\ vol' \in Handles \cup {Nowhere} /\ stage' \in Stages \cup {Done}
        /\ walked' \in Nat /\ live' \in BOOLEAN
    <3>1. CASE Finish
      <4>1. vol' = Nowhere /\ stage' = Done /\ walked' = 0 /\ live' = FALSE
        BY <3>1 DEF Finish
      <4>2. live' \in BOOLEAN
        BY <4>1, Zenon
      <4>. QED
        BY <4>1, <4>2
    <3>2. CASE UNCHANGED <<vol, stage, walked, live>>
      BY <3>2 DEF TypeOK
    <3>. QED
      BY <1>5, <3>1, <3>2 DEF DropDone, Abandon
  <2>. QED
    BY <1>5, <2>1 DEF TypeOK, DropDone, hardware, blocks, outcome
<1>6. CASE Resume
  BY <1>6 DEF TypeOK, Resume, hardware, blocks, search, outcome
<1>7. ASSUME NEW v \in Handles, Pick(v) PROVE TypeOK'
  <2>1. /\ vol' \in Handles \cup {Nowhere} /\ stage' \in Stages \cup {Done}
        /\ walked' \in Nat /\ base' \in Nat /\ uki' \in BOOLEAN /\ raw' \in BOOLEAN
        /\ live' \in BOOLEAN /\ pc' \in {"scan", "settle"}
    <3>1. CASE Searchable(v)
      <4>1. /\ vol' = v /\ live' = TRUE /\ stage' = 0 /\ walked' = 0
            /\ base' = Len(entries) /\ uki' = FALSE /\ raw' = FALSE /\ pc' = "scan"
        BY <1>7, <3>1 DEF Pick, WindowsStage
      <4>2. 0 \in Stages /\ Len(entries) \in Nat
        BY DEF TypeOK, Stages, WindowsStage, FallbackStage
      <4>. QED
        BY <4>1, <4>2
    <3>2. CASE ~Searchable(v)
      BY <1>7, <3>2 DEF TypeOK, Pick, search
    <3>. QED
      BY <3>1, <3>2
  <2>. QED
    BY <1>7, <2>1 DEF TypeOK, Pick, hardware, blocks, outcome
<1>8. CASE PickNone
  BY <1>8 DEF TypeOK, PickNone, hardware, blocks, search, outcome
<1>9. CASE Scan
  BY <1>9, SearchKeepsTypes
<1>10. CASE Settle
  <2>1. /\ known' \in SUBSET Handles /\ mask' \in SUBSET {"added", "removed"}
        /\ first' \in Nat
    BY <1>10 DEF TypeOK, Settle, Knows, Mask, FirstNew
  <2>. QED
    BY <1>10, <2>1 DEF TypeOK, Settle, hardware, blocks, search
<1>. QED
  BY <1>1, <1>2, <1>3, <1>4, <1>5, <1>6, <1>7, <1>8, <1>9, <1>10 DEF Poll

-----------------------------------------------------------------------------
(* What a step appends to a search: the next n files of its stage. *)
Grows ==
    /\ \A k \in DOMAIN entries : k \in DOMAIN entries' /\ entries'[k] = entries[k]
    /\ \A k \in DOMAIN entries' : k \in DOMAIN entries \/ entries'[k].vol = vol

ShowsUpTo(n) ==
    \A k \in DOMAIN entries' : entries'[k].vol = vol =>
        \E s \in Stages : \E i \in DOMAIN Content[vol][s] :
            /\ s < stage \/ (s = stage /\ i <= walked + n)
            /\ Content[vol][s][i] = entries'[k].path

LEMMA FoundSound ==
    ASSUME IInv, vol # Nowhere, NEW n \in Nat, NEW list \in Seq(Paths),
           Len(list) = n, walked + n <= Len(Content[vol][stage]),
           \A k \in 1 .. n : list[k] = Content[vol][stage][walked + k],
           Found(list)
    PROVE  NothingTwice' /\ TaggedRight' /\ Grows /\ ShowsUpTo(n)
<1> DEFINE old == Len(entries)
<1>1. /\ vol \in Handles /\ stage \in Stages /\ walked \in Nat /\ entries \in Seq(Entry)
      /\ Content[vol] \in [Stages -> Seq(Paths)] /\ added \in Nat
  BY HotplugAssumption DEF IInv, TypeOK, SearchInv, SearchPlace
<1>2. Content[vol][stage] \in Seq(Paths) /\ Stages \subseteq Nat
  <2>1. Content[vol][stage] \in Seq(Paths)
    BY <1>1
  <2>2. Stages \subseteq Nat
    BY DEF Stages, WindowsStage, FallbackStage
  <2>. QED
    BY <2>1, <2>2
<1>3. /\ entries' \in Seq(Entry) /\ Len(entries') = old + n /\ old \in Nat
      /\ \A j \in 1 .. old : entries'[j] = entries[j]
      /\ \A j \in 1 .. n : entries'[old + j] = Tag(list[j])
  <2>1. /\ entries' \in Seq(Entry)
        /\ Len(entries') = Len(entries) + Len(list)
        /\ \A j \in 1 .. Len(entries) : entries'[j] = entries[j]
        /\ \A j \in 1 .. Len(list) : entries'[Len(entries) + j] = Tag(list[j])
    BY <1>1, FoundOne
  <2>2. Len(entries) \in Nat
    BY <1>1
  <2>. QED
    BY <2>1, <2>2
<1> HIDE DEF old
<1>4. \A k \in DOMAIN entries' :
        \/ k \in 1 .. old /\ k \in DOMAIN entries /\ entries'[k] = entries[k]
        \/ /\ k > old /\ k - old \in 1 .. n
           /\ walked + (k - old) \in DOMAIN Content[vol][stage]
           /\ entries'[k].vol = vol
           /\ entries'[k].path = Content[vol][stage][walked + (k - old)]
  <2> SUFFICES ASSUME NEW k \in DOMAIN entries', ~(k \in 1 .. old)
               PROVE  /\ k > old /\ k - old \in 1 .. n
                      /\ walked + (k - old) \in DOMAIN Content[vol][stage]
                      /\ entries'[k].vol = vol
                      /\ entries'[k].path = Content[vol][stage][walked + (k - old)]
    BY <1>1, <1>3 DEF old
  <2>1. k \in 1 .. old + n /\ k > old /\ k - old \in 1 .. n /\ old + (k - old) = k
    BY <1>3
  <2>2. walked + (k - old) \in DOMAIN Content[vol][stage]
    BY <1>1, <1>2, <2>1
  <2>3. entries'[k] = Tag(list[k - old])
    BY <1>3, <2>1
  <2>. QED
    BY <2>1, <2>2, <2>3 DEF Tag
<1>5. NothingTwice'
  <2> SUFFICES ASSUME NEW i \in DOMAIN entries', NEW j \in DOMAIN entries',
                      entries'[i].vol = entries'[j].vol,
                      entries'[i].path = entries'[j].path,
                      entries'[i].vol # Nowhere
               PROVE  i = j
    BY DEF NothingTwice, NothingTwiceIn
  <2>1. CASE i \in 1 .. old /\ j \in 1 .. old
    <3>1. NothingTwiceIn(entries)
      BY DEF IInv, NothingTwice
    <3>2. /\ i \in DOMAIN entries /\ entries'[i] = entries[i]
          /\ j \in DOMAIN entries /\ entries'[j] = entries[j]
      BY <1>3, <1>4, <2>1
    <3>. QED
      BY <3>1, <3>2 DEF NothingTwiceIn
  <2>2. CASE i > old /\ j > old
    <3>2. \A s, u \in DOMAIN Content[vol][stage] :
            Content[vol][stage][s] = Content[vol][stage][u] => s = u
      BY <1>1, HotplugAssumption
    <3>3. /\ i - old \in 1 .. n /\ j - old \in 1 .. n
          /\ walked + (i - old) \in DOMAIN Content[vol][stage]
          /\ walked + (j - old) \in DOMAIN Content[vol][stage]
          /\ Content[vol][stage][walked + (i - old)] = Content[vol][stage][walked + (j - old)]
      BY <1>3, <1>4, <2>2
    <3>1. walked + (i - old) = walked + (j - old)
      BY <3>2, <3>3
    <3>. QED
      BY <1>1, <1>3, <2>2, <3>1
  <2>3. ASSUME NEW k \in DOMAIN entries, NEW l \in DOMAIN entries', l > old,
               entries[k].vol = vol, entries[k].path = entries'[l].path
        PROVE  FALSE
    <3>0. PICK s \in Stages : \E m \in DOMAIN Content[vol][s] :
            Searched(s, m) /\ Content[vol][s][m] = entries[k].path
      BY <2>3 DEF IInv, SearchInv, SearchSoFar
    <3>1. PICK m \in DOMAIN Content[vol][s] :
            Searched(s, m) /\ Content[vol][s][m] = entries[k].path
      BY <3>0
    <3>2. /\ walked + (l - old) \in DOMAIN Content[vol][stage]
          /\ entries'[l].path = Content[vol][stage][walked + (l - old)]
          /\ l - old \in 1 .. n
      BY <1>3, <1>4, <2>3
    <3>3. s = stage /\ m = walked + (l - old)
      BY <1>1, <2>3, <3>1, <3>2, HotplugAssumption
    <3>. QED
      BY <1>1, <1>2, <3>1, <3>2, <3>3 DEF Searched
  <2>4. CASE i \in 1 .. old /\ j > old
    <3>1. i \in DOMAIN entries /\ entries[i].vol = vol /\ entries[i].path = entries'[j].path
      BY <1>3, <1>4, <2>4
    <3>. QED
      BY <2>3, <2>4, <3>1
  <2>5. CASE i > old /\ j \in 1 .. old
    <3>1. j \in DOMAIN entries /\ entries[j].vol = vol /\ entries[j].path = entries'[i].path
      BY <1>3, <1>4, <2>5
    <3>. QED
      BY <2>3, <2>5, <3>1
  <2>. QED
    BY <1>4, <2>1, <2>2, <2>4, <2>5
<1>6. TaggedRight'
  <2> SUFFICES ASSUME NEW k \in DOMAIN entries', entries'[k].vol # Nowhere
               PROVE  entries'[k].path \in FilesOn(entries'[k].vol)
    BY DEF TaggedRight, TaggedRightIn
  <2>1. CASE k \in 1 .. old
    <3>1. k \in DOMAIN entries /\ entries'[k] = entries[k]
      BY <1>3, <1>4, <2>1
    <3>. QED
      BY <3>1 DEF IInv, TaggedRight, TaggedRightIn
  <2>2. CASE k > old
    <3>1. PICK m \in DOMAIN Content[vol][stage] : entries'[k].path = Content[vol][stage][m]
      BY <1>3, <1>4, <2>2
    <3>2. entries'[k].path \in Paths /\ entries'[k].vol = vol
      BY <1>3, <1>4, <2>2 DEF Entry
    <3>. QED
      BY <1>1, <3>1, <3>2 DEF FilesOn
  <2>. QED
    BY <1>4, <2>1, <2>2
<1>7. ShowsUpTo(n)
  <2> SUFFICES ASSUME NEW k \in DOMAIN entries', entries'[k].vol = vol
               PROVE  \E s \in Stages : \E i \in DOMAIN Content[vol][s] :
                        /\ s < stage \/ (s = stage /\ i <= walked + n)
                        /\ Content[vol][s][i] = entries'[k].path
    BY DEF ShowsUpTo
  <2>1. CASE k \in 1 .. old
    <3>1. k \in DOMAIN entries /\ entries'[k] = entries[k]
      BY <1>3, <1>4, <2>1
    <3>4. PICK s \in Stages : \E i \in DOMAIN Content[vol][s] :
            Searched(s, i) /\ Content[vol][s][i] = entries[k].path
      BY <3>1 DEF IInv, SearchInv, SearchSoFar
    <3>2. PICK i \in DOMAIN Content[vol][s] :
            Searched(s, i) /\ Content[vol][s][i] = entries[k].path
      BY <3>4
    <3>3. i \in Nat /\ s \in Nat
      BY <1>1, <1>2
    <3>. QED
      BY <1>1, <3>1, <3>2, <3>3 DEF Searched
  <2>2. CASE k > old
    <3>1. /\ walked + (k - old) \in DOMAIN Content[vol][stage]
          /\ entries'[k].path = Content[vol][stage][walked + (k - old)]
          /\ walked + (k - old) <= walked + n
      BY <1>1, <1>3, <1>4, <2>2
    <3>. QED
      BY <1>1, <3>1
  <2>. QED
    BY <1>4, <2>1, <2>2
<1>8. Grows
  <2>1. DOMAIN entries = 1 .. old
    BY <1>1 DEF old
  <2>2. DOMAIN entries' = 1 .. old + n
    BY <1>3
  <2>3. \A k \in 1 .. old : k \in 1 .. old + n
    BY <1>3
  <2>. QED
    BY <1>3, <1>4, <2>1, <2>2, <2>3 DEF Grows
<1>. QED
  BY <1>5, <1>6, <1>7, <1>8

LEMMA NothingSound ==
    ASSUME IInv, UNCHANGED entries
    PROVE  /\ NothingTwice' /\ TaggedRight' /\ Grows
           /\ vol # Nowhere => ShowsUpTo(0)
<1>1. NothingTwice' /\ TaggedRight'
  BY DEF IInv, NothingTwice, TaggedRight, NothingTwiceIn, TaggedRightIn
<1>2. Grows
  BY DEF Grows
<1>3. ASSUME vol # Nowhere PROVE ShowsUpTo(0)
  <2>1. walked + 0 = walked
    BY DEF IInv, TypeOK
  <2>2. SearchSoFar
    BY DEF IInv, SearchInv
  <2>. QED
    BY <1>3, <2>1, <2>2 DEF SearchSoFar, Searched, ShowsUpTo
<1>. QED
  BY <1>1, <1>2, <1>3

(* What a step of the search does to the list and to its own place. *)
Onward(n) ==
    \/ vol' = Nowhere
    \/ vol' = vol /\ stage' = stage + 1 /\ stage < FallbackStage /\ walked' = 0
    \/ vol' = vol /\ stage' = stage /\ stage \in Walks /\ walked' = walked + n

LEMMA ScanStep ==
    ASSUME IInv, Scan
    PROVE  /\ NothingTwice' /\ TaggedRight' /\ Grows
           /\ \E n \in Nat : ShowsUpTo(n) /\ Onward(n)
<1>1. /\ vol \in Handles /\ vol # Nowhere /\ stage \in Stages /\ walked \in Nat
      /\ stage \notin Walks => walked = 0
  BY DEF IInv, TypeOK, SearchInv, SearchPlace, Scan, SearchOnce, WalkKernel, WalkPause,
     WalkEnd, SearchVendor, SearchFallback, InSearch
<1>2. Listing \in Seq(Paths)
  BY <1>1, ListingTyped DEF IInv, SearchInv
<1>3. Content[vol][stage] \in Seq(Paths)
  BY <1>1, HotplugAssumption
<1>4. ASSUME Found(Listing), walked = 0
      PROVE  NothingTwice' /\ TaggedRight' /\ Grows /\ \E n \in Nat : ShowsUpTo(n)
  <2>1. CASE live
    <3>1. Listing = Content[vol][stage] /\ Len(Listing) \in Nat
      BY <1>2, <2>1 DEF Listing
    <3>2. walked + Len(Listing) <= Len(Content[vol][stage])
      BY <1>4, <3>1
    <3>3. \A k \in 1 .. Len(Listing) : Listing[k] = Content[vol][stage][walked + k]
      BY <1>4, <3>1
    <3>. QED
      BY <1>1, <1>2, <1>4, <3>1, <3>2, <3>3, FoundSound
  <2>2. CASE ~live
    <3>1. Listing = <<>> /\ Len(Listing) = 0
      BY <2>2 DEF Listing
    <3>2. walked + 0 <= Len(Content[vol][stage])
      BY <1>3, <1>4
    <3>3. \A k \in 1 .. 0 : Listing[k] = Content[vol][stage][walked + k]
      OBVIOUS
    <3>. QED
      BY <1>1, <1>2, <1>4, <3>1, <3>2, <3>3, FoundSound
  <2>. QED
    BY <2>1, <2>2
<1>5. ASSUME Found(<<>>), walked = 0
      PROVE  NothingTwice' /\ TaggedRight' /\ Grows /\ \E n \in Nat : ShowsUpTo(n)
  <2>5. <<>> \in Seq(Paths)
    OBVIOUS
  <2>6. PICK none \in Seq(Paths) : none = <<>>
    BY <2>5
  <2>1. Len(none) = 0 /\ Found(none)
    BY <1>5, <2>6
  <2>7. 0 \in Nat /\ vol # Nowhere
    BY <1>1
  <2>2. walked + 0 <= Len(Content[vol][stage])
    BY <1>3, <1>5
  <2>3. \A k \in 1 .. 0 : none[k] = Content[vol][stage][walked + k]
    BY SMT
  <2>4. NothingTwice' /\ TaggedRight' /\ Grows /\ ShowsUpTo(0)
    BY <2>1, <2>2, <2>3, <2>6, <2>7, FoundSound
  <2>. QED
    BY <2>4
<1>6. CASE SearchOnce
  <2>1. walked = 0 /\ Found(Listing)
    BY <1>1, <1>6 DEF SearchOnce, WindowsStage, UkiStage, Walks
  <2>2. \A n \in Nat : Onward(n)
    BY <1>1, <1>6, <2>1 DEF SearchOnce, Onward, WindowsStage, UkiStage, FallbackStage
  <2>. QED
    BY <1>4, <2>1, <2>2
<1>7. CASE WalkKernel
  <2> DEFINE one == <<Listing[walked + 1]>>
  <2>1. walked < Len(Listing) /\ Found(one)
    BY <1>7 DEF WalkKernel
  <2>2. Listing = Content[vol][stage]
    <3>1. CASE ~live
      BY <1>1, <2>1, <3>1 DEF Listing
    <3>. QED
      BY <3>1 DEF Listing
  <2>3. walked + 1 \in DOMAIN Listing
    BY <1>1, <1>2, <2>1
  <2>4. one \in Seq(Paths) /\ Len(one) = 1 /\ one[1] = Content[vol][stage][walked + 1]
    BY <1>2, <2>2, <2>3
  <2>5. walked + 1 <= Len(Content[vol][stage])
    BY <1>1, <1>3, <2>1, <2>2
  <2> HIDE DEF one
  <2>6. \A k \in 1 .. 1 : one[k] = Content[vol][stage][walked + k]
    BY <2>4
  <2>7. NothingTwice' /\ TaggedRight' /\ Grows /\ ShowsUpTo(1)
    BY <1>1, <2>1, <2>4, <2>5, <2>6, FoundSound
  <2>8. Onward(1)
    BY <1>7 DEF WalkKernel, Onward
  <2>. QED
    BY <2>7, <2>8
<1>8. CASE WalkPause \/ WalkEnd
  <2>1. NothingTwice' /\ TaggedRight' /\ Grows /\ ShowsUpTo(0)
    BY <1>1, <1>8, NothingSound DEF WalkPause, WalkEnd
  <2>2. CASE WalkPause
    <3>1. Onward(0)
      BY <1>1, <2>2 DEF WalkPause, Onward, search
    <3>. QED
      BY <2>1, <3>1
  <2>3. CASE WalkEnd
    <3>1. Onward(0)
      BY <1>1, <2>3 DEF WalkEnd, Onward, Walks, FallbackStage
    <3>. QED
      BY <2>1, <3>1
  <2>. QED
    BY <1>8, <2>2, <2>3
<1>9. CASE SearchVendor
  <2>1. walked = 0
    BY <1>1, <1>9 DEF SearchVendor, VendorStage, Walks
  <2>2. Found(Listing) \/ Found(<<>>)
    BY <1>9 DEF SearchVendor
  <2>3. \A n \in Nat : Onward(n)
    BY <1>1, <1>9, <2>1 DEF SearchVendor, Onward, VendorStage, FallbackStage
  <2>. QED
    BY <1>4, <1>5, <2>1, <2>2, <2>3
<1>10. CASE SearchFallback
  <2>1. walked = 0
    BY <1>1, <1>10 DEF SearchFallback, FallbackStage, Walks
  <2>2. Found(Listing) \/ Found(<<>>)
    BY <1>10 DEF SearchFallback
  <2>3. \A n \in Nat : Onward(n)
    BY <1>10 DEF SearchFallback, Finish, Onward
  <2>. QED
    BY <1>4, <1>5, <2>1, <2>2, <2>3
<1>. QED
  BY <1>6, <1>7, <1>8, <1>9, <1>10 DEF Scan

-----------------------------------------------------------------------------
(* The other steps. *)
LEMMA TaggedShrinks ==
    ASSUME NEW S, NEW s \in Seq(S), NEW i \in DOMAIN s
    PROVE  Tagged(Without(s, i)) \subseteq Tagged(s)
<1> SUFFICES ASSUME NEW v \in Tagged(Without(s, i)) PROVE v \in Tagged(s)
  OBVIOUS
<1>1. v \in Handles /\ \E j \in DOMAIN Without(s, i) : Without(s, i)[j].vol = v
  BY DEF Tagged
<1>2. PICK j \in DOMAIN Without(s, i) : Without(s, i)[j].vol = v
  BY <1>1
<1> DEFINE k == IF j < i THEN j ELSE j + 1
<1>3. Without(s, i)[j] = s[k]
  BY WithoutOne
<1>4. j \in 1 .. Len(s) - 1 /\ Len(s) \in Nat /\ i \in 1 .. Len(s)
  BY WithoutOne
<1>5. k \in DOMAIN s
  BY <1>4
<1> HIDE DEF k
<1>. QED
  BY <1>1, <1>2, <1>3, <1>5 DEF Tagged

(* A step that leaves the list and the search alone. *)
LEMMA QuietStep ==
    ASSUME IInv, UNCHANGED <<entries, vol, stage, walked>>
    PROVE  NothingTwice' /\ TaggedRight' /\ SearchSoFar' /\ SearchPlace'
BY DEF IInv, NothingTwice, NothingTwiceIn, TaggedRight, TaggedRightIn, SearchInv,
   SearchSoFar, Searched, SearchPlace

LEMMA ScanKeeps == ASSUME IInv, Scan PROVE IInv'
<1>1. TypeOK'
  BY SearchKeepsTypes DEF IInv, SearchInv
<1>2. NothingTwice' /\ TaggedRight' /\ Grows
  BY ScanStep
<1>3. PICK n \in Nat : ShowsUpTo(n) /\ Onward(n)
  BY ScanStep
<1>4. /\ InSearch /\ pc' \in {"scan", "settle"} /\ fs' = fs /\ known' = known
      /\ picked' = picked /\ vol' \in {vol, Nowhere}
      /\ pc' = "scan" => vol' = vol
  BY DEF Scan, SearchOnce, WalkKernel, WalkPause, WalkEnd, SearchVendor, SearchFallback,
     InSearch, StepDone, Finish, search
<1>5. SearchSoFar' /\ SearchPlace'
  <2> SUFFICES ASSUME vol' # Nowhere
               PROVE  /\ \A k \in DOMAIN entries' : entries'[k].vol = vol' =>
                          \E s \in Stages : \E i \in DOMAIN Content[vol'][s] :
                            Searched(s, i)' /\ Content[vol'][s][i] = entries'[k].path
                      /\ stage' \in Stages /\ (stage' \notin Walks => walked' = 0)
    BY DEF SearchSoFar, SearchPlace
  <2>1. vol' = vol /\ vol # Nowhere /\ vol \in Handles
    BY <1>4 DEF IInv, TypeOK
  <2>2. stage \in Stages /\ walked \in Nat /\ (stage \notin Walks => walked = 0)
    BY <2>1 DEF IInv, TypeOK, SearchInv, SearchPlace
  <2>3. stage' \in Stages /\ (stage' \notin Walks => walked' = 0)
    BY <1>3, <2>2 DEF Onward, Stages, WindowsStage, FallbackStage
  <2> SUFFICES ASSUME NEW k \in DOMAIN entries', entries'[k].vol = vol
               PROVE  \E s \in Stages : \E i \in DOMAIN Content[vol][s] :
                        Searched(s, i)' /\ Content[vol][s][i] = entries'[k].path
    BY <2>1, <2>3
  <2>4. PICK s \in Stages : \E i \in DOMAIN Content[vol][s] :
          /\ s < stage \/ (s = stage /\ i <= walked + n)
          /\ Content[vol][s][i] = entries'[k].path
    BY <1>3 DEF ShowsUpTo
  <2>5. PICK i \in DOMAIN Content[vol][s] :
          /\ s < stage \/ (s = stage /\ i <= walked + n)
          /\ Content[vol][s][i] = entries'[k].path
    BY <2>4
  <2>6. s \in Nat /\ stage \in Nat
    BY <2>2 DEF Stages, WindowsStage, FallbackStage
  <2>7. s < stage' \/ (s = stage' /\ i <= walked')
    BY <1>3, <2>1, <2>2, <2>5, <2>6 DEF Onward
  <2>. QED
    BY <2>5, <2>7 DEF Searched
<1>6. Tagged(entries') \subseteq Tagged(entries) \cup {vol}
  BY <1>2 DEF Tagged, Grows
<1>7. pc = "scan" /\ fs # {} /\ vol # Nowhere
  BY <1>4 DEF InSearch, IInv, SearchInv, SearchListed
<1>8. vol \in fs /\ vol \in KnownSoon /\ Tagged(entries) \subseteq fs
      /\ Tagged(entries) \subseteq KnownSoon
  BY <1>7 DEF IInv, ShownWerePresent, ShownAreKnown, SearchInv, SearchListed
<1>9. KnownSoon' = KnownSoon
  BY <1>4, <1>7 DEF KnownSoon
<1>10. ShownWerePresent' /\ ShownAreKnown'
  BY <1>4, <1>6, <1>8, <1>9 DEF ShownWerePresent, ShownAreKnown
<1>11. SearchListed'
  BY <1>4, <1>7, <1>8, <1>9 DEF SearchListed
<1>. QED
  BY <1>1, <1>2, <1>5, <1>10, <1>11 DEF IInv, SearchInv

LEMMA DropEntryKeeps == ASSUME IInv, DropEntry PROVE IInv'
<1>1. TypeOK'
  BY PollKeepsTypes DEF IInv, SearchInv, Poll
<1>2. PICK i \in DOMAIN entries : entries' = Without(entries, i)
  BY DEF DropEntry
<1>3. entries \in Seq(Entry)
  BY DEF IInv, TypeOK
<1> DEFINE at(j) == IF j < i THEN j ELSE j + 1
<1>4. \A j \in DOMAIN entries' : at(j) \in DOMAIN entries /\ entries'[j] = entries[at(j)]
  <2> SUFFICES ASSUME NEW j \in DOMAIN entries'
               PROVE  at(j) \in DOMAIN entries /\ entries'[j] = entries[at(j)]
    OBVIOUS
  <2>1. /\ j \in 1 .. Len(entries) - 1 /\ Len(entries) \in Nat
        /\ DOMAIN entries = 1 .. Len(entries) /\ i \in 1 .. Len(entries)
    BY <1>2, <1>3, WithoutOne
  <2>2. entries'[j] = entries[at(j)]
    BY <1>2, <1>3, WithoutOne
  <2>. QED
    BY <2>1, <2>2
<1>5. \A j, k \in DOMAIN entries' : at(j) = at(k) => j = k
  <2>1. DOMAIN entries' = 1 .. Len(entries) - 1 /\ Len(entries) \in Nat /\ i \in Nat
    BY <1>2, <1>3, WithoutOne
  <2>. QED
    BY <2>1
<1> HIDE DEF at
<1>6. NothingTwice' /\ TaggedRight'
  <2>1. NothingTwiceIn(entries) /\ TaggedRightIn(entries)
    BY DEF IInv, NothingTwice, TaggedRight
  <2>2. NothingTwiceIn(entries')
    BY <1>4, <1>5, <2>1 DEF NothingTwiceIn
  <2>3. TaggedRightIn(entries')
    BY <1>4, <2>1 DEF TaggedRightIn
  <2>. QED
    BY <2>2, <2>3 DEF NothingTwice, TaggedRight, NothingTwiceIn, TaggedRightIn
<1>7. /\ pc = "drop" /\ pc' = "drop" /\ fs' = fs /\ vol' = vol /\ stage' = stage
      /\ walked' = walked /\ known' = known /\ picked' = picked
  BY DEF DropEntry, search
<1>8. SearchSoFar' /\ SearchPlace'
  <2>1. SearchSoFar /\ SearchPlace
    BY DEF IInv, SearchInv
  <2>2. SearchSoFar'
    BY <1>4, <1>7, <2>1 DEF SearchSoFar, Searched
  <2>. QED
    BY <1>7, <2>1, <2>2 DEF SearchPlace
<1>9. Tagged(entries') \subseteq Tagged(entries)
  BY <1>2, <1>3, TaggedShrinks
<1>10. ShownWerePresent' /\ ShownAreKnown' /\ SearchListed'
  BY <1>7, <1>9 DEF IInv, SearchInv, ShownWerePresent, ShownAreKnown, SearchListed,
     KnownSoon
<1>. QED
  BY <1>1, <1>6, <1>8, <1>10 DEF IInv, SearchInv

LEMMA DropDoneKeeps == ASSUME IInv, DropDone PROVE IInv'
<1>1. TypeOK'
  BY PollKeepsTypes DEF IInv, SearchInv, Poll
<1>2. /\ pc = "drop" /\ pc' = "discover" /\ entries' = entries /\ fs' = fs
      /\ known' = known
      /\ vol' = IF vol # Nowhere /\ ~Present(vol) THEN Nowhere ELSE vol
      /\ vol' # Nowhere => stage' = stage /\ walked' = walked
  BY DEF DropDone, Abandon, Finish, hardware
<1>3. NothingTwice' /\ TaggedRight'
  BY <1>2, NothingSound
<1>4. SearchSoFar' /\ SearchPlace'
  <2>1. CASE vol' = Nowhere
    BY <2>1 DEF SearchSoFar, SearchPlace
  <2>2. CASE vol' # Nowhere
    BY <1>2, <2>2, QuietStep
  <2>. QED
    BY <2>1, <2>2
<1>5. ShownWerePresent'
  <2> SUFFICES Tagged(entries) \subseteq fs
    BY <1>2 DEF ShownWerePresent, Tagged
  <2>1. \A i \in DOMAIN entries : entries[i].vol \in Handles => entries[i].vol \in fs
    BY HotplugAssumption DEF DropDone, Gone, Present
  <2>. QED
    BY <2>1 DEF Tagged
<1>6. ShownAreKnown' /\ SearchListed'
  BY <1>2 DEF IInv, SearchInv, ShownAreKnown, SearchListed, KnownSoon, Present, Tagged
<1>. QED
  BY <1>1, <1>3, <1>4, <1>5, <1>6 DEF IInv, SearchInv

LEMMA PickKeeps == ASSUME IInv, NEW v \in Handles, Pick(v) PROVE IInv'
<1>1. TypeOK'
  BY PollKeepsTypes DEF IInv, SearchInv, Poll
<1>2. /\ pc = "discover" /\ vol = Nowhere /\ entries' = entries /\ fs' = fs
      /\ known' = known /\ picked' = v /\ v \in fs
  BY DEF Pick, hardware
<1>3. NothingTwice' /\ TaggedRight'
  BY <1>2, NothingSound
<1>4. ShownWerePresent' /\ ShownAreKnown'
  <2>1. pc' \in {"scan", "settle"}
    BY DEF Pick
  <2>. QED
    BY <1>2, <2>1 DEF IInv, ShownWerePresent, ShownAreKnown, KnownSoon, Tagged
<1>5. CASE Searchable(v)
  <2>1. /\ vol' = v /\ stage' = 0 /\ walked' = 0 /\ pc' = "scan" /\ ~Backs(v)
    BY <1>5 DEF Pick, Searchable, WindowsStage
  <2>2. \A i \in DOMAIN entries : entries[i].vol # v
    BY <2>1 DEF Backs
  <2>3. SearchSoFar'
    BY <1>2, <2>1, <2>2 DEF SearchSoFar
  <2>4. SearchPlace'
    BY <2>1 DEF SearchPlace, Stages, WindowsStage, FallbackStage
  <2>5. SearchListed'
    BY <1>2, <2>1, HotplugAssumption DEF SearchListed, KnownSoon
  <2>. QED
    BY <1>1, <1>3, <1>4, <2>3, <2>4, <2>5 DEF IInv, SearchInv
<1>6. CASE ~Searchable(v)
  <2>1. vol' = Nowhere /\ pc' = "settle"
    BY <1>2, <1>6 DEF Pick, search
  <2>2. SearchSoFar' /\ SearchPlace' /\ SearchListed'
    BY <1>2, <2>1 DEF SearchSoFar, SearchPlace, SearchListed
  <2>. QED
    BY <1>1, <1>3, <1>4, <2>2 DEF IInv, SearchInv
<1>. QED
  BY <1>5, <1>6

LEMMA SettleKeeps == ASSUME IInv, Settle PROVE IInv'
<1>1. TypeOK'
  BY PollKeepsTypes DEF IInv, SearchInv, Poll
<1>2. /\ pc = "settle" /\ pc' = "idle" /\ known' = Knows
      /\ UNCHANGED <<entries, vol, stage, walked, fs>>
  BY DEF Settle, hardware, search
<1>3. NothingTwice' /\ TaggedRight' /\ SearchSoFar' /\ SearchPlace'
  BY <1>2, QuietStep
<1>4. /\ Tagged(entries) \subseteq fs /\ Tagged(entries) \subseteq known \cup {picked}
      /\ vol # Nowhere => vol \in fs /\ vol \in known \cup {picked}
      /\ fs # {}
  BY <1>2 DEF IInv, SearchInv, ShownWerePresent, ShownAreKnown, SearchListed, KnownSoon
<1>5. Tagged(entries) \subseteq Knows /\ (vol # Nowhere => vol \in Knows)
  <2>1. Nowhere \notin Tagged(entries)
    BY HotplugAssumption DEF Tagged
  <2>. QED
    BY <1>4, <2>1 DEF Knows
<1>6. ShownWerePresent' /\ ShownAreKnown' /\ SearchListed'
  BY <1>2, <1>4, <1>5 DEF ShownWerePresent, ShownAreKnown, SearchListed, KnownSoon, Tagged
<1>. QED
  BY <1>1, <1>3, <1>6 DEF IInv, SearchInv

LEMMA PollKeeps == ASSUME IInv, Poll PROVE IInv'
<1>1. TypeOK'
  BY PollKeepsTypes DEF IInv, SearchInv
<1>2. CASE Probe \/ NewBlocks
  <2>1. /\ UNCHANGED <<entries, vol, stage, walked, fs, known>>
        /\ \/ pc = "idle" /\ pc' = "blocks"
           \/ pc = "blocks" /\ pc' = "locate"
    BY <1>2 DEF Probe, NewBlocks, search
  <2>2. NothingTwice' /\ TaggedRight' /\ SearchSoFar' /\ SearchPlace'
    BY <2>1, QuietStep
  <2>3. ShownWerePresent' /\ ShownAreKnown' /\ SearchListed'
    BY <2>1 DEF IInv, SearchInv, ShownWerePresent, ShownAreKnown, SearchListed, KnownSoon,
       Tagged
  <2>. QED
    BY <1>1, <2>2, <2>3 DEF IInv, SearchInv
<1>3. CASE Locate
  <2>1. /\ UNCHANGED <<entries, vol, stage, walked, known>> /\ pc = "locate"
        /\ fs' = mounted
        /\ \/ mounted = {} /\ pc' = "idle"
           \/ mounted # {} /\ pc' = "drop"
    BY <1>3 DEF Locate, search
  <2>2. NothingTwice' /\ TaggedRight' /\ SearchSoFar' /\ SearchPlace'
    BY <2>1, QuietStep
  <2>3. ShownWerePresent' /\ ShownAreKnown' /\ SearchListed'
    BY <2>1 DEF IInv, SearchInv, ShownWerePresent, ShownAreKnown, SearchListed, KnownSoon,
       Tagged
  <2>. QED
    BY <1>1, <2>2, <2>3 DEF IInv, SearchInv
<1>4. CASE Resume \/ PickNone
  <2>1. /\ UNCHANGED <<entries, vol, stage, walked, fs, known>>
        /\ pc = "discover" /\ pc' \in {"scan", "settle"} /\ picked' = Nowhere
        /\ pc' = "scan" => vol # Nowhere
    BY <1>4 DEF Resume, PickNone, hardware, search
  <2>2. NothingTwice' /\ TaggedRight' /\ SearchSoFar' /\ SearchPlace'
    BY <2>1, QuietStep
  <2>3. ShownWerePresent' /\ ShownAreKnown' /\ SearchListed'
    BY <2>1 DEF IInv, SearchInv, ShownWerePresent, ShownAreKnown, SearchListed, KnownSoon,
       Tagged
  <2>. QED
    BY <1>1, <2>2, <2>3 DEF IInv, SearchInv
<1>. QED
  BY <1>2, <1>3, <1>4, DropEntryKeeps, DropDoneKeeps, PickKeeps, ScanKeeps, SettleKeeps
  DEF Poll

LEMMA DevicesKeep == ASSUME IInv, Environment PROVE IInv'
<1>1. TypeOK'
  BY DevicesKeepTypes DEF IInv
<1>2. UNCHANGED <<entries, vol, stage, walked, fs, known, pc, picked>>
  BY DEF Environment, Plug, Unplug, Eject, Insert, Change, search
<1>3. NothingTwice' /\ TaggedRight' /\ SearchSoFar' /\ SearchPlace'
  BY <1>2, QuietStep
<1>4. ShownWerePresent' /\ ShownAreKnown' /\ SearchListed'
  BY <1>2 DEF IInv, SearchInv, ShownWerePresent, ShownAreKnown, SearchListed, KnownSoon,
     Tagged
<1>. QED
  BY <1>1, <1>3, <1>4 DEF IInv, SearchInv

LEMMA StutterKeeps == ASSUME IInv, UNCHANGED vars PROVE IInv'
<1>1. TypeOK'
  BY DEF IInv, TypeOK, vars, hardware, blocks, search, outcome
<1>2. UNCHANGED <<entries, vol, stage, walked, fs, known, pc, picked>>
  BY DEF vars, search
<1>3. NothingTwice' /\ TaggedRight' /\ SearchSoFar' /\ SearchPlace'
  BY <1>2, QuietStep
<1>4. ShownWerePresent' /\ ShownAreKnown' /\ SearchListed'
  BY <1>2 DEF IInv, SearchInv, ShownWerePresent, ShownAreKnown, SearchListed, KnownSoon,
     Tagged
<1>. QED
  BY <1>1, <1>3, <1>4 DEF IInv, SearchInv

(* The inductive invariant, for any handles, contents and start lists. *)
THEOREM Invariant == Spec => []IInv
<1>1. Init => IInv
  BY Initially
<1>2. IInv /\ [Next]_vars => IInv'
  BY PollKeeps, DevicesKeep, StutterKeeps DEF Next
<1>. QED
  BY <1>1, <1>2, PTL DEF Spec

(* Every variable keeps its type. *)
THEOREM TypeCorrect == Spec => []TypeOK
BY Invariant, PTL DEF IInv

(* hp_vol_present and the removal loop: a volume that a poll no longer     *)
(* lists has no entry after it, whatever was plugged, pulled or half       *)
(* searched.                                                               *)
THEOREM ShownVolumesWerePresent == Spec => []ShownWerePresent
BY Invariant, PTL DEF IInv

(* hp_scan_step and hp_kdir_next: however a search is paused and taken up, *)
(* no file of a volume gets two entries.                                   *)
THEOREM NoFileTwice == Spec => []NothingTwice
BY Invariant, PTL DEF IInv

-----------------------------------------------------------------------------
(* Refinement: a search is a turn of the abstract menu, the list of file   *)
(* systems is where vanished volumes are withdrawn, and unlinking their    *)
(* entries one by one changes nothing the abstract menu sees.              *)
LEMMA Unseen ==
    ASSUME UNCHANGED <<entries, vol>>, pc # "drop", pc' # "drop"
    PROVE  UNCHANGED <<ShownNow, TurnNow>>
BY DEF ShownNow, ShownFiles, TurnNow

LEMMA LocateWithdraws ==
    ASSUME TypeOK, Locate, pc' = "drop",
           NEW gone \in SUBSET Handles,
           \A v \in Handles : v \in gone <=> v \notin fs' \/ v \in empty'
    PROVE  Menu!Withdraw(gone)
<1>0. \A v \in Handles : Present(v)' <=> v \notin gone
  BY DEF Present
<1>1. pc = "locate" /\ UNCHANGED <<entries, vol>>
  BY DEF Locate, search
<1>2. \A v \in Handles : ShownFiles(v)' = ShownFiles(v)
  BY <1>1 DEF ShownFiles
<1>3. ShownNow = [v \in Handles |-> ShownFiles(v)]
  BY <1>1 DEF ShownNow
<1>4. ShownNow' = [v \in Handles |-> IF v \in gone THEN {} ELSE ShownNow[v]]
  BY <1>0, <1>2, <1>3 DEF ShownNow
<1>5. TurnNow = vol /\ vol \in Handles \cup {Nowhere} /\ Nowhere \notin Handles
  BY <1>1, HotplugAssumption DEF TurnNow, TypeOK
<1>6. TurnNow' = IF TurnNow \in gone THEN Nowhere ELSE TurnNow
  BY <1>0, <1>1, <1>5 DEF TurnNow
<1>. QED
  BY <1>4, <1>6 DEF Menu!Withdraw

LEMMA DropEntryUnseen ==
    ASSUME IInv, DropEntry
    PROVE  UNCHANGED <<ShownNow, TurnNow>>
<1>1. PICK i \in DOMAIN entries : Gone(entries[i]) /\ entries' = Without(entries, i)
  BY DEF DropEntry
<1>2. /\ pc = "drop" /\ pc' = "drop" /\ vol' = vol
      /\ \A v : Present(v)' = Present(v)
  BY DEF DropEntry, hardware, search, Present
<1>3. entries \in Seq(Entry)
  BY DEF IInv, TypeOK
<1>4. ASSUME NEW v \in Handles, Present(v) PROVE ShownFiles(v)' = ShownFiles(v)
  <2>1. entries[i].vol # v
    BY <1>1, <1>4 DEF Gone
  <2>2. /\ Len(entries) \in Nat /\ DOMAIN entries = 1 .. Len(entries) /\ i \in 1 .. Len(entries)
        /\ DOMAIN entries' = 1 .. Len(entries) - 1
        /\ \A j \in DOMAIN entries' : entries'[j] = entries[IF j < i THEN j ELSE j + 1]
    BY <1>1, <1>3, WithoutOne
  <2>3. \A j \in DOMAIN entries' : \E k \in DOMAIN entries : entries'[j] = entries[k]
    BY <2>2
  <2>4. ASSUME NEW k \in DOMAIN entries, k # i
        PROVE  \E j \in DOMAIN entries' : entries'[j] = entries[k]
    <3>1. CASE k < i
      <4>1. k \in DOMAIN entries' /\ entries'[k] = entries[k]
        BY <2>2, <3>1
      <4>. QED
        BY <4>1
    <3>2. CASE k > i
      <4>1. k - 1 \in DOMAIN entries' /\ ~(k - 1 < i) /\ (k - 1) + 1 = k
        BY <2>2, <3>2
      <4>2. entries'[k - 1] = entries[k]
        BY <2>2, <4>1
      <4>. QED
        BY <4>1, <4>2
    <3>. QED
      BY <2>2, <2>4, <3>1, <3>2
  <2>. QED
    BY <2>1, <2>3, <2>4 DEF ShownFiles
<1>5. ShownNow' = ShownNow
  BY <1>2, <1>4 DEF ShownNow
<1>6. TurnNow' = TurnNow
  BY <1>2 DEF TurnNow
<1>. QED
  BY <1>5, <1>6

LEMMA DropDoneUnseen ==
    ASSUME IInv, DropDone
    PROVE  UNCHANGED <<ShownNow, TurnNow>>
<1>1. /\ pc = "drop" /\ pc' = "discover" /\ entries' = entries
      /\ vol' = IF vol # Nowhere /\ ~Present(vol) THEN Nowhere ELSE vol
  BY DEF DropDone, Abandon, Finish
<1>2. \A v \in Handles : ShownFiles(v)' = ShownFiles(v)
  BY <1>1 DEF ShownFiles
<1>3. ASSUME NEW v \in Handles, ~Present(v) PROVE ShownFiles(v) = {}
  <2>1. \A i \in DOMAIN entries : entries[i].vol # v
    BY <1>3, HotplugAssumption DEF DropDone, Gone
  <2>. QED
    BY <2>1 DEF ShownFiles
<1>4. ShownNow' = ShownNow
  BY <1>1, <1>2, <1>3 DEF ShownNow
<1>5. TurnNow' = TurnNow
  BY <1>1 DEF TurnNow
<1>. QED
  BY <1>4, <1>5

LEMMA PickBegins ==
    ASSUME IInv, NEW v \in Handles, Pick(v)
    PROVE  Menu!Begin(v) \/ UNCHANGED <<ShownNow, TurnNow>>
<1>1. pc # "drop" /\ pc' # "drop" /\ vol = Nowhere /\ entries' = entries
  BY DEF Pick, hardware
<1>2. CASE Searchable(v)
  <2>1. vol' = v /\ \A i \in DOMAIN entries : entries[i].vol # v
    BY <1>2 DEF Pick, Searchable, Backs
  <2>2. ShownNow' = ShownNow
    BY <1>1 DEF ShownNow, ShownFiles
  <2>3. ShownNow[v] = {}
    BY <1>1, <2>1 DEF ShownNow, ShownFiles
  <2>4. TurnNow = Nowhere /\ TurnNow' = v
    BY <1>1, <2>1 DEF TurnNow
  <2>. QED
    BY <2>2, <2>3, <2>4 DEF Menu!Begin
<1>3. CASE ~Searchable(v)
  <2>1. vol' = vol
    BY <1>1, <1>3 DEF Pick, search
  <2>. QED
    BY <1>1, <2>1, Unseen
<1>. QED
  BY <1>2, <1>3

LEMMA ScanOffers ==
    ASSUME IInv, Scan
    PROVE  Menu!Offer
<1>1. /\ pc = "scan" /\ pc' \in {"scan", "settle"} /\ vol \in Handles /\ vol # Nowhere
      /\ vol' \in {vol, Nowhere}
  BY DEF IInv, TypeOK, Scan, SearchOnce, WalkKernel, WalkPause, WalkEnd, SearchVendor,
     SearchFallback, InSearch, StepDone, Finish, search
<1>2. Grows
  BY ScanStep
<1>3. TurnNow = vol /\ TurnNow' = vol'
  BY <1>1 DEF TurnNow
<1>4. /\ ShownNow = [v \in Handles |-> ShownFiles(v)]
      /\ ShownNow' = [v \in Handles |-> ShownFiles(v)']
  BY <1>1 DEF ShownNow
<1>5. \A v \in Handles : ShownFiles(v) \subseteq ShownFiles(v)'
  BY <1>2 DEF Grows, ShownFiles
<1>6. \A v \in Handles \ {vol} : ShownFiles(v)' = ShownFiles(v)
  BY <1>2 DEF Grows, ShownFiles
<1>7. ShownNow' \in [Handles -> SUBSET Paths]
  BY <1>4 DEF ShownFiles
<1>. QED
  BY <1>1, <1>3, <1>4, <1>5, <1>6, <1>7 DEF Menu!Offer

(* A step of a poll, or of the devices, is a step of the abstract menu. *)
LEMMA StepRefines ==
    ASSUME IInv, Next
    PROVE  Menu!Next \/ UNCHANGED <<ShownNow, TurnNow>>
<1>1. CASE Environment \/ Probe \/ NewBlocks \/ Resume \/ PickNone \/ Settle
  <2>1. UNCHANGED <<entries, vol>> /\ pc # "drop" /\ pc' # "drop"
    BY <1>1 DEF Environment, Plug, Unplug, Eject, Insert, Change, Probe, NewBlocks, Resume,
       PickNone, Settle, search, hardware
  <2>. QED
    BY <2>1, Unseen
<1>2. CASE Locate
  <2>1. CASE pc' = "drop"
    <3>1. PICK gone \in SUBSET Handles :
            \A v \in Handles : v \in gone <=> v \notin fs' \/ v \in empty'
      <4>1. Handles \ (fs' \ empty') \in SUBSET Handles
        OBVIOUS
      <4>. QED
        BY <4>1
    <3>2. Menu!Withdraw(gone)
      BY <1>2, <2>1, <3>1, LocateWithdraws DEF IInv
    <3>. QED
      BY <3>2 DEF Menu!Next
  <2>2. CASE pc' # "drop"
    BY <1>2, <2>2, Unseen DEF Locate, search
  <2>. QED
    BY <2>1, <2>2
<1>3. CASE \E v \in Handles : Pick(v)
  BY <1>3, PickBegins DEF Menu!Next
<1>4. CASE Scan
  BY <1>4, ScanOffers DEF Menu!Next
<1>. QED
  BY <1>1, <1>2, <1>3, <1>4, DropEntryUnseen, DropDoneUnseen DEF Next, Poll

(* What the user sees of the volumes is a behaviour of VolumeMenu. *)
THEOREM RefinesVolumeMenu == Spec => MenuSpec
<1>1. Init => Menu!Init
  <2> SUFFICES ASSUME Init PROVE Menu!Init
    OBVIOUS
  <2>1. pc = "idle" /\ vol = Nowhere
    BY DEF Init
  <2>2. ShownNow \in [Handles -> SUBSET Paths]
    BY <2>1 DEF ShownNow, ShownFiles
  <2>. QED
    BY <2>1, <2>2 DEF Menu!Init, TurnNow
<1>2. IInv /\ [Next]_vars => [Menu!Next]_<<ShownNow, TurnNow>>
  <2> SUFFICES ASSUME IInv, [Next]_vars PROVE [Menu!Next]_<<ShownNow, TurnNow>>
    OBVIOUS
  <2>1. CASE Next
    BY <2>1, StepRefines
  <2>2. CASE UNCHANGED vars
    BY <2>2 DEF vars, hardware, search, ShownNow, ShownFiles, TurnNow, Present
  <2>. QED
    BY <2>1, <2>2
<1>. QED
  BY <1>1, <1>2, Invariant, PTL DEF Spec, MenuSpec, Menu!Spec
-----------------------------------------------------------------------------
(* The fallback loader stands alone: a search compares the length of the   *)
(* list with what it was when it began, which tells what it found itself   *)
(* unless entries were dropped meanwhile.                                  *)
(* \EFI\BOOT\BOOTX64.EFI is one file. *)
OneFallback == \A v \in Handles : Len(Content[v][FallbackStage]) <= 1
StartAlone == \A list \in StartLists : FallbackAloneIn(list, Handles)

SearchedLast == vol # Nowhere /\ vol \notin excused =>
    /\ base <= Len(entries)
    /\ \A k \in DOMAIN entries : entries[k].vol = vol => k > base
AloneInv == SearchedLast /\ FallbackAlone

(* Another stage has found what a search shows before its last step. *)
NoneSearched ==
    vol # Nowhere =>
        \A k \in DOMAIN entries : entries[k].vol = vol => ~IsFallback(entries[k])
LEMMA NoFallbackYet == IInv => NoneSearched
<1> SUFFICES ASSUME IInv, vol # Nowhere, NEW k \in DOMAIN entries, entries[k].vol = vol
             PROVE  ~IsFallback(entries[k])
  BY DEF NoneSearched
<1>1. vol \in Handles /\ stage \in Stages /\ walked \in Nat /\ (stage \notin Walks => walked = 0)
  BY DEF IInv, TypeOK, SearchInv, SearchPlace
<1>2. PICK s \in Stages : \E i \in DOMAIN Content[vol][s] :
        Searched(s, i) /\ Content[vol][s][i] = entries[k].path
  BY DEF IInv, SearchInv, SearchSoFar
<1>3. PICK i \in DOMAIN Content[vol][s] :
        Searched(s, i) /\ Content[vol][s][i] = entries[k].path
  BY <1>2
<1>4. FallbackStage \in Stages
  BY DEF Stages, WindowsStage, FallbackStage
<1>7. Content[vol][s] \in Seq(Paths) /\ i \in Nat \ {0}
  BY <1>1, HotplugAssumption
<1>5. s # FallbackStage
  BY <1>1, <1>3, <1>7 DEF Searched, Stages, WindowsStage, FallbackStage, Walks
<1>6. \A j \in DOMAIN Content[vol][FallbackStage] :
        Content[vol][FallbackStage][j] # entries[k].path
  BY <1>1, <1>3, <1>4, <1>5, HotplugAssumption
<1>. QED
  BY <1>6 DEF IsFallback

(* Where a step of the search leaves the old entries and puts new ones. *)
LEMMA ScanAppends ==
    ASSUME IInv, Scan
    PROVE  /\ vol \in Handles /\ vol # Nowhere
           /\ \E list \in Seq(Paths) :
                 /\ list = <<>> \/ Found(list)
                 /\ Len(entries') = Len(entries) + Len(list)
                 /\ added' = added + Len(list)
                 /\ SearchFallback => list = <<>> \/ (list = Listing /\ Len(entries) = base)
                 /\ \A k \in 1 .. Len(entries) : entries'[k] = entries[k]
                 /\ \A k \in 1 .. Len(list) : entries'[Len(entries) + k] = Tag(list[k])
<1>1. /\ vol \in Handles /\ vol # Nowhere /\ entries \in Seq(Entry) /\ added \in Nat
      /\ Len(entries) \in Nat
  BY DEF IInv, TypeOK, Scan, SearchOnce, WalkKernel, WalkPause, WalkEnd, SearchVendor,
     SearchFallback, InSearch
<1>2. Listing \in Seq(Paths)
  BY <1>1, ListingTyped DEF IInv, SearchInv
<1>3. <<>> \in Seq(Paths) /\ Len(<<>>) = 0
  OBVIOUS
<1>4. \E list \in Seq(Paths) :
         /\ Found(list) \/ (list = <<>> /\ UNCHANGED <<entries, added>>)
         /\ SearchFallback => list = <<>> \/ (list = Listing /\ Len(entries) = base)
  <2>1. CASE SearchOnce
    BY <1>2, <2>1 DEF SearchOnce, SearchFallback, WindowsStage, UkiStage, FallbackStage
  <2>2. CASE WalkKernel
    <3> DEFINE one == <<Listing[walked + 1]>>
    <3>1. one \in Seq(Paths) /\ Found(one)
      BY <1>2, <2>2 DEF WalkKernel, IInv, TypeOK
    <3>2. stage \in {2, 3, 4}
      BY <2>2 DEF WalkKernel, Walks
    <3>3. ~SearchFallback
      BY <3>2 DEF SearchFallback, FallbackStage
    <3> HIDE DEF one
    <3>. QED
      BY <3>1, <3>3
  <2>3. CASE WalkPause \/ WalkEnd
    BY <1>3, <2>3 DEF WalkPause, WalkEnd
  <2>4. CASE SearchVendor
    <3>1. ~SearchFallback
      BY <2>4 DEF SearchVendor, SearchFallback, VendorStage, FallbackStage
    <3>2. Found(Listing) \/ Found(<<>>)
      BY <2>4 DEF SearchVendor
    <3>. QED
      BY <1>2, <1>3, <3>1, <3>2
  <2>5. CASE SearchFallback
    BY <1>2, <1>3, <2>5 DEF SearchFallback, FallbackWanted
  <2>. QED
    BY <2>1, <2>2, <2>3, <2>4, <2>5 DEF Scan
<1>5. PICK list \in Seq(Paths) :
         /\ Found(list) \/ (list = <<>> /\ UNCHANGED <<entries, added>>)
         /\ SearchFallback => list = <<>> \/ (list = Listing /\ Len(entries) = base)
  BY <1>4
<1>6. /\ Len(entries') = Len(entries) + Len(list) /\ added' = added + Len(list)
      /\ \A k \in 1 .. Len(entries) : entries'[k] = entries[k]
      /\ \A k \in 1 .. Len(list) : entries'[Len(entries) + k] = Tag(list[k])
  <2>1. CASE Found(list)
    BY <1>1, <2>1, FoundOne DEF Found
  <2>2. CASE list = <<>> /\ UNCHANGED <<entries, added>>
    BY <1>1, <2>2
  <2>. QED
    BY <1>5, <2>1, <2>2
<1>. QED
  BY <1>1, <1>5, <1>6

LEMMA ScanAlone ==
    ASSUME OneFallback, IInv, TypeOK', NoneSearched', AloneInv, Scan PROVE AloneInv'
<1>1. /\ vol \in Handles /\ vol # Nowhere /\ vol' \in {vol, Nowhere}
      /\ UNCHANGED <<excused, base>> /\ excused \in SUBSET Handles /\ Nowhere \notin Handles
      /\ entries \in Seq(Entry) /\ entries' \in Seq(Entry) /\ base \in Nat
      /\ Len(entries) \in Nat /\ Len(entries') \in Nat
  BY SMTT(30), HotplugAssumption DEF IInv, TypeOK, Scan, SearchOnce, WalkKernel, WalkPause, WalkEnd,
     SearchVendor, SearchFallback, InSearch, StepDone, Finish, search, hardware
<1>2. PICK list \in Seq(Paths) :
         /\ Len(entries') = Len(entries) + Len(list)
         /\ SearchFallback => list = <<>> \/ (list = Listing /\ Len(entries) = base)
         /\ \A k \in 1 .. Len(entries) : entries'[k] = entries[k]
         /\ \A k \in 1 .. Len(list) : entries'[Len(entries) + k] = Tag(list[k])
  BY ScanAppends
<1>3. Len(list) \in Nat
  OBVIOUS
<1>4. \A k \in DOMAIN entries' :
         \/ k \in DOMAIN entries /\ entries'[k] = entries[k]
         \/ /\ k > Len(entries) /\ k <= Len(entries) + Len(list)
            /\ entries'[k].vol = vol
  <2> SUFFICES ASSUME NEW k \in DOMAIN entries', k \notin DOMAIN entries
               PROVE  /\ k > Len(entries) /\ k <= Len(entries) + Len(list)
                      /\ entries'[k].vol = vol
    <3>1. DOMAIN entries = 1 .. Len(entries)
      BY <1>1
    <3>. QED
      BY <1>2, <3>1
  <2>1. k - Len(entries) \in 1 .. Len(list) /\ Len(entries) + (k - Len(entries)) = k
    BY <1>1, <1>2, <1>3
  <2>2. entries'[k] = Tag(list[k - Len(entries)])
    BY <1>2, <2>1
  <2>. QED
    <3>1. entries'[k].vol = vol
      BY <2>2 DEF Tag
    <3>2. k > Len(entries) /\ k <= Len(entries) + Len(list)
      BY <1>1, <1>2, <1>3, <2>1
    <3>. QED
      BY <3>1, <3>2
<1>6. SearchedLast'
  <2> SUFFICES ASSUME vol' # Nowhere, vol' \notin excused' PROVE SearchedLast'
    BY DEF SearchedLast
  <2>1. base <= Len(entries) /\ base <= Len(entries')
    BY <1>1, <1>2, <1>3 DEF AloneInv, SearchedLast
  <2>2. ASSUME NEW k \in DOMAIN entries', entries'[k].vol = vol PROVE k > base
    <3>1. k \in Nat
      BY <1>1
    <3>. QED
      BY <1>1, <1>3, <1>4, <2>1, <2>2, <3>1 DEF AloneInv, SearchedLast
  <2>. QED
    BY <1>1, <2>1, <2>2 DEF SearchedLast
<1>7. FallbackAlone'
  <2> SUFFICES ASSUME NEW i \in DOMAIN entries', NEW j \in DOMAIN entries',
                      entries'[i].vol = entries'[j].vol,
                      entries'[i].vol \in Handles \ excused',
                      IsFallback(entries'[i])
               PROVE  i = j
    BY DEF FallbackAlone, FallbackAloneIn
  <2>1. CASE i \in DOMAIN entries /\ j \in DOMAIN entries
    BY <1>4, <2>1, <1>1 DEF AloneInv, FallbackAlone, FallbackAloneIn
  <2>2. CASE entries'[i].vol = vol /\ vol' = vol
    BY <1>1, <2>2 DEF NoneSearched
  <2>3. CASE entries'[i].vol = vol /\ vol' = Nowhere
    <3>1. SearchFallback
      BY <1>1, <2>3 DEF Scan, SearchOnce, WalkKernel, WalkPause, WalkEnd, SearchVendor, search
    <3>2. CASE list = <<>>
      <4>1. i \in DOMAIN entries /\ j \in DOMAIN entries
        BY <1>1, <1>2, <3>2
      <4>. QED
        BY <2>1, <4>1
    <3>3. CASE list = Listing /\ Len(entries) = base
      <4>1. Len(list) <= 1
        BY <1>1, <3>1, <3>3 DEF Listing, SearchFallback, OneFallback
      <4>2. \A k \in DOMAIN entries : entries[k].vol # vol
        <5>1. vol \notin excused
          BY <1>1, <2>3
        <5>2. \A k \in DOMAIN entries : entries[k].vol = vol => k > base
          BY <1>1, <5>1 DEF AloneInv, SearchedLast
        <5>3. \A k \in DOMAIN entries : ~(k > base)
          BY <1>1, <3>3
        <5>. QED
          BY <5>2, <5>3
      <4>3. i > Len(entries) /\ j > Len(entries)
        BY <1>1, <1>4, <2>3, <4>2
      <4>. QED
        BY <1>1, <1>2, <1>3, <4>1, <4>3
    <3>. QED
      BY <1>2, <3>1, <3>2, <3>3
  <2>. QED
    BY <1>1, <1>4, <2>1, <2>2, <2>3
<1>. QED
  BY <1>6, <1>7 DEF AloneInv

(* A volume that is excused no longer has no entry and is not searched. *)
LEMMA NewlyWatched ==
    ASSUME IInv, TypeOK', vol' = vol, entries' = entries,
           NEW v \in Handles, v \notin KnownSoon, excused' \in {excused, excused \ {v}, excused \cup {v}},
           AloneInv, UNCHANGED base
    PROVE  AloneInv'
<1>1. v \notin Tagged(entries) /\ v # vol /\ Nowhere \notin Handles
  BY HotplugAssumption DEF IInv, ShownAreKnown, SearchInv, SearchListed
<1>2. SearchedLast'
  BY <1>1 DEF AloneInv, SearchedLast
<1>3. FallbackAlone'
  <2> SUFFICES ASSUME NEW i \in DOMAIN entries, NEW j \in DOMAIN entries,
                      entries[i].vol = entries[j].vol, entries[i].vol \in Handles \ excused',
                      IsFallback(entries[i])
               PROVE  i = j
    BY DEF FallbackAlone, FallbackAloneIn, IsFallback
  <2>1. entries[i].vol # v
    BY <1>1 DEF Tagged
  <2>2. entries[i].vol \in Handles \ excused
    BY <2>1
  <2>. QED
    BY <2>2 DEF AloneInv, FallbackAlone, FallbackAloneIn
<1>. QED
  BY <1>2, <1>3 DEF AloneInv

(* Dropping an entry excuses the volume that is searched. *)
LEMMA DropAlone == ASSUME IInv, AloneInv, DropEntry PROVE AloneInv'
<1>1. PICK i \in DOMAIN entries : entries' = Without(entries, i)
  BY DEF DropEntry
<1>2. /\ entries \in Seq(Entry) /\ vol' = vol
      /\ excused' = excused \cup ({vol} \ {Nowhere})
  BY DEF IInv, TypeOK, DropEntry, search
<1> DEFINE at(j) == IF j < i THEN j ELSE j + 1
<1>3. DOMAIN entries' = 1 .. Len(entries) - 1 /\ Len(entries) \in Nat
      /\ DOMAIN entries = 1 .. Len(entries) /\ i \in 1 .. Len(entries)
  BY <1>1, <1>2, WithoutOne
<1>4. \A j \in DOMAIN entries' : at(j) \in DOMAIN entries /\ entries'[j] = entries[at(j)]
  <2> SUFFICES ASSUME NEW j \in DOMAIN entries'
               PROVE  at(j) \in DOMAIN entries /\ entries'[j] = entries[at(j)]
    OBVIOUS
  <2>1. entries'[j] = entries[at(j)]
    BY <1>1, <1>2, WithoutOne
  <2>. QED
    BY <1>3, <2>1
<1>5. \A j, k \in DOMAIN entries' : at(j) = at(k) => j = k
  BY <1>3
<1> HIDE DEF at
<1>6. SearchedLast'
  BY <1>2 DEF SearchedLast
<1>7. FallbackAlone'
  <2>1. FallbackAloneIn(entries, Handles \ excused')
    BY <1>2 DEF AloneInv, FallbackAlone, FallbackAloneIn
  <2>2. FallbackAloneIn(entries', Handles \ excused')
    BY <1>4, <1>5, <2>1 DEF FallbackAloneIn, IsFallback
  <2>. QED
    BY <2>2 DEF FallbackAlone, FallbackAloneIn, IsFallback
<1>. QED
  BY <1>6, <1>7 DEF AloneInv

LEMMA StepAlone ==
    ASSUME OneFallback, IInv, TypeOK', NoneSearched', AloneInv, [Next]_vars PROVE AloneInv'
<1>0. Nowhere \notin Handles /\ entries \in Seq(Entry)
  BY HotplugAssumption DEF IInv, TypeOK
<1>1. CASE Environment
  <2>1. UNCHANGED <<entries, vol, base>>
    BY <1>1 DEF Environment, Plug, Unplug, Eject, Insert, Change, search
  <2>2. PICK v \in Handles :
          \/ excused' = excused
          \/ v \notin KnownSoon /\ excused' = excused \ {v}
          \/ excused' = excused \cup {v}
    BY <1>1 DEF Environment, Plug, Unplug, Eject, Insert, Appears, Remembered
  <2>3. CASE v \notin KnownSoon /\ excused' = excused \ {v}
    BY <2>1, <2>3, NewlyWatched
  <2>4. CASE excused \subseteq excused'
    BY <2>1, <2>4 DEF AloneInv, SearchedLast, FallbackAlone, FallbackAloneIn, IsFallback
  <2>. QED
    BY <2>2, <2>3, <2>4
<1>2. CASE \/ Probe \/ NewBlocks \/ Locate \/ Resume \/ PickNone \/ Settle \/ UNCHANGED vars
  <2>1. UNCHANGED <<entries, vol, base, excused>>
    BY <1>2 DEF Probe, NewBlocks, Locate, Resume, PickNone, Settle, vars, search
  <2>. QED
    BY <2>1 DEF AloneInv, SearchedLast, FallbackAlone, FallbackAloneIn, IsFallback
<1>3. CASE DropEntry
  BY <1>3, DropAlone
<1>4. CASE DropDone
  <2>1. UNCHANGED <<entries, base, excused>> /\ vol' \in {vol, Nowhere}
    BY <1>4 DEF DropDone, Abandon, Finish
  <2>. QED
    BY <2>1 DEF AloneInv, SearchedLast, FallbackAlone, FallbackAloneIn, IsFallback
<1>5. ASSUME NEW v \in Handles, Pick(v) PROVE AloneInv'
  <2>1. UNCHANGED entries /\ Len(entries) \in Nat
    BY <1>0, <1>5 DEF Pick
  <2>2. CASE vol' = v /\ base' = Len(entries) /\ Searchable(v) /\ excused' = excused \ {v}
    <3>1. \A k \in DOMAIN entries : entries[k].vol # v
      BY <2>2 DEF Searchable, Backs
    <3>2. SearchedLast'
      BY <2>1, <2>2, <3>1 DEF SearchedLast
    <3>3. FallbackAlone'
      BY <2>1, <2>2, <3>1 DEF AloneInv, FallbackAlone, FallbackAloneIn, IsFallback
    <3>. QED
      BY <3>2, <3>3 DEF AloneInv
  <2>3. CASE vol' = vol /\ base' = base /\ excused \subseteq excused'
    BY <2>1, <2>3 DEF AloneInv, SearchedLast, FallbackAlone, FallbackAloneIn, IsFallback
  <2>. QED
    BY <1>5, <2>2, <2>3 DEF Pick, search
<1>6. CASE Scan
  BY <1>6, ScanAlone
<1>. QED
  BY <1>1, <1>2, <1>3, <1>4, <1>5, <1>6 DEF Next, Poll

(* hp_scan_step: whatever comes and goes, an entry of the fallback path    *)
(* has no neighbour from its volume, unless entries were dropped while     *)
(* that volume was searched, or it was not looked at.                      *)
THEOREM FallbackStandsAlone ==
    ASSUME OneFallback, StartAlone
    PROVE  Spec => []FallbackAlone
<1>1. Init => AloneInv
  BY DEF StartAlone, Init, AloneInv, SearchedLast, FallbackAlone, FallbackAloneIn
<1>2. IInv /\ TypeOK' /\ NoneSearched' /\ AloneInv /\ [Next]_vars => AloneInv'
  BY StepAlone
<1>3. AloneInv => FallbackAlone
  BY DEF AloneInv
<1>. QED
  BY <1>1, <1>2, <1>3, Invariant, TypeCorrect, NoFallbackYet, PTL DEF Spec

-----------------------------------------------------------------------------
(* What a poll reports.  The first m entries are those of `was' that have  *)
(* not been dropped, in their order: f says where each of them was.        *)
Embeds(f, m) ==
    /\ f \in [1 .. m -> DOMAIN was]
    /\ \A a, b \in 1 .. m : a < b => f[a] < f[b]
    /\ \A k \in 1 .. m : entries[k] = was[f[k]]
    /\ \A i \in DOMAIN was : (\A k \in 1 .. m : f[k] # i) => ~Shown(was[i])
Survive(m) == \E f \in [1 .. m -> DOMAIN was] : Embeds(f, m)

(* The first gap, while entries are dropped and afterwards. *)
DropGap ==
    IF removed
    THEN /\ removedAt + 1 \in DOMAIN was /\ ~Shown(was[removedAt + 1])
         /\ \A i \in 1 .. removedAt :
              i \in DOMAIN entries /\ entries[i] = was[i] /\ ~Gone(entries[i])
    ELSE was = entries
Gap == IF removed THEN removedAt + 1 \in DOMAIN was \ Kept /\ 1 .. removedAt \subseteq Kept
       ELSE Kept = DOMAIN was

Dropping == /\ Survive(Len(entries)) /\ DropGap
            /\ \A i \in DOMAIN was : ~Shown(was[i]) => Gone(was[i])
Finding == /\ before <= Len(entries) /\ added = Len(entries) - before
           /\ Survive(before) /\ Gap
           /\ vol # Nowhere => \A i \in DOMAIN was : was[i].vol = vol => Shown(was[i])
ReportInv ==
    /\ pc \in {"blocks", "locate"} => was = entries
    /\ pc # "idle" => Tagged(was) \subseteq known
    /\ pc = "drop" => Dropping
    /\ pc \in {"discover", "scan", "settle"} => Finding
    /\ ReportTells

LEMMA Embedded == ASSUME NEW m \in Nat, Survive(m) PROVE \E f : Embeds(f, m)
BY DEF Survive

LEMMA Embedding == ASSUME NEW m \in Nat, NEW f, Embeds(f, m) PROVE Survive(m)
BY DEF Survive, Embeds

(* How many entries survived, and where each of them is now. *)
LEMMA Counted ==
    ASSUME entries \in Seq(Entry), was \in Seq(Entry), NEW m \in Nat, m <= Len(entries),
           Survive(m)
    PROVE  /\ Cardinality(Kept) = m
           /\ \A i \in Kept : entries[PlaceOf(i)] = was[i]
<1>1. PICK f : Embeds(f, m)
  BY Embedded
<1>2. f \in [1 .. m -> DOMAIN was] /\ DOMAIN was \subseteq Nat
  BY <1>1 DEF Embeds
<1>3. \A a, b \in 1 .. m : f[a] <= f[b] => a <= b
  BY <1>1, <1>2 DEF Embeds
<1>4. \A i \in Kept : \E k \in 1 .. m : f[k] = i
  BY <1>1 DEF Embeds, Kept
<1>5. \A k \in 1 .. m : f[k] \in Kept
  <2> SUFFICES ASSUME NEW k \in 1 .. m PROVE f[k] \in Kept
    OBVIOUS
  <2>1. k \in DOMAIN entries /\ f[k] \in DOMAIN was /\ entries[k] = was[f[k]]
    BY <1>1, <1>2 DEF Embeds
  <2>. QED
    BY <2>1 DEF Kept, Shown
<1>6. ASSUME NEW n \in 0 .. m, NEW T, T = {k \in Kept : \E a \in 1 .. n : f[a] = k}
      PROVE  Cardinality(T) = n
  <2> DEFINE g == [a \in 1 .. n |-> f[a]]
  <2>1. \A a \in 1 .. n : a \in 1 .. m /\ f[a] \in T
    BY <1>5, <1>6
  <2>2. g \in Surjection(1 .. n, T)
    BY <1>6, <2>1 DEF Surjection
  <2>3. \A a, b \in 1 .. n : f[a] = f[b] => a = b
    BY <1>2, <1>3, <2>1
  <2>4. g \in Injection(1 .. n, T)
    BY <2>1, <2>3 DEF Injection, IsInjective
  <2>5. ExistsBijection(1 .. n, T)
    BY <2>2, <2>4 DEF ExistsBijection, Bijection
  <2>. QED
    BY <2>5, FS_CountingElements
<1>7. Cardinality(Kept) = m
  <2>1. Kept = {k \in Kept : \E a \in 1 .. m : f[a] = k}
    BY <1>4
  <2>. QED
    BY <1>6, <2>1
<1>8. ASSUME NEW i \in Kept PROVE entries[PlaceOf(i)] = was[i]
  <2>1. PICK n \in 1 .. m : f[n] = i
    BY <1>4
  <2>2. {k \in Kept : k <= i} = {k \in Kept : \E a \in 1 .. n : f[a] = k}
    <3>1. ASSUME NEW k \in Kept, k <= i PROVE \E a \in 1 .. n : f[a] = k
      <4>1. PICK a \in 1 .. m : f[a] = k
        BY <1>4, <3>1
      <4>. QED
        BY <1>3, <2>1, <3>1, <4>1
    <3>2. ASSUME NEW a \in 1 .. n PROVE f[a] <= i
      <4>1. a \in 1 .. m /\ f[a] \in Nat /\ (a = n \/ a < n)
        BY <1>2
      <4>. QED
        BY <1>1, <1>2, <2>1, <4>1 DEF Embeds
    <3>. QED
      BY <3>1, <3>2
  <2>3. PlaceOf(i) = n
    BY <1>6, <2>2 DEF PlaceOf
  <2>. QED
    BY <1>1, <2>1, <2>3 DEF Embeds
<1>. QED
  BY <1>7, <1>8

(* A list that nothing has happened to. *)
LEMMA Untouched ==
    ASSUME was = entries, entries \in Seq(Entry)
    PROVE  Survive(Len(entries)) /\ Kept = DOMAIN was /\ \A i \in DOMAIN was : Shown(was[i])
<1> DEFINE f == [i \in 1 .. Len(entries) |-> i]
<1>1. DOMAIN was = 1 .. Len(entries) /\ Len(entries) \in Nat
  OBVIOUS
<1>2. Embeds(f, Len(entries))
  BY <1>1 DEF Embeds
<1>3. Survive(Len(entries))
  BY <1>1, <1>2, Embedding
<1>. QED
  BY <1>3 DEF Kept, Shown

(* The report depends on the list and on what it was only. *)
LEMMA Unreported ==
    ASSUME UNCHANGED <<entries, was>>
    PROVE  /\ Kept' = Kept /\ \A i : PlaceOf(i)' = PlaceOf(i) /\ Shown(was[i])' = Shown(was[i])
           /\ \A m : Survive(m)' = Survive(m)
<1>1. \A e : Shown(e)' = Shown(e)
  BY DEF Shown
<1>2. Kept' = Kept
  BY <1>1 DEF Kept
<1>3. \A i : PlaceOf(i)' = PlaceOf(i)
  BY <1>2 DEF PlaceOf
<1>4. \A f, m : Embeds(f, m)' = Embeds(f, m)
  BY <1>1 DEF Embeds
<1>5. \A m : Survive(m)' = Survive(m)
  BY <1>4 DEF Survive
<1>. QED
  BY <1>1, <1>2, <1>3, <1>5

LEMMA ReportStart == Init => ReportInv
<1> SUFFICES ASSUME Init PROVE ReportInv
  OBVIOUS
<1>1. entries \in Seq(Entry) /\ was = entries /\ pc = "idle" /\ mask = {}
  BY HotplugAssumption DEF Init
<1>2. Len(entries) \in Nat /\ Len(entries) <= Len(entries)
  BY <1>1
<1>3. Survive(Len(entries)) /\ Kept = DOMAIN was
  BY <1>1, Untouched
<1>4. Cardinality(Kept) = Len(entries) /\ \A i \in Kept : entries[PlaceOf(i)] = was[i]
  BY <1>1, <1>2, <1>3, Counted
<1>5. ReportTells
  BY <1>1, <1>2, <1>3, <1>4 DEF ReportTells
<1>. QED
  BY <1>1, <1>5 DEF ReportInv

LEMMA ReportQuiet ==
    ASSUME ReportInv,
           UNCHANGED <<entries, was, pc, known, mask, first, before, added, removed,
                       removedAt, vol, fs>>,
           pc = "drop" => empty' = empty
    PROVE  ReportInv'
<1>1. /\ Kept' = Kept /\ \A i : PlaceOf(i)' = PlaceOf(i) /\ Shown(was[i])' = Shown(was[i])
      /\ \A m : Survive(m)' = Survive(m)
  BY Unreported
<1>2. pc = "drop" => \A e : Gone(e)' = Gone(e)
  BY DEF Gone, Present
<1>3. ReportTells'
  BY <1>1 DEF ReportInv, ReportTells
<1>4. pc = "drop" => Dropping'
  BY <1>1, <1>2 DEF ReportInv, Dropping, DropGap
<1>5. pc \in {"discover", "scan", "settle"} => Finding'
  BY <1>1 DEF ReportInv, Finding, Gap
<1>. QED
  BY <1>3, <1>4, <1>5 DEF ReportInv, Tagged

LEMMA ReportLocate == ASSUME IInv, ReportInv, Locate PROVE ReportInv'
<1>1. /\ UNCHANGED <<entries, was, known>> /\ was = entries /\ Tagged(was) \subseteq known
      /\ entries \in Seq(Entry) /\ Len(entries) \in Nat /\ Len(entries) <= Len(entries)
  BY DEF Locate, IInv, TypeOK, ReportInv
<1>2. Survive(Len(entries)) /\ Kept = DOMAIN was /\ \A i \in DOMAIN was : Shown(was[i])
  BY <1>1, Untouched
<1>3. Cardinality(Kept) = Len(entries) /\ \A i \in Kept : entries[PlaceOf(i)] = was[i]
  BY <1>1, <1>2, Counted
<1>4. /\ Kept' = Kept /\ \A i : PlaceOf(i)' = PlaceOf(i) /\ Shown(was[i])' = Shown(was[i])
      /\ \A m : Survive(m)' = Survive(m)
  BY <1>1, Unreported
<1>5. CASE pc' = "idle" /\ mask' = {}
  <2>1. ReportTells'
    BY <1>1, <1>2, <1>3, <1>4, <1>5 DEF ReportTells
  <2>. QED
    BY <1>5, <2>1 DEF ReportInv
<1>6. CASE pc' = "drop" /\ removed' = FALSE
  <2>1. Dropping'
    BY <1>1, <1>2, <1>4, <1>6 DEF Dropping, DropGap
  <2>. QED
    BY <1>1, <1>6, <2>1 DEF ReportInv, ReportTells, Tagged
<1>. QED
  BY <1>5, <1>6 DEF Locate

LEMMA ReportDrop == ASSUME IInv, IInv', ReportInv, DropEntry PROVE ReportInv'
<1>1. PICK i \in DOMAIN entries :
        /\ Gone(entries[i]) /\ \A j \in 1 .. i - 1 : ~Gone(entries[j])
        /\ entries' = Without(entries, i)
        /\ removedAt' = IF removed THEN removedAt ELSE i - 1
  BY DEF DropEntry
<1>2. /\ removed' = TRUE /\ UNCHANGED <<was, known, fs, empty, pc>> /\ pc = "drop"
      /\ entries \in Seq(Entry) /\ was \in Seq(Entry) /\ removedAt \in Nat
  BY DEF DropEntry, hardware, IInv, TypeOK
<1>3. PICK n \in Nat : n = Len(entries) /\ i \in 1 .. n /\ DOMAIN entries = 1 .. n
  BY <1>2
<1> DEFINE at(k) == IF k < i THEN k ELSE k + 1
<1>4. /\ entries' \in Seq(Entry) /\ Len(entries') = n - 1 /\ DOMAIN entries' = 1 .. n - 1
      /\ n - 1 \in Nat
      /\ \A k \in 1 .. n - 1 : at(k) \in DOMAIN entries /\ entries'[k] = entries[at(k)]
  <2>1. /\ Without(entries, i) \in Seq(Entry) /\ Len(Without(entries, i)) = n - 1
        /\ \A j \in DOMAIN Without(entries, i) :
             Without(entries, i)[j] = entries[IF j < i THEN j ELSE j + 1]
    BY <1>2, <1>3, WithoutOne
  <2>. QED
    BY <1>1, <1>3, <2>1
<1>5. \A e : Gone(e)' = Gone(e)
  BY <1>2 DEF Gone, Present
<1>6. Dropping
  BY <1>2 DEF ReportInv
<1>7. \A e : Shown(e)' => Shown(e)
  BY <1>4 DEF Shown
<1>0. PICK e : e = entries[i]
  OBVIOUS
<1>8. ~Shown(e)'
  <2> SUFFICES ASSUME NEW k \in 1 .. n - 1, entries'[k] = e PROVE FALSE
    BY <1>2, <1>4 DEF Shown
  <2>1. at(k) \in DOMAIN entries /\ entries[at(k)] = entries[i] /\ at(k) # i
    BY <1>0, <1>3, <1>4
  <2>2. entries[i].vol # Nowhere
    BY <1>1 DEF Gone
  <2>. QED
    BY <2>1, <2>2 DEF IInv, NothingTwice, NothingTwiceIn
<1>9. PICK f : Embeds(f, n)
  BY <1>3, <1>6, Embedded DEF Dropping
<1>10. /\ f \in [1 .. n -> DOMAIN was] /\ \A a, b \in 1 .. n : a < b => f[a] < f[b]
       /\ \A k \in 1 .. n : entries[k] = was[f[k]]
       /\ \A j \in DOMAIN was : (\A k \in 1 .. n : f[k] # j) => ~Shown(was[j])
  BY <1>9 DEF Embeds
<1>16. PICK g : g = [k \in 1 .. n - 1 |-> f[at(k)]]
  OBVIOUS
<1>11. Embeds(g, Len(entries))'
  <2>1. g \in [1 .. n - 1 -> DOMAIN was]
    BY <1>3, <1>4, <1>10, <1>16
  <2>2. \A a, b \in 1 .. n - 1 : a < b => g[a] < g[b]
    <3> SUFFICES ASSUME NEW a \in 1 .. n - 1, NEW b \in 1 .. n - 1, a < b
                 PROVE  f[at(a)] < f[at(b)]
      BY <1>16
    <3>1. at(a) \in 1 .. n /\ at(b) \in 1 .. n /\ at(a) < at(b)
      BY <1>3, <1>4
    <3>. QED
      BY <1>10, <3>1
  <2>3. \A k \in 1 .. n - 1 : entries'[k] = was[g[k]]
    BY <1>3, <1>4, <1>10, <1>16
  <2>4. ASSUME NEW j \in DOMAIN was, \A k \in 1 .. n - 1 : g[k] # j
        PROVE  ~Shown(was[j])'
    <3>1. CASE \A k \in 1 .. n : f[k] # j
      BY <1>2, <1>7, <1>10, <3>1
    <3>2. CASE \E k \in 1 .. n : f[k] = j
      <4>1. PICK k \in 1 .. n : f[k] = j
        BY <3>2
      <4>2. CASE k = i
        BY <1>0, <1>2, <1>8, <1>10, <4>1, <4>2
      <4>3. CASE k < i
        <5>1. k \in 1 .. n - 1 /\ at(k) = k
          BY <1>3, <4>3
        <5>. QED
          BY <1>16, <2>4, <4>1, <5>1
      <4>4. CASE k > i
        <5>1. k - 1 \in 1 .. n - 1 /\ at(k - 1) = k
          BY <1>3, <4>4
        <5>. QED
          BY <1>16, <2>4, <4>1, <5>1
      <4>. QED
        BY <1>3, <4>2, <4>3, <4>4
    <3>. QED
      BY <3>1, <3>2
  <2> HIDE DEF at
  <2>. QED
    BY <1>2, <1>4, <2>1, <2>2, <2>3, <2>4 DEF Embeds
<1>12. Survive(Len(entries))'
  <2>1. g \in [1 .. Len(entries) -> DOMAIN was]'
    BY <1>11 DEF Embeds
  <2>. QED
    BY <1>11, <2>1 DEF Survive
<1>13. ASSUME NEW j \in DOMAIN was, ~Shown(was[j])' PROVE Gone(was[j])
  <2>1. CASE \A k \in 1 .. n : f[k] # j
    BY <1>6, <1>10, <2>1 DEF Dropping
  <2>2. CASE \E k \in 1 .. n : f[k] = j
    <3>1. PICK k \in 1 .. n : f[k] = j
      BY <2>2
    <3>2. CASE k = i
      BY <1>1, <1>10, <3>1, <3>2
    <3>3. CASE k # i
      <4>1. PICK l \in 1 .. n - 1 : at(l) = k
        <5>1. CASE k < i
          BY <1>3, <5>1
        <5>2. CASE k > i
          <6>1. k - 1 \in 1 .. n - 1 /\ at(k - 1) = k
            BY <1>3, <5>2
          <6>. QED
            BY <6>1
        <5>. QED
          BY <1>3, <3>3, <5>1, <5>2
      <4>2. entries'[l] = was[j]
        BY <1>4, <1>10, <3>1, <4>1
      <4>. QED
        BY <1>2, <1>4, <1>13, <4>2 DEF Shown
    <3>. QED
      BY <3>2, <3>3
  <2>. QED
    BY <2>1, <2>2
<1>14. DropGap'
  <2>1. CASE removed
    <3>1. removedAt' = removedAt
      BY <1>1, <2>1
    <3>2. removedAt + 1 \in DOMAIN was /\ ~Shown(was[removedAt + 1])
      BY <1>6, <2>1 DEF Dropping, DropGap
    <3>3. ASSUME NEW k \in 1 .. removedAt
          PROVE  k \in 1 .. n - 1 /\ entries'[k] = was[k] /\ ~Gone(entries'[k])
      <4>1. k \in DOMAIN entries /\ entries[k] = was[k] /\ ~Gone(entries[k])
        BY <1>6, <2>1, <3>3 DEF Dropping, DropGap
      <4>2. ~(i \in 1 .. removedAt)
        BY <1>1, <1>6, <2>1 DEF Dropping, DropGap
      <4>3. k \in 1 .. n - 1 /\ at(k) = k
        BY <1>2, <1>3, <3>3, <4>1, <4>2
      <4>4. entries'[k] = entries[k]
        BY <1>4, <4>3
      <4>. QED
        BY <4>1, <4>3, <4>4
    <3>. QED
      BY <1>2, <1>4, <1>5, <1>7, <3>1, <3>2, <3>3 DEF DropGap
  <2>2. CASE ~removed
    <3>1. removedAt' = i - 1 /\ was = entries
      BY <1>1, <1>6, <2>2 DEF Dropping, DropGap
    <3>2. removedAt' + 1 = i /\ i \in DOMAIN was /\ ~Shown(was[i])'
      BY <1>0, <1>2, <1>3, <1>8, <3>1
    <3>3. ASSUME NEW k \in 1 .. removedAt'
          PROVE  k \in 1 .. n - 1 /\ entries'[k] = was[k] /\ ~Gone(entries'[k])
      <4>1. k \in 1 .. n - 1 /\ at(k) = k /\ k \in 1 .. i - 1
        BY <1>3, <3>1, <3>3
      <4>2. entries'[k] = entries[k]
        BY <1>4, <4>1
      <4>. QED
        BY <1>1, <3>1, <4>1, <4>2
    <3>. QED
      BY <1>2, <1>4, <1>5, <3>2, <3>3 DEF DropGap
  <2>. QED
    BY <2>1, <2>2
<1>15. Dropping'
  BY <1>2, <1>5, <1>12, <1>13, <1>14 DEF Dropping
<1>. QED
  BY <1>2, <1>15 DEF ReportInv, ReportTells, Tagged

LEMMA ReportDropDone == ASSUME IInv, ReportInv, DropDone PROVE ReportInv'
<1>1. /\ UNCHANGED <<entries, was, known, removed, removedAt, fs, empty>>
      /\ pc = "drop" /\ pc' = "discover" /\ before' = Len(entries) /\ added' = 0
      /\ \A i \in DOMAIN entries : ~Gone(entries[i])
      /\ vol' # Nowhere => vol' = vol /\ Present(vol)
  BY DEF DropDone, Abandon, Finish, hardware
<1>2. /\ entries \in Seq(Entry) /\ was \in Seq(Entry) /\ removedAt \in Nat
      /\ Len(entries) \in Nat
  BY DEF IInv, TypeOK
<1>3. Dropping
  BY <1>1 DEF ReportInv
<1>4. /\ Kept' = Kept /\ \A i : Shown(was[i])' = Shown(was[i])
      /\ \A m : Survive(m)' = Survive(m)
  BY <1>1, Unreported
<1>5. Gap
  <2>1. CASE removed
    <3>1. removedAt + 1 \in DOMAIN was /\ ~Shown(was[removedAt + 1])
      BY <1>3, <2>1 DEF Dropping, DropGap
    <3>2. ASSUME NEW k \in 1 .. removedAt PROVE k \in Kept
      <4>1. k \in DOMAIN entries /\ entries[k] = was[k]
        BY <1>3, <2>1 DEF Dropping, DropGap
      <4>2. k \in DOMAIN was
        BY <1>2, <3>1
      <4>. QED
        BY <4>1, <4>2 DEF Kept, Shown
    <3>. QED
      BY <2>1, <3>1, <3>2 DEF Gap, Kept
  <2>2. CASE ~removed
    BY <1>2, <1>3, <2>2, Untouched DEF Dropping, DropGap, Gap
  <2>. QED
    BY <2>1, <2>2
<1>6. ASSUME vol' # Nowhere, NEW i \in DOMAIN was, was[i].vol = vol PROVE Shown(was[i])
  BY <1>1, <1>3, <1>6 DEF Dropping, Gone
<1>7. Finding'
  BY <1>1, <1>2, <1>3, <1>4, <1>5, <1>6 DEF Finding, Dropping, Gap
<1>. QED
  BY <1>1, <1>7 DEF ReportInv, ReportTells, Tagged

LEMMA ReportDiscover ==
    ASSUME IInv, ReportInv, Resume \/ PickNone \/ \E v \in Handles : Pick(v)
    PROVE  ReportInv'
<1>1. /\ UNCHANGED <<entries, was, known, before, added, removed, removedAt>>
      /\ pc = "discover" /\ pc' \in {"scan", "settle"}
      /\ vol' = vol \/ (vol' \in Handles /\ vol' \notin known)
  BY DEF Resume, PickNone, Pick, search
<1>2. was \in Seq(Entry) /\ Nowhere \notin Handles
  BY HotplugAssumption DEF IInv, TypeOK
<1>3. Finding /\ Tagged(was) \subseteq known
  BY <1>1 DEF ReportInv
<1>4. /\ Kept' = Kept /\ \A i : Shown(was[i])' = Shown(was[i])
      /\ \A m : Survive(m)' = Survive(m)
  BY <1>1, Unreported
<1>5. ASSUME vol' # Nowhere, NEW i \in DOMAIN was, was[i].vol = vol' PROVE Shown(was[i])
  BY <1>1, <1>2, <1>3, <1>5 DEF Finding, Tagged
<1>6. Finding'
  BY <1>1, <1>3, <1>4, <1>5 DEF Finding, Gap
<1>. QED
  BY <1>1, <1>3, <1>6 DEF ReportInv, ReportTells, Tagged

LEMMA ReportScan == ASSUME IInv, IInv', ReportInv, Scan PROVE ReportInv'
<1>1. /\ UNCHANGED <<was, known, before, removed, removedAt>>
      /\ pc = "scan" /\ pc' \in {"scan", "settle"} /\ vol' \in {vol, Nowhere}
      /\ entries \in Seq(Entry) /\ entries' \in Seq(Entry) /\ was \in Seq(Entry)
      /\ before \in Nat /\ added \in Nat
  BY DEF Scan, SearchOnce, WalkKernel, WalkPause, WalkEnd, SearchVendor, SearchFallback,
     InSearch, StepDone, Finish, search, IInv, TypeOK
<1>2. PICK n \in Nat : n = Len(entries) /\ DOMAIN entries = 1 .. n
  BY <1>1
<1>3. PICK list \in Seq(Paths) :
        /\ Len(entries') = n + Len(list) /\ added' = added + Len(list)
        /\ \A k \in 1 .. n : entries'[k] = entries[k]
        /\ \A k \in 1 .. Len(list) : entries'[n + k] = Tag(list[k])
  BY <1>2, ScanAppends
<1>4. vol # Nowhere /\ Len(list) \in Nat /\ DOMAIN entries' = 1 .. n + Len(list)
  BY <1>1, <1>3, ScanAppends
<1>5. Finding
  BY <1>1 DEF ReportInv
<1>6. ASSUME NEW i \in DOMAIN was PROVE Shown(was[i])' <=> Shown(was[i])
  <2>1. ASSUME Shown(was[i]) PROVE Shown(was[i])'
    <3>1. PICK j \in 1 .. n : entries[j] = was[i]
      BY <1>2, <2>1 DEF Shown
    <3>2. j \in DOMAIN entries' /\ entries'[j] = was[i]
      BY <1>3, <1>4, <3>1
    <3>. QED
      BY <1>1, <3>2 DEF Shown
  <2>2. ASSUME Shown(was[i])' PROVE Shown(was[i])
    <3>1. PICK j \in 1 .. n + Len(list) : entries'[j] = was[i]
      BY <1>1, <1>4, <2>2 DEF Shown
    <3>2. CASE j \in 1 .. n
      BY <1>2, <1>3, <3>1, <3>2 DEF Shown
    <3>3. CASE j \notin 1 .. n
      <4>1. j - n \in 1 .. Len(list) /\ n + (j - n) = j
        BY <1>4, <3>3
      <4>2. was[i] = Tag(list[j - n])
        BY <1>3, <3>1, <4>1
      <4>3. was[i].vol = vol
        BY <4>2 DEF Tag
      <4>. QED
        BY <1>4, <1>5, <4>3 DEF Finding
    <3>. QED
      BY <3>2, <3>3
  <2>. QED
    BY <2>1, <2>2
<1>7. Kept' = Kept
  BY <1>1, <1>6 DEF Kept
<1>8. before \in Nat /\ before <= n
  BY <1>1, <1>2, <1>5 DEF Finding
<1>9. PICK f : Embeds(f, before)
  BY <1>8, <1>5, Embedded DEF Finding
<1>10. Embeds(f, before)'
  <2>1. /\ f \in [1 .. before -> DOMAIN was]
        /\ \A a, b \in 1 .. before : a < b => f[a] < f[b]
        /\ \A k \in 1 .. before : entries[k] = was[f[k]]
        /\ \A i \in DOMAIN was : (\A k \in 1 .. before : f[k] # i) => ~Shown(was[i])
    BY <1>9 DEF Embeds
  <2>2. \A k \in 1 .. before : entries'[k] = was[f[k]]
    BY <1>3, <1>8, <2>1
  <2>. QED
    BY <1>1, <1>6, <2>1, <2>2 DEF Embeds
<1>11. Survive(before)'
  <2>1. f \in [1 .. before -> DOMAIN was]'
    BY <1>10 DEF Embeds
  <2>. QED
    BY <1>10, <2>1 DEF Survive
<1>12. before' <= Len(entries') /\ added' = Len(entries') - before'
  BY <1>1, <1>2, <1>3, <1>4, <1>5, <1>8 DEF Finding
<1>13. ASSUME vol' # Nowhere, NEW i \in DOMAIN was, was[i].vol = vol' PROVE Shown(was[i])'
  BY <1>1, <1>5, <1>6, <1>13 DEF Finding
<1>14. Finding'
  BY <1>1, <1>5, <1>7, <1>11, <1>12, <1>13 DEF Finding, Gap
<1>. QED
  BY <1>1, <1>14 DEF ReportInv, ReportTells, Tagged

LEMMA ReportSettle == ASSUME IInv, ReportInv, Settle PROVE ReportInv'
<1>1. /\ UNCHANGED <<entries, was>> /\ pc = "settle" /\ pc' = "idle"
      /\ mask' = Mask /\ first' = FirstNew
  BY DEF Settle
<1>2. /\ entries \in Seq(Entry) /\ was \in Seq(Entry) /\ before \in Nat /\ added \in Nat
      /\ removedAt \in Nat /\ Len(entries) \in Nat
  BY DEF IInv, TypeOK
<1>3. before <= Len(entries) /\ added = Len(entries) - before /\ Survive(before) /\ Gap
  BY <1>1 DEF ReportInv, Finding
<1>4. Cardinality(Kept) = before /\ \A i \in Kept : entries[PlaceOf(i)] = was[i]
  BY <1>2, <1>3, Counted
<1>5. Kept' = Kept /\ \A i : PlaceOf(i)' = PlaceOf(i)
  BY <1>1, Unreported
<1>6. "removed" \in Mask <=> Kept # DOMAIN was
  BY <1>3 DEF Mask, Gap
<1>7. "added" \in Mask <=> Cardinality(Kept) < Len(entries)
  BY <1>2, <1>3, <1>4 DEF Mask
<1>8. "added" \in Mask => FirstNew = Cardinality(Kept)
  BY <1>4 DEF Mask, FirstNew
<1>9. ASSUME Mask = {"removed"}
      PROVE  FirstNew + 1 \in DOMAIN was \ Kept /\ 1 .. FirstNew \subseteq Kept
  <2>1. removed /\ ~(added > 0)
    BY <1>9 DEF Mask
  <2>. QED
    BY <1>3, <2>1 DEF Gap, FirstNew
<1>10. ReportTells'
  BY <1>1, <1>4, <1>5, <1>6, <1>7, <1>8, <1>9 DEF ReportTells
<1>. QED
  BY <1>1, <1>10 DEF ReportInv

LEMMA ReportStep == ASSUME IInv, IInv', ReportInv, [Next]_vars PROVE ReportInv'
<1>1. CASE Probe
  <2>1. /\ was' = entries /\ entries' = entries /\ known' = known
        /\ pc = "idle" /\ pc' = "blocks" /\ Tagged(entries) \subseteq known
    BY <1>1 DEF Probe, IInv, ShownAreKnown, KnownSoon
  <2>. QED
    BY <2>1 DEF ReportInv, ReportTells, Tagged
<1>2. CASE NewBlocks
  <2>1. UNCHANGED <<was, entries, known>> /\ pc = "blocks" /\ pc' = "locate"
    BY <1>2 DEF NewBlocks
  <2>. QED
    BY <2>1 DEF ReportInv, ReportTells, Tagged
<1>3. CASE Environment \/ UNCHANGED vars
  <2>1. /\ UNCHANGED <<entries, was, pc, known, mask, first, before, added, removed,
                       removedAt, vol, fs>>
        /\ pc = "drop" => empty' = empty
    BY <1>3 DEF Environment, Plug, Unplug, Eject, Insert, Change, search, outcome, hardware,
       vars
  <2>. QED
    BY <2>1, ReportQuiet
<1>. QED
  BY <1>1, <1>2, <1>3, ReportLocate, ReportDrop, ReportDropDone, ReportDiscover, ReportScan,
     ReportSettle DEF Next, Poll

(* config_hotplug_poll: the mask and the first changed position it returns *)
(* say what happened to the list since the poll began.                     *)
THEOREM ReportIsRight == Spec => []ReportTells
<1>1. IInv /\ IInv' /\ ReportInv /\ [Next]_vars => ReportInv'
  BY ReportStep
<1>2. ReportInv => ReportTells
  BY DEF ReportInv
<1>. QED
  BY <1>1, <1>2, ReportStart, Invariant, PTL DEF Spec
=============================================================================
