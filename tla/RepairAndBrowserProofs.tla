----------------------- MODULE RepairAndBrowserProofs -----------------------
(* The proofs about two components that share no state.  The first part is   *)
(* about GptRepair, for every disk size, table set, initial content and      *)
(* number of faults; the second about Browser, the rows it shows and the     *)
(* file that is picked from them, for any volumes, directories, names and    *)
(* limits.  No fact of one part is used in the other.                        *)
EXTENDS GptRepairSafe, Browser,
        SequenceTheorems, FiniteSetTheorems, WellFoundedInduction, TLAPS

-----------------------------------------------------------------------------
(* GptRepair.                                                                *)

(* The blocks a repair writes, the last block and an array behind the      *)
(* usable range do not meet.                                               *)
LEMMA Apart ==
    /\ PrimaryBlocks \subseteq LBA
    /\ LastBlock \in LBA /\ LastBlock \notin PrimaryBlocks /\ 1 \in PrimaryBlocks
    /\ \A e \in LBA : e > LastUsable => ArrayBlocks(e) \cap PrimaryBlocks = {}
  BY GeometryAssumption DEF PrimaryBlocks, LBA, ArrayBlocks

(* gpt_build_primary_plan accepts only a valid backup over an invalid      *)
(* primary.                                                                *)
LEMMA PlannableSource ==
    ASSUME NEW disk, NEW bad, NEW full \in BOOLEAN, Plannable(disk, bad, full)
    PROVE  CopyValid(disk, bad, LastBlock) /\ ~CopyValid(disk, bad, 1)
  BY DEF Plannable, Classify, BackupAccepted

(* A copy that is valid while some reads fail is valid when none does.     *)
LEMMA ValidWhenReadable ==
    ASSUME NEW disk, NEW bad, NEW at, CopyValid(disk, bad, at)
    PROVE  ValidAt(disk, at)
  BY DEF ValidAt, CopyValid, HeaderValid, Present, EntriesValid

(* A backup copy depends on no block a repair writes.                      *)
LEMMA SourceFrame ==
    ASSUME NEW old \in Disk, NEW new \in Disk, SourceCopy(old),
           \A l \in LBA \ PrimaryBlocks : new[l] = old[l]
    PROVE  SourceCopy(new) /\ new[LastBlock] = old[LastBlock]
  <1> DEFINE h == old[LastBlock]
  <1>1. new[LastBlock] = h
    BY Apart
  <1>2. h \in Header /\ h.ent \in LBA /\ h.ent > LastUsable
    BY DEF SourceCopy, ValidAt, CopyValid, HeaderValid, Present, Header
  <1>3. ArrayPlaced(h.ent) /\ EntriesMatch(old, h.ent, h.tbl)
    BY DEF SourceCopy, ValidAt, CopyValid, EntriesValid
  <1>4. \A i \in 1 .. ArrLen : /\ h.ent + i - 1 \in LBA \ PrimaryBlocks
    BY <1>2, <1>3, GeometryAssumption DEF ArrayPlaced, LBA, PrimaryBlocks
  <1>5. EntriesMatch(new, h.ent, h.tbl)
    BY <1>3, <1>4 DEF EntriesMatch
  <1>6. QED
    BY <1>1, <1>5 DEF SourceCopy, ValidAt, CopyValid, HeaderValid, Present, EntriesValid

-----------------------------------------------------------------------------
(* The backup's header, relocated, is a header. *)
LEMMA NewHeaderType ==
    ASSUME NEW src \in Header
    PROVE  NewHeader(src) \in Header
  BY GeometryAssumption DEF NewHeader, Header, LBA

(* A read returns a sector from every block. *)
LEMMA ViewType ==
    ASSUME TypeOK
    PROVE  View \in Disk
  BY DEF TypeOK, View, Disk

(* What a request can do to the counter of faults keeps it in range. *)
LEMMA FaultType ==
    ASSUME TypeOK, Fault
    PROVE  faults' \in 0 .. MaxFaults
  BY RepairAssumption DEF TypeOK, Fault

(* The same for a sequence of reads. *)
LEMMA ReadErrorsType ==
    ASSUME TypeOK, NEW bad, ReadErrors(bad)
    PROVE  faults' \in 0 .. MaxFaults
  BY FaultType DEF TypeOK, ReadErrors

(* Writing a block sequence, whole or torn, leaves a well-formed cache. *)
LEMMA WriteType ==
    ASSUME TypeOK, NEW new, \A l \in DOMAIN new : new[l] \in Sector,
           WriteBlocks(new) \/ WriteBlocksFails(new)
    PROVE  /\ cache' \in [LBA -> Sector \cup {Clean}]
           /\ faults' \in 0 .. MaxFaults
  <1>1. CASE WriteBlocks(new)
    BY <1>1 DEF WriteBlocks, TypeOK
  <1>2. CASE WriteBlocksFails(new)
    <2>1. CASE changed /\ UNCHANGED <<cache, faults>>
      BY <2>1 DEF TypeOK
    <2>2. CASE ~changed
      <3>1. faults' \in 0 .. MaxFaults
        BY <1>2, <2>2, FaultType DEF WriteBlocksFails
      <3>2. Junk \in Sector
        BY DEF Sector
      <3> QED
        BY <1>2, <2>2, <3>1, <3>2 DEF WriteBlocksFails, TypeOK
    <2> QED
      BY <1>2, <2>1, <2>2 DEF WriteBlocksFails
  <1> QED
    BY <1>1, <1>2

(* Flushing, whether it succeeds or fails, leaves a well-formed drive. *)
LEMMA FlushType ==
    ASSUME TypeOK, FlushBlocks \/ FlushBlocksFails
    PROVE  /\ platter' \in [Media -> Disk]
           /\ cache' \in [LBA -> Sector \cup {Clean}]
           /\ faults' \in 0 .. MaxFaults
  <1>1. CASE FlushBlocks
    BY <1>1, ViewType DEF FlushBlocks, TypeOK
  <1>2. CASE FlushBlocksFails
    BY <1>2, FaultType DEF FlushBlocksFails, TypeOK
  <1> QED
    BY <1>1, <1>2

(* What WriteEntries and WriteHeader send to the drive are sectors. *)
LEMMA NewSectors ==
    ASSUME plan \in Header
    PROVE  /\ \A l \in DOMAIN NewEntries : NewEntries[l] \in Sector
           /\ \A l \in DOMAIN NewHeaderSector : NewHeaderSector[l] \in Sector
  <1>1. \A l \in 2 .. ArrLen + 1 : l - 1 \in 1 .. ArrLen
    BY GeometryAssumption
  <1>2. Image[plan.tbl] \in [1 .. ArrLen -> Contents]
    BY TableAssumption DEF Header
  <1>3. NewHeader(plan) \in Sector
    BY NewHeaderType DEF Sector
  <1> QED
    BY <1>1, <1>2, <1>3 DEF NewEntries, NewHeaderSector, Sector

(* An offer, from either front end, stores a backup header as the plan. *)
LEMMA OfferType ==
    ASSUME TypeOK, NEW front \in {"gui", "text"}, NEW full \in BOOLEAN, NEW bad,
           NEW next \in {"warn", "typed"}, Offer(front, full, bad, next)
    PROVE  TypeOK'
  <1>1. View[LastBlock] \in Header
    BY PlannableSource DEF Offer, CopyValid, HeaderValid, Present
  <1> QED
    BY <1>1, ReadErrorsType DEF Offer, TypeOK, Asking, Outcomes

-----------------------------------------------------------------------------
(* Every step keeps every variable in its type, and the dialogue never     *)
(* reaches a confirmation, a write or a result without a plan.             *)
LEMMA TypeStep == TypeOK /\ [Next]_vars => TypeOK'
  <1> SUFFICES ASSUME TypeOK, [Next]_vars PROVE TypeOK'
    OBVIOUS
  <1> USE DEF Asking, Executing, Writing, Outcomes
  <1>1. CASE WarnRun \/ CmdRepair
    BY <1>1, OfferType DEF WarnRun, CmdRepair
  <1>2. CASE Browse \/ Confirm
    BY <1>2 DEF Browse, Confirm, Navigate, TypeOK, media, dialogue
  <1>3. CASE Decline
    BY <1>3 DEF Decline, TypeOK, media
  <1>4. CASE Revalidate
    <2>1. PICK bad \in SUBSET BadBlocks :
             /\ ReadErrors(bad)
             /\ \/ pc' = "entries" /\ preimage' = Preimage(bad) /\ UNCHANGED outcome
                \/ Finish("disk_changed") /\ preimage' = NoImage
      BY <1>4 DEF Revalidate
    <2>2. \A l \in 0 .. ArrLen + 1 : View[l] \in Sector
      BY ViewType, GeometryAssumption DEF Disk, LBA
    <2>3. Preimage(bad) \in [0 .. ArrLen + 1 -> Sector] \cup {NoImage}
      BY <2>2 DEF Preimage
    <2> QED
      BY <1>4, <2>1, <2>3, ReadErrorsType DEF Revalidate, Finish, TypeOK, media, dialogue
  <1>5. CASE WriteEntries
    <2>1. plan \in Header
      BY <1>5 DEF WriteEntries, TypeOK
    <2> QED
      BY <1>5, <2>1, NewSectors, WriteType DEF WriteEntries, Finish, TypeOK, dialogue
  <1>6. CASE WriteHeader
    <2>1. plan \in Header
      BY <1>6 DEF WriteHeader, TypeOK
    <2> QED
      BY <1>6, <2>1, NewSectors, WriteType DEF WriteHeader, Finish, TypeOK, dialogue
  <1>7. CASE FlushEntries
    BY <1>7, FlushType DEF FlushEntries, Finish, TypeOK, dialogue
  <1>8. CASE FlushHeader
    BY <1>8, FlushType DEF FlushHeader, Finish, TypeOK, dialogue
  <1>9. CASE Verify
    <2>1. faults' \in 0 .. MaxFaults
      BY <1>9, ReadErrorsType DEF Verify
    <2> QED
      BY <1>9, <2>1 DEF Verify, Finish, TypeOK, media, dialogue
  <1>10. CASE Dismiss
    BY <1>10 DEF Dismiss, TypeOK, media
  <1>11. CASE Destage
    <2>1. PICK l \in LBA :
             /\ cache[l] # Clean
             /\ platter' = [platter EXCEPT ![inserted][l] = cache[l]]
             /\ cache' = [cache EXCEPT ![l] = Clean]
      BY <1>11 DEF Destage
    <2>2. platter' \in [Media -> Disk]
      BY <2>1 DEF TypeOK, Disk
    <2>3. cache' \in [LBA -> Sector \cup {Clean}]
      BY <2>1 DEF TypeOK
    <2> QED
      BY <1>11, <2>2, <2>3 DEF Destage, TypeOK, dialogue
  <1>12. CASE PowerCut
    BY <1>12, FaultType DEF PowerCut, TypeOK
  <1>13. CASE SwapMedium
    BY <1>13, FaultType DEF SwapMedium, TypeOK, dialogue
  <1>14. CASE UNCHANGED vars
    BY <1>14 DEF vars, TypeOK
  <1> QED
    BY <1>1, <1>2, <1>3, <1>4, <1>5, <1>6, <1>7, <1>8, <1>9, <1>10, <1>11, <1>12,
       <1>13, <1>14 DEF Next, Execute

(* The initial states are of the declared types. *)
LEMMA InitTypeOK == Init => TypeOK
  <1> SUFFICES ASSUME Init PROVE TypeOK
    OBVIOUS
  <1>1. platter \in [Media -> Disk] /\ 0 \in 0 .. MaxFaults
    BY RepairAssumption DEF Init
  <1>2. cache \in [LBA -> Sector \cup {Clean}]
    BY DEF Init
  <1> QED
    BY <1>1, <1>2, RepairAssumption
    DEF Init, TypeOK, Outcomes, Asking, Executing, Writing

(* TypeOK holds in every reachable state. *)
THEOREM TypeCorrect == Spec => []TypeOK
  BY InitTypeOK, TypeStep, PTL DEF Spec

-----------------------------------------------------------------------------
(* With nothing cached, a read returns what is on the platter. *)
LEMMA EmptyView ==
    ASSUME TypeOK, CacheEmpty
    PROVE  View = platter[inserted]
  BY DEF TypeOK, CacheEmpty, View, Disk

(* Only the medium under repair changes, only in the blocks of its primary *)
(* copy, and only while it is in the drive, writable and has a backup.     *)
LEMMA PlatterFrame ==
    ASSUME TypeOK, CacheScope, [Next]_vars, NEW m \in Media, platter'[m] # platter[m]
    PROVE  /\ m = target /\ inserted = target /\ target \notin locked
           /\ SourceCopy(platter[m])
           /\ \A l \in LBA \ PrimaryBlocks : platter'[m][l] = platter[m][l]
  <1>1. CASE FlushBlocks
    <2>1. m = inserted /\ platter'[m] = View
      BY <1>1 DEF FlushBlocks, TypeOK
    <2>2. ~CacheEmpty
      BY <2>1, EmptyView
    <2>3. \A l \in LBA \ PrimaryBlocks : View[l] = platter[m][l]
      BY <2>1 DEF CacheScope, View
    <2> QED
      BY <2>1, <2>2, <2>3 DEF CacheScope
  <1>2. CASE Destage
    <2>1. PICK l \in LBA : /\ cache[l] # Clean
                           /\ platter' = [platter EXCEPT ![inserted][l] = cache[l]]
      BY <1>2 DEF Destage
    <2>2. m = inserted /\ ~CacheEmpty /\ l \in PrimaryBlocks
      BY <2>1 DEF CacheEmpty, CacheScope, TypeOK
    <2>3. \A k \in LBA \ PrimaryBlocks : platter'[m][k] = platter[m][k]
      BY <2>1, <2>2 DEF TypeOK, Disk
    <2> QED
      BY <2>2, <2>3 DEF CacheScope
  <1>3. CASE ~FlushBlocks /\ ~Destage
    BY <1>3 DEF Next, vars, WarnRun, CmdRepair, Offer, Browse, Confirm, Navigate, Decline,
       Execute, Revalidate, WriteEntries, FlushEntries, WriteHeader, FlushHeader,
       FlushBlocksFails, Verify, Dismiss, PowerCut, SwapMedium, media
  <1> QED
    BY <1>1, <1>2, <1>3

(* A valid backup copy survives every step, unchanged. *)
LEMMA SourceKept ==
    ASSUME TypeOK, TypeOK', CacheScope, [Next]_vars, NEW m \in Media, SourceCopy(platter[m])
    PROVE  SourceCopy(platter'[m]) /\ platter'[m][LastBlock] = platter[m][LastBlock]
  <1>1. CASE platter'[m] = platter[m]
    BY <1>1
  <1>2. CASE platter'[m] # platter[m]
    <2>1. platter[m] \in Disk /\ platter'[m] \in Disk
      BY DEF TypeOK
    <2> QED
      BY <1>2, <2>1, PlatterFrame, SourceFrame
  <1> QED
    BY <1>1, <1>2

(* No step moves a backup header to another place. *)
LEMMA BackupPlacedStep ==
    ASSUME TypeOK, TypeOK', CacheScope, BackupPlaced, [Next]_vars
    PROVE  BackupPlaced'
  <1> SUFFICES ASSUME NEW m \in Media PROVE platter'[m][LastBlock] = platter[m][LastBlock]
    BY DEF BackupPlaced
  <1> QED
    BY PlatterFrame, Apart

-----------------------------------------------------------------------------
(* A write of the plan adds only primary blocks to the cache, and only on  *)
(* the medium the plan was built for.                                      *)
LEMMA WriteScope ==
    ASSUME TypeOK, CacheScope, PlanSound, plan \in Header,
           NEW new, DOMAIN new \subseteq PrimaryBlocks,
           WriteBlocks(new) \/ WriteBlocksFails(new)
    PROVE  /\ \A l \in LBA \ PrimaryBlocks : cache'[l] = Clean
           /\ cache' # cache => /\ inserted = target /\ target \notin locked
                               /\ SourceCopy(platter[target])
  <1>1. CASE changed
    BY <1>1 DEF WriteBlocks, WriteBlocksFails, CacheScope
  <1>2. CASE ~changed
    BY <1>2 DEF WriteBlocks, WriteBlocksFails, CacheScope, PlanSound
  <1> QED
    BY <1>1, <1>2

(* What waits in the cache stays within the primary copy of a writable     *)
(* medium with a valid backup.                                             *)
LEMMA CacheScopeStep ==
    ASSUME TypeOK, TypeOK', CacheScope, PlanSound, [Next]_vars
    PROVE  CacheScope'
  <1>1. CASE CacheEmpty'
    BY <1>1, Apart DEF CacheScope, CacheEmpty
  <1>2. CASE ~CacheEmpty' /\ cache' = cache
    <2>1. inserted = target /\ target \notin locked /\ SourceCopy(platter[target])
      BY <1>2 DEF CacheScope, CacheEmpty
    <2>2. inserted' = inserted /\ target' = target /\ locked' = locked
      BY <1>2, <2>1 DEF Next, vars, WarnRun, CmdRepair, Offer, Browse, Confirm, Navigate,
         Decline, Execute, Revalidate, WriteEntries, FlushEntries, WriteHeader, FlushHeader,
         Verify, Dismiss, Destage, PowerCut, SwapMedium, media, dialogue, CacheEmpty
    <2>3. SourceCopy(platter'[target])
      BY <2>1, SourceKept DEF TypeOK
    <2> QED
      BY <1>2, <2>1, <2>2, <2>3 DEF CacheScope
  <1>3. CASE ~CacheEmpty' /\ cache' # cache
    <2>1. CASE WriteEntries \/ WriteHeader
      <3>1. plan \in Header
        BY <2>1 DEF WriteEntries, WriteHeader, TypeOK, Executing, Writing
      <3>2. DOMAIN NewEntries \subseteq PrimaryBlocks
            /\ DOMAIN NewHeaderSector \subseteq PrimaryBlocks
        BY GeometryAssumption DEF NewEntries, NewHeaderSector, PrimaryBlocks
      <3>3. /\ \A l \in LBA \ PrimaryBlocks : cache'[l] = Clean
            /\ inserted = target /\ target \notin locked
            /\ SourceCopy(platter[target])
        BY <1>3, <2>1, <3>1, <3>2, WriteScope DEF WriteEntries, WriteHeader
      <3> QED
        BY <2>1, <3>3 DEF WriteEntries, WriteHeader, CacheScope, dialogue
    <2>2. CASE Destage
      <3>1. /\ ~CacheEmpty
            /\ \A l \in LBA \ PrimaryBlocks : cache'[l] = Clean
        BY <2>2 DEF Destage, CacheScope, CacheEmpty, TypeOK
      <3>2. inserted = target /\ target \notin locked /\ SourceCopy(platter'[target])
        BY <3>1, SourceKept DEF CacheScope, TypeOK
      <3> QED
        BY <2>2, <3>1, <3>2 DEF Destage, CacheScope, dialogue
    <2> QED
      BY <1>3, <2>1, <2>2 DEF Next, vars, WarnRun, CmdRepair, Offer, Browse, Confirm, Navigate,
         Decline, Execute, Revalidate, FlushEntries, FlushHeader, FlushBlocks,
         FlushBlocksFails, Verify, Dismiss, PowerCut, SwapMedium, media, CacheEmpty
  <1> QED
    BY <1>1, <1>2, <1>3

-----------------------------------------------------------------------------
(* A new plan describes a valid backup of the medium it was made for. *)
LEMMA OfferSound ==
    ASSUME TypeOK, CacheScope, BackupPlaced, NEW front, NEW full \in BOOLEAN, NEW bad,
           NEW next, Offer(front, full, bad, next)
    PROVE  PlanSound'
  <1> DEFINE d == platter[inserted]
  <1>1. View \in Disk /\ d \in Disk
    BY ViewType DEF TypeOK
  <1>2. \A l \in LBA \ PrimaryBlocks : d[l] = View[l]
    BY DEF CacheScope, View
  <1>3. View[LastBlock] = d[LastBlock]
    BY <1>2, Apart
  <1>4. ValidAt(View, LastBlock)
    BY PlannableSource, ValidWhenReadable DEF Offer
  <1>5. View[LastBlock].ent > LastUsable
    BY <1>3, <1>4 DEF BackupPlaced, ValidAt, CopyValid, HeaderValid, Present, TypeOK
  <1>6. SourceCopy(d)
    BY <1>1, <1>2, <1>4, <1>5, SourceFrame DEF SourceCopy
  <1> QED
    BY <1>3, <1>6 DEF Offer, PlanSound

(* A plan stays true of its medium through every step. *)
LEMMA PlanSoundStep ==
    ASSUME TypeOK, TypeOK', CacheScope, BackupPlaced, PlanSound, [Next]_vars
    PROVE  PlanSound'
  <1>1. CASE WarnRun \/ CmdRepair
    BY <1>1, OfferSound DEF WarnRun, CmdRepair
  <1>2. CASE plan' = NoPlan
    BY <1>2, RepairAssumption DEF PlanSound
  <1>3. CASE ~(WarnRun \/ CmdRepair) /\ plan' # NoPlan
    <2>1. /\ plan' = plan /\ target' = target /\ locked' = locked
          /\ \/ inserted' = inserted /\ changed' = changed
             \/ changed' = TRUE
      BY <1>3 DEF Next, vars, Browse, Confirm, Navigate, Decline, Execute, Revalidate,
         WriteEntries, FlushEntries, WriteHeader, FlushHeader, Verify, Dismiss, Destage,
         PowerCut, SwapMedium, media, dialogue
    <2>2. SourceCopy(platter[target])
            => SourceCopy(platter'[target]) /\ platter'[target][LastBlock] = platter[target][LastBlock]
      BY SourceKept DEF TypeOK
    <2> QED
      BY <2>1, <2>2 DEF PlanSound
  <1> QED
    BY <1>1, <1>2, <1>3

-----------------------------------------------------------------------------
(* Where the relocated entries go does not meet the header block. *)
LEMMA EntryBlocks ==
    /\ \A i \in 1 .. ArrLen : 2 + i - 1 \in LBA /\ 2 + i - 1 \in 2 .. ArrLen + 1
    /\ 1 \notin 2 .. ArrLen + 1 /\ 2 .. ArrLen + 1 \subseteq LBA
  BY GeometryAssumption DEF LBA

(* Entries are durable before the header is written and the whole primary  *)
(* copy is durable before it is verified, whatever the drive writes back   *)
(* on its own in between.                                                  *)
LEMMA CommitOrderStep ==
    ASSUME TypeOK, TypeOK', CacheScope, PlanSound, CommitOrder, [Next]_vars
    PROVE  CommitOrder'
  <1> USE DEF Asking
  <1>1. CASE WriteEntries
    <2>1. CASE pc' = "flush_entries"
      <3>1. WriteBlocks(NewEntries) /\ plan \in Header
        BY <1>1, <2>1 DEF WriteEntries, Finish, TypeOK, Executing, Writing
      <3>2. \A l \in 2 .. ArrLen + 1 :
               cache'[l] = Image[plan.tbl][l - 1] /\ cache'[l] # Clean
        <4>1. \A l \in 2 .. ArrLen + 1 : NewEntries[l] \in Sector
          BY <3>1, NewSectors DEF NewEntries
        <4> QED
          BY <3>1, <4>1, EntryBlocks, RepairAssumption DEF WriteBlocks, NewEntries
      <3>3. \A i \in 1 .. ArrLen : (2 + i - 1) - 1 = i
        BY GeometryAssumption
      <3>4. EntriesMatch(View, 2, plan.tbl)'
        BY <1>1, <3>2, <3>3, EntryBlocks DEF EntriesMatch, View, WriteEntries, dialogue
      <3> QED
        BY <2>1, <3>4 DEF CommitOrder
    <2> QED
      BY <1>1, <2>1 DEF WriteEntries, Finish, CommitOrder
  <1>2. CASE FlushEntries
    <2>1. CASE pc' = "header" /\ ~changed'
      <3>1. /\ FlushBlocks /\ ~changed /\ pc = "flush_entries" /\ inserted = target
            /\ target' = target /\ plan' = plan
        BY <1>2, <2>1 DEF FlushEntries, Finish, FlushBlocks, PlanSound, TypeOK, Executing,
           Writing, dialogue
      <3>2. platter'[target] = View
        BY <3>1 DEF FlushBlocks, TypeOK
      <3>3. \A l \in 2 .. ArrLen + 1 : cache'[l] = Clean
        BY <3>1, EntryBlocks DEF FlushBlocks
      <3> QED
        BY <2>1, <3>1, <3>2, <3>3 DEF CommitOrder, EntriesMatch
    <2> QED
      BY <1>2, <2>1 DEF FlushEntries, Finish, CommitOrder
  <1>3. CASE WriteHeader
    <2>1. CASE pc' = "flush_header" /\ ~changed'
      <3>1. /\ WriteBlocks(NewHeaderSector) /\ ~changed /\ pc = "header"
            /\ platter' = platter /\ target' = target /\ plan' = plan
        BY <1>3, <2>1 DEF WriteHeader, Finish, WriteBlocks, dialogue
      <3>2. \A l \in 2 .. ArrLen + 1 : cache'[l] = cache[l]
        BY <3>1, EntryBlocks DEF WriteBlocks, NewHeaderSector
      <3> QED
        BY <2>1, <3>1, <3>2 DEF CommitOrder, EntriesMatch
    <2> QED
      BY <1>3, <2>1 DEF WriteHeader, Finish, CommitOrder
  <1>4. CASE FlushHeader
    BY <1>4 DEF FlushHeader, FlushBlocks, Finish, CommitOrder, CacheEmpty
  <1>5. CASE Destage
    <2>1. PICK l \in LBA :
             /\ cache[l] # Clean
             /\ platter' = [platter EXCEPT ![inserted][l] = cache[l]]
             /\ cache' = [cache EXCEPT ![l] = Clean]
      BY <1>5 DEF Destage
    <2>2. /\ pc' = pc /\ plan' = plan /\ target' = target /\ changed' = changed
          /\ inserted' = inserted
      BY <1>5 DEF Destage, dialogue
    <2>3. \A k \in LBA : View'[k] = View[k]
      BY <2>1, <2>2 DEF View, TypeOK, Disk
    <2>4. EntriesMatch(View, 2, plan.tbl) => EntriesMatch(View, 2, plan.tbl)'
      BY <2>2, <2>3, EntryBlocks DEF EntriesMatch
    <2>5. ASSUME pc \in {"header", "flush_header"}, ~changed
          PROVE  /\ EntriesMatch(platter'[target], 2, plan.tbl)
                 /\ \A k \in 2 .. ArrLen + 1 : cache'[k] = Clean
      <3>1. l \notin 2 .. ArrLen + 1
        BY <2>1, <2>5 DEF CommitOrder
      <3>2. \A k \in 2 .. ArrLen + 1 :
               platter'[target][k] = platter[target][k] /\ cache'[k] = cache[k]
        BY <2>1, <3>1, EntryBlocks DEF TypeOK, Disk
      <3> QED
        BY <2>5, <3>2, EntryBlocks DEF CommitOrder, EntriesMatch
    <2>6. ~(pc = "verify" /\ ~changed)
      BY <2>1 DEF CommitOrder, CacheEmpty
    <2> QED
      BY <2>2, <2>4, <2>5, <2>6 DEF CommitOrder
  <1>6. CASE SwapMedium
    BY <1>6 DEF SwapMedium, CommitOrder
  <1>7. CASE UNCHANGED vars
    BY <1>7 DEF vars, CommitOrder, EntriesMatch, View, CacheEmpty
  <1>8. CASE \/ WarnRun \/ CmdRepair \/ Browse \/ Confirm \/ Decline \/ Revalidate
             \/ Verify \/ Dismiss \/ PowerCut
    <2>1. pc' \notin {"flush_entries", "header", "flush_header", "verify"}
      BY <1>8 DEF WarnRun, CmdRepair, Offer, Browse, Confirm, Navigate, Decline, Revalidate,
         Verify, Finish, Dismiss, PowerCut
    <2> QED
      BY <2>1 DEF CommitOrder
  <1> QED
    BY <1>1, <1>2, <1>3, <1>4, <1>5, <1>6, <1>7, <1>8 DEF Next, Execute

-----------------------------------------------------------------------------
(* A full diagnosis that finds a disk healthy in spite of failing reads    *)
(* would find it healthy without them.                                     *)
LEMMA HealthyWhenReadable ==
    ASSUME NEW disk, NEW bad, Classify(disk, bad, TRUE) = "healthy"
    PROVE  Classify(disk, {}, TRUE) = "healthy"
  <1>1. /\ CopyValid(disk, bad, 1) /\ CopyValid(disk, bad, LastBlock)
        /\ disk[1].tbl = disk[LastBlock].tbl
    BY DEF Classify, BackupAccepted, CopiesAgree
  <1>2. CopyValid(disk, {}, 1) /\ CopyValid(disk, {}, LastBlock)
    BY <1>1, ValidWhenReadable DEF ValidAt
  <1> QED
    BY <1>1, <1>2 DEF Classify, BackupAccepted, CopiesAgree, CopyValid, HeaderValid

(* Both copies of a healthy disk are valid and hold the same table. *)
LEMMA HealthyCopies ==
    ASSUME NEW disk, Classify(disk, {}, TRUE) = "healthy"
    PROVE  /\ ValidAt(disk, 1) /\ ValidAt(disk, LastBlock)
           /\ disk[1].tbl = disk[LastBlock].tbl
  BY DEF Classify, BackupAccepted, CopiesAgree, ValidAt

(* Success is reported over an empty cache and is never followed by a      *)
(* write.                                                                  *)
LEMMA SettledStep ==
    ASSUME TypeOK, TypeOK', CacheScope, PlanSound, CommitOrder, Settled, [Next]_vars
    PROVE  Settled'
  <1> SUFFICES ASSUME outcome' = "success"
               PROVE  /\ pc' = "result" /\ CacheEmpty'
                      /\ Classify(platter'[target'], {}, TRUE) = "healthy"
    BY DEF Settled
  <1>1. CASE Verify
    <2>1. PICK bad : ~changed /\ Classify(View, bad, TRUE) = "healthy" /\ pc' = "result"
      BY <1>1 DEF Verify, Finish
    <2>2. CacheEmpty /\ inserted = target
      BY <1>1, <2>1 DEF CommitOrder, PlanSound, Verify, TypeOK, Executing
    <2>3. View = platter[target]
      BY <2>2, EmptyView
    <2> QED
      BY <1>1, <2>1, <2>2, <2>3, HealthyWhenReadable
      DEF Verify, media, dialogue, CacheEmpty
  <1>2. CASE ~Verify
    <2>1. outcome = "success"
      BY <1>2 DEF Next, vars, WarnRun, CmdRepair, Offer, Browse, Confirm, Navigate, Decline,
         Execute, Revalidate, WriteEntries, FlushEntries, WriteHeader, FlushHeader, Finish,
         Dismiss, Destage, PowerCut, SwapMedium
    <2>2. /\ pc = "result" /\ CacheEmpty
          /\ Classify(platter[target], {}, TRUE) = "healthy"
      BY <2>1 DEF Settled
    <2>3. SwapMedium \/ UNCHANGED vars
      BY <1>2, <2>2 DEF Next, WarnRun, CmdRepair, Offer, Browse, Confirm, Navigate, Decline,
         Execute, Revalidate, WriteEntries, FlushEntries, WriteHeader, FlushHeader, Dismiss,
         Destage, PowerCut, CacheEmpty
    <2> QED
      BY <2>2, <2>3 DEF SwapMedium, vars, dialogue, CacheEmpty
  <1> QED
    BY <1>1, <1>2

(* The inductive invariant. *)
THEOREM Invariant == Spec => []IInv
  <1>1. Init => IInv
    <2> SUFFICES ASSUME Init PROVE IInv
      OBVIOUS
    <2>1. TypeOK
      BY InitTypeOK
    <2>2. BackupPlaced
      BY BackupBehindPartitions DEF Init, BackupPlaced
    <2>3. CacheScope
      BY Apart DEF Init, CacheScope, CacheEmpty
    <2> QED
      BY <2>1, <2>2, <2>3, RepairAssumption DEF Init, IInv, PlanSound, CommitOrder, Settled
  <1>2. IInv /\ [Next]_vars => IInv'
    BY TypeStep, BackupPlacedStep, CacheScopeStep, PlanSoundStep, CommitOrderStep, SettledStep
    DEF IInv
  <1> QED
    BY <1>1, <1>2, PTL DEF Spec

-----------------------------------------------------------------------------
(* The header is sent to the drive only over durable entries. *)
THEOREM EntriesBeforeHeader == Spec => []OrderedCommit
  <1>1. IInv => OrderedCommit
    <2> SUFFICES ASSUME IInv, pc = "flush_header", ~changed
                 PROVE  /\ inserted = target
                        /\ EntriesMatch(platter[target], 2, plan.tbl)
                        /\ \A l \in 2 .. ArrLen + 1 : cache[l] = Clean
      BY DEF OrderedCommit
    <2>1. plan \in Header
      BY DEF IInv, TypeOK, Executing, Writing
    <2> QED
      BY <2>1 DEF IInv, PlanSound, CommitOrder
  <1> QED
    BY <1>1, Invariant, PTL

(* A reported success survives a power cut. *)
THEOREM DurableSuccess == Spec => []SuccessIsDurable
  <1>1. IInv => SuccessIsDurable
    BY DEF IInv, Settled, SuccessIsDurable
  <1> QED
    BY <1>1, Invariant, PTL

(* Writes stay on the medium the plan was confirmed for. *)
THEOREM OnlyTheTarget == Spec => TargetOnly
  <1>1. IInv /\ [Next]_vars
          => [\A m \in Media : platter'[m] # platter[m] => m = target /\ m \notin locked]_vars
    BY PlatterFrame DEF IInv
  <1> QED
    BY <1>1, Invariant, PTL DEF Spec, TargetOnly

(* A valid backup copy is never written. *)
THEOREM BackupUntouched == Spec => BackupNeverWritten
  <1>1. IInv /\ IInv' /\ [Next]_vars
          => [\A m \in Media : ValidAt(platter[m], LastBlock)
                => /\ platter'[m][LastBlock] = platter[m][LastBlock]
                   /\ ValidAt(platter'[m], LastBlock)]_vars
    <2> SUFFICES ASSUME IInv, IInv', [Next]_vars, NEW m \in Media, ValidAt(platter[m], LastBlock)
                 PROVE  platter'[m][LastBlock] = platter[m][LastBlock] /\ ValidAt(platter'[m], LastBlock)
      OBVIOUS
    <2>1. SourceCopy(platter[m])
      BY DEF IInv, BackupPlaced, SourceCopy, ValidAt, CopyValid, HeaderValid, Present
    <2> QED
      BY <2>1, SourceKept DEF IInv, SourceCopy
  <1> QED
    BY <1>1, Invariant, PTL DEF Spec, BackupNeverWritten

(* No step, and no power cut after it, loses the last valid copy. *)
THEOREM NeverUnrecoverable == Spec => AlwaysRecoverable
  <1>1. IInv /\ IInv' /\ [Next]_vars
          => [\A m \in Media : Recoverable(platter[m]) # {}
                                  => Recoverable(platter'[m]) # {}]_vars
    <2> SUFFICES ASSUME IInv, IInv', [Next]_vars, NEW m \in Media,
                        Recoverable(platter[m]) # {}, platter'[m] # platter[m]
                 PROVE  Recoverable(platter'[m]) # {}
      OBVIOUS
    <2>1. SourceCopy(platter[m])
      BY PlatterFrame DEF IInv
    <2>2. ValidAt(platter'[m], LastBlock)
      BY <2>1, SourceKept DEF IInv, SourceCopy
    <2> QED
      BY <2>2 DEF Recoverable
  <1> QED
    BY <1>1, Invariant, PTL DEF Spec, AlwaysRecoverable

(* gpt_classify: with a valid backup and a protective MBR the worst that is *)
(* said of a disk is that its primary copy is to be repaired.               *)
LEMMA RepairableWithBackup ==
    ASSUME NEW disk, ValidAt(disk, LastBlock), disk[0] = Protective
    PROVE  Classify(disk, {}, TRUE) \in {"primary_corrupt", "healthy", "copies_differ"}
  <1>1. CopyValid(disk, {}, LastBlock) /\ Present(disk, {}, LastBlock)
    BY DEF ValidAt, CopyValid, HeaderValid
  <1>2. BackupAccepted(disk, {}, TRUE) /\ MbrProtective(disk, {})
    BY <1>1 DEF BackupAccepted, MbrProtective
  <1> QED
    BY <1>1, <1>2 DEF Classify

(* A disk that a repair would accept is never turned into one that needs    *)
(* manual recovery: the backup and block 0 are out of the repair's reach.   *)
THEOREM NeverStranded == Spec => StaysRepairable
  <1>1. IInv /\ IInv' /\ [Next]_vars
          => [\A m \in Media :
                Classify(platter[m], {}, TRUE) = "primary_corrupt" /\ platter[m][0] = Protective
                => Classify(platter'[m], {}, TRUE)
                     \in {"primary_corrupt", "healthy", "copies_differ"}]_vars
    <2> SUFFICES ASSUME IInv, IInv', [Next]_vars, NEW m \in Media,
                        Classify(platter[m], {}, TRUE) = "primary_corrupt",
                        platter[m][0] = Protective
                 PROVE  ValidAt(platter'[m], LastBlock) /\ platter'[m][0] = Protective
      BY RepairableWithBackup
    <2>1. ValidAt(platter[m], LastBlock)
      BY DEF Classify, BackupAccepted, ValidAt
    <2>2. SourceCopy(platter[m])
      BY <2>1 DEF IInv, BackupPlaced, SourceCopy, ValidAt, CopyValid, HeaderValid, Present
    <2>3. ValidAt(platter'[m], LastBlock)
      BY <2>2, SourceKept DEF IInv, SourceCopy
    <2>4. 0 \in LBA \ PrimaryBlocks
      BY GeometryAssumption DEF LBA, PrimaryBlocks
    <2>5. platter'[m][0] = platter[m][0]
      BY <2>4, PlatterFrame DEF IInv
    <2> QED
      BY <2>3, <2>5
  <1> QED
    BY <1>1, Invariant, PTL DEF Spec, StaysRepairable

-----------------------------------------------------------------------------
(* Every step of the repair is a step of RedundantTable or a stutter. *)
LEMMA RefinementStep ==
    ASSUME IInv, IInv', [Next]_vars
    PROVE  [Redundant!Next]_<<PrimaryTable, BackupTable, Restored>>
  <1> USE DEF IInv
  <1>1. \A m \in Media : BackupTable'[m] = BackupTable[m]
    <2> SUFFICES ASSUME NEW m \in Media PROVE TableAt(platter'[m], LastBlock) = TableAt(platter[m], LastBlock)
      BY DEF BackupTable
    <2>1. CASE platter'[m] = platter[m]
      BY <2>1
    <2>2. CASE platter'[m] # platter[m]
      <3>1. SourceCopy(platter[m])
        BY <2>2, PlatterFrame
      <3> QED
        BY <3>1, SourceKept DEF TableAt, SourceCopy
    <2> QED
      BY <2>1, <2>2
  <1>2. BackupTable' = BackupTable
    BY <1>1 DEF BackupTable
  <1>3. CASE platter' # platter
    <2>1. PICK m \in Media : platter'[m] # platter[m]
      BY <1>3 DEF TypeOK
    <2>2. m = target /\ SourceCopy(platter[m])
      BY <2>1, PlatterFrame
    <2>3. \A k \in Media \ {m} : platter'[k] = platter[k]
      BY <2>2, PlatterFrame
    <2>4. FlushBlocks \/ Destage
      BY <1>3 DEF Next, vars, WarnRun, CmdRepair, Offer, Browse, Confirm, Navigate, Decline,
         Execute, Revalidate, WriteEntries, FlushEntries, WriteHeader, FlushHeader,
         FlushBlocksFails, Verify, Dismiss, PowerCut, SwapMedium, media
    <2>5. ~CacheEmpty
      BY <2>1, <2>4, EmptyView DEF FlushBlocks, Destage, TypeOK, CacheEmpty
    <2>6. outcome # "success"
      BY <2>5 DEF Settled
    <2>7. outcome' # "success"
      BY <1>3, <2>6 DEF Next, vars, WarnRun, CmdRepair, Offer, Browse, Confirm, Navigate,
         Decline, Execute, Revalidate, WriteEntries, FlushEntries, WriteHeader, FlushHeader,
         Finish, Verify, Dismiss, Destage, PowerCut, SwapMedium, media
    <2>8. Restored = NoMedium /\ Restored' = NoMedium
      BY <2>6, <2>7 DEF Restored
    <2>9. BackupTable[m] # NoTable
      BY <2>2, NoValueAssumption
      DEF BackupTable, TableAt, SourceCopy, ValidAt, CopyValid, HeaderValid, Present, Header
    <2>10. PrimaryTable' = [PrimaryTable EXCEPT ![m] = TableAt(platter'[m], 1)]
      BY <2>3 DEF PrimaryTable
    <2>11. TableAt(platter'[m], 1) \in Tables \cup {NoTable}
      BY DEF TableAt, ValidAt, CopyValid, HeaderValid, Present, Header
    <2> QED
      BY <1>2, <2>8, <2>9, <2>10, <2>11, NoValueAssumption
      DEF Redundant!Next, Redundant!Rewrite
  <1>4. CASE platter' = platter
    <2>1. PrimaryTable' = PrimaryTable
      BY <1>4 DEF PrimaryTable
    <2>2. CASE outcome' # "success"
      BY <1>2, <2>1, <2>2, NoValueAssumption
      DEF Redundant!Next, Redundant!Forget, Restored
    <2>3. CASE outcome' = "success" /\ outcome = "success"
      <3>1. pc = "result" /\ CacheEmpty
        BY <2>3 DEF Settled
      <3>2. target' = target
        BY <2>3, <3>1 DEF Next, vars, WarnRun, CmdRepair, Offer, Browse, Confirm, Navigate,
           Decline, Execute, Revalidate, WriteEntries, FlushEntries, WriteHeader,
           FlushHeader, Verify, Dismiss, Destage, PowerCut, SwapMedium, dialogue
      <3> QED
        BY <1>2, <2>1, <2>3, <3>2 DEF Restored
    <2>4. CASE outcome' = "success" /\ outcome # "success"
      <3>1. Verify
        BY <2>4 DEF Next, vars, WarnRun, CmdRepair, Offer, Browse, Confirm, Navigate,
           Decline, Execute, Revalidate, WriteEntries, FlushEntries, WriteHeader,
           FlushHeader, Finish, Dismiss, Destage, PowerCut, SwapMedium
      <3>2. target' = target
        BY <3>1 DEF Verify, dialogue
      <3>3. Classify(platter[target], {}, TRUE) = "healthy"
        BY <1>4, <2>4, <3>2 DEF Settled
      <3>4. Redundant!Matching(target)
        BY <3>3, HealthyCopies, NoValueAssumption
        DEF Redundant!Matching, BackupTable, PrimaryTable, TableAt, TypeOK, ValidAt,
            CopyValid, HeaderValid, Present, Header
      <3>5. Redundant!Report(target)
        BY <1>2, <2>1, <2>4, <3>2, <3>4 DEF Redundant!Report, Restored
      <3> QED
        BY <3>5 DEF Redundant!Next, TypeOK
    <2> QED
      BY <2>2, <2>3, <2>4
  <1> QED
    BY <1>3, <1>4

(* The repair implements RedundantTable. *)
THEOREM Refinement == Spec => ImplementsRedundantTable
  <1>1. Init => Redundant!Init
    <2> SUFFICES ASSUME Init PROVE Redundant!Init
      OBVIOUS
    <2>1. \A m \in Media, at \in {1, LastBlock} :
             TableAt(platter[m], at) \in Tables \cup {NoTable}
      BY DEF TableAt, ValidAt, CopyValid, HeaderValid, Present, Header
    <2> QED
      BY <2>1 DEF Init, Redundant!Init, Redundant!Copies, PrimaryTable, BackupTable, Restored
  <1>2. IInv /\ IInv' /\ [Next]_vars
          => [Redundant!Next]_<<PrimaryTable, BackupTable, Restored>>
    BY RefinementStep
  <1> QED
    BY <1>1, <1>2, Invariant, PTL
    DEF Spec, ImplementsRedundantTable, Redundant!Spec, Redundant!vars

-----------------------------------------------------------------------------
(* Browser.                                                                  *)

(* Induction over the natural numbers, for a set of them.                    *)
LEMMA NatSet ==
    ASSUME NEW T, 0 \in T, \A k \in Nat : k \in T => k + 1 \in T
    PROVE  \A n \in Nat : n \in T
<1> SUFFICES ASSUME NEW n \in Nat, n \notin T PROVE FALSE
  OBVIOUS
<1> DEFINE Less == {ss \in Nat \X Nat : ss[1] < ss[2]}
           S == {k \in Nat : k \notin T}
<1>1. IsWellFoundedOn(Less, Nat)
  BY NatLessThanWellFounded, Zenon DEF OpToRel
<1>2. S # {} /\ S \subseteq Nat
  OBVIOUS
<1>3. PICK m \in S : \A k \in S : ~ (<<k, m>> \in Less)
  <2> HIDE DEF Less, S
  <2> QED BY <1>1, <1>2, WFMin
<1>4. m \in Nat /\ m \notin T /\ m # 0
  OBVIOUS
<1>5. m - 1 \in Nat /\ m - 1 < m /\ (m - 1) + 1 = m
  BY <1>4
<1>6. m - 1 \notin T
  BY <1>4, <1>5
<1>7. m - 1 \in S
  BY <1>5, <1>6
<1> QED BY <1>3, <1>4, <1>5, <1>7

(* A nonempty set of numbers has a least one, a bounded one a greatest.      *)
LEMMA LeastOf ==
    ASSUME NEW S, S \subseteq Nat, S # {}
    PROVE  \E n \in S : \A m \in S : n <= m
<1> DEFINE Less == {ss \in Nat \X Nat : ss[1] < ss[2]}
<1>1. IsWellFoundedOn(Less, Nat)
  BY NatLessThanWellFounded, Zenon DEF OpToRel
<1>2. PICK n \in S : \A m \in S : ~ (<<m, n>> \in Less)
  <2> HIDE DEF Less
  <2> QED BY <1>1, WFMin
<1>3. n \in Nat /\ \A m \in S : m \in Nat /\ ~ (m < n)
  BY <1>2
<1> QED BY <1>3

(* A function defined by recursion over 0..n: F says what the next value is. *)
Follows(g, X, a, n, F) ==
    /\ g \in [0..n -> X]
    /\ \A i \in 0..n : g[i] = IF i = 0 THEN a ELSE F[g[i - 1]][i]

(* Such a function exists, for every number of steps.                        *)
LEMMA Recursion ==
    ASSUME NEW X, NEW a \in X, NEW n \in Nat, NEW F \in [X -> [Nat -> X]]
    PROVE  \E g : Follows(g, X, a, n, F)
<1> DEFINE T == {k \in Nat : \E g : Follows(g, X, a, k, F)}
<1>1. 0 \in T
  <2> DEFINE g == [i \in 0..0 |-> a]
  <2>1. Follows(g, X, a, 0, F) BY DEF Follows
  <2> HIDE DEF g
  <2> QED BY <2>1
<1>2. ASSUME NEW k \in Nat, k \in T PROVE k + 1 \in T
  <2>1. PICK g : Follows(g, X, a, k, F) BY <1>2
  <2> DEFINE h == [i \in 0..(k + 1) |-> IF i = k + 1 THEN F[g[k]][k + 1] ELSE g[i]]
  <2>2. g[k] \in X BY <2>1 DEF Follows
  <2>3. h \in [0..(k + 1) -> X]
    <3>1. F[g[k]][k + 1] \in X BY <2>2
    <3>2. ASSUME NEW i \in 0..(k + 1), i # k + 1 PROVE g[i] \in X
      <4>1. i \in 0..k BY <3>2
      <4> QED BY <2>1, <4>1 DEF Follows
    <3> QED BY <3>1, <3>2
  <2>4. ASSUME NEW i \in 0..(k + 1)
        PROVE  h[i] = IF i = 0 THEN a ELSE F[h[i - 1]][i]
    <3>1. CASE i = k + 1
      <4>1. h[i] = F[g[k]][k + 1] /\ i - 1 = k /\ i # 0 /\ h[k] = g[k] BY <3>1
      <4> QED BY <3>1, <4>1
    <3>2. CASE i # k + 1
      <4>1. i \in 0..k /\ h[i] = g[i] BY <3>2
      <4>2. g[i] = IF i = 0 THEN a ELSE F[g[i - 1]][i] BY <2>1, <4>1 DEF Follows
      <4>3. i # 0 => h[i - 1] = g[i - 1] BY <4>1
      <4> QED BY <4>1, <4>2, <4>3
    <3> QED BY <3>1, <3>2
  <2>5. Follows(h, X, a, k + 1, F)
    <3> HIDE DEF h
    <3> QED BY <2>3, <2>4 DEF Follows
  <2> HIDE DEF h
  <2> QED BY <2>5
<1>3. n \in T
  <2> HIDE DEF T
  <2> QED BY <1>1, <1>2, NatSet
<1> QED BY <1>3

-----------------------------------------------------------------------------
(* The order of the names, and one merge.                                    *)

(* Directories come first.                                                   *)
Class(e) == IF e.dir THEN 0 ELSE 1
LEMMA CompareIs ==
    ASSUME NEW a \in Entry, NEW b \in Entry
    PROVE  /\ Class(a) \in {0, 1} /\ Class(b) \in {0, 1}
           /\ Rank[a.name] \in Nat /\ Rank[b.name] \in Nat
           /\ Compare(a, b) = "before" <=>
                  Class(a) < Class(b) \/ (Class(a) = Class(b) /\ Rank[a.name] < Rank[b.name])
           /\ Compare(a, b) = "same" <=> Class(a) = Class(b) /\ Rank[a.name] = Rank[b.name]
           /\ Compare(a, b) \in {"before", "same", "after"}
<1>1. Rank[a.name] \in Nat /\ Rank[b.name] \in Nat
  BY BrowserAssumption DEF Entry
<1>2. a.dir \in BOOLEAN /\ b.dir \in BOOLEAN
  BY DEF Entry
<1>7. ASSUME a.dir = b.dir
      PROVE  /\ Compare(a, b) = IF Rank[a.name] = Rank[b.name] THEN "same"
                                ELSE IF Rank[a.name] < Rank[b.name] THEN "before" ELSE "after"
             /\ Class(a) = Class(b) /\ Class(a) \in {0, 1}
  BY <1>2, <1>7 DEF Compare, Class
<1>3. CASE a.dir = b.dir BY <1>1, <1>3, <1>7
<1>4. CASE a.dir = TRUE /\ b.dir = FALSE BY <1>1, <1>4 DEF Compare, Class
<1>5. CASE a.dir = FALSE /\ b.dir = TRUE BY <1>1, <1>5 DEF Compare, Class
<1> QED BY <1>2, <1>3, <1>4, <1>5

(* Goes orders the places of a directory strictly and totally.               *)
LEMMA GoesOrder ==
    ASSUME NEW names \in Seq(Entry)
    PROVE  /\ \A i \in DOMAIN names : ~Goes(names, i, i)
           /\ \A i, j, k \in DOMAIN names :
                Goes(names, i, j) /\ Goes(names, j, k) => Goes(names, i, k)
           /\ \A i, j \in DOMAIN names : Goes(names, i, j) \/ i = j \/ Goes(names, j, i)
           /\ \A i, j \in DOMAIN names : i < j =>
                IF Compare(names[i], names[j]) # "after" THEN Goes(names, i, j)
                ELSE Goes(names, j, i)
<1> DEFINE c(i) == Class(names[i])
           r(i) == Rank[names[i].name]
<1>1. \A i \in DOMAIN names : i \in Nat /\ names[i] \in Entry
  OBVIOUS
<1>2. \A i \in DOMAIN names : c(i) \in Nat /\ r(i) \in Nat
  BY <1>1, CompareIs
<1>3. \A i, j \in DOMAIN names :
        /\ Compare(names[i], names[j]) = "before" <=> c(i) < c(j) \/ (c(i) = c(j) /\ r(i) < r(j))
        /\ Compare(names[i], names[j]) = "same" <=> c(i) = c(j) /\ r(i) = r(j)
        /\ Compare(names[i], names[j]) \in {"before", "same", "after"}
  BY <1>1, CompareIs
<1>4. \A i, j \in DOMAIN names : Goes(names, i, j) <=>
        \/ c(i) < c(j)
        \/ c(i) = c(j) /\ r(i) < r(j)
        \/ c(i) = c(j) /\ r(i) = r(j) /\ i < j
  BY <1>3 DEF Goes
<1>5. \A i, j \in DOMAIN names : Compare(names[i], names[j]) = "after" <=>
        c(j) < c(i) \/ (c(i) = c(j) /\ r(j) < r(i))
  BY <1>2, <1>3
<1> HIDE DEF c, r
<1> QED BY <1>1, <1>2, <1>4, <1>5

(* How many of the first names come from the left, and that neither run is   *)
(* read past its end.                                                        *)
LEMMA LeftsIs ==
    ASSUME NEW l \in Seq(Entry), NEW r \in Seq(Entry)
    PROVE  /\ Lefts(l, r)[0] = 0
           /\ \A k \in 1..Len(l) + Len(r) :
                LET i == Lefts(l, r)[k - 1]
                    j == k - 1 - i
                IN  Lefts(l, r)[k] =
                      IF i < Len(l) /\ (j = Len(r) \/ Compare(l[i + 1], r[j + 1]) # "after")
                      THEN i + 1 ELSE i
           /\ \A k \in 0..Len(l) + Len(r) :
                /\ Lefts(l, r)[k] \in Nat /\ Lefts(l, r)[k] <= Len(l)
                /\ k - Lefts(l, r)[k] \in Nat /\ k - Lefts(l, r)[k] <= Len(r)
<1> DEFINE n == Len(l) + Len(r)
           Takes(i, j) == i < Len(l) /\ (j = Len(r) \/ Compare(l[i + 1], r[j + 1]) # "after")
           F == [i \in Nat |-> [k \in Nat |-> IF Takes(i, k - 1 - i) THEN i + 1 ELSE i]]
           Is(g) == g = [k \in 0..n |->
                           IF k = 0 THEN 0
                           ELSE LET i == g[k - 1]  j == k - 1 - i
                                IN  IF Takes(i, j) THEN i + 1 ELSE i]
           s == CHOOSE g : Is(g)
<1>0. n \in Nat /\ Len(l) \in Nat /\ Len(r) \in Nat
  OBVIOUS
<1>1. F \in [Nat -> [Nat -> Nat]]
  <2> HIDE DEF Takes
  <2> QED OBVIOUS
<1>2. PICK g : Follows(g, Nat, 0, n, F)
  <2> HIDE DEF F, n
  <2> QED BY <1>0, <1>1, Recursion
<1>3. Is(g)
  <2>1. ASSUME NEW k \in 0..n
        PROVE  g[k] = IF k = 0 THEN 0
                      ELSE LET i == g[k - 1]  j == k - 1 - i IN IF Takes(i, j) THEN i + 1 ELSE i
    <3>1. CASE k = 0 BY <1>2, <3>1 DEF Follows
    <3>2. CASE k # 0
      <4>1. k - 1 \in 0..n /\ k \in Nat BY <1>0, <3>2
      <4>2. g[k - 1] \in Nat BY <1>2, <4>1 DEF Follows
      <4>3. g[k] = F[g[k - 1]][k]
        <5> HIDE DEF F, n
        <5> QED BY <1>2, <3>2 DEF Follows
      <4> HIDE DEF Takes
      <4> QED BY <3>2, <4>1, <4>2, <4>3
    <3> QED BY <3>1, <3>2
  <2>2. g = [k \in 0..n |-> g[k]]
    <3> HIDE DEF F, n
    <3> QED BY <1>2 DEF Follows
  <2> HIDE DEF Takes, n, F
  <2> QED BY <2>1, <2>2
<1>4. Is(s)
  <2> HIDE DEF Is
  <2> QED BY <1>3
<1>5. Lefts(l, r) = s
  BY DEF Lefts
<1> HIDE DEF s
<1>6. s[0] = 0
  BY <1>0, <1>4
<1>7. ASSUME NEW k \in 1..n
      PROVE  s[k] = IF Takes(s[k - 1], k - 1 - s[k - 1]) THEN s[k - 1] + 1 ELSE s[k - 1]
  <2> HIDE DEF Takes
  <2> QED BY <1>0, <1>4
<1>8. \A k \in 0..n : s[k] \in 0..Len(l) /\ k - s[k] \in 0..Len(r)
  <2> DEFINE T == {k \in Nat : k <= n => s[k] \in 0..Len(l) /\ k - s[k] \in 0..Len(r)}
  <2>1. 0 \in T BY <1>0, <1>6
  <2>2. ASSUME NEW k \in Nat, k \in T PROVE k + 1 \in T
    <3>1. CASE k + 1 <= n
      <4>1. k + 1 \in 1..n /\ (k + 1) - 1 = k BY <3>1
      <4>2. s[k] \in 0..Len(l) /\ k - s[k] \in 0..Len(r) BY <2>2, <3>1
      <4>3. s[k + 1] = IF Takes(s[k], k - s[k]) THEN s[k] + 1 ELSE s[k]
        <5> HIDE DEF Takes
        <5> QED BY <1>7, <4>1
      <4>4. CASE Takes(s[k], k - s[k])
        <5>1. s[k] < Len(l) /\ s[k + 1] = s[k] + 1 BY <4>3, <4>4
        <5>2. s[k + 1] \in 0..Len(l) BY <1>0, <4>2, <5>1
        <5>3. (k + 1) - s[k + 1] = k - s[k] BY <4>2, <5>1
        <5> QED BY <4>2, <5>2, <5>3
      <4>5. CASE ~Takes(s[k], k - s[k])
        <5>1. s[k] = Len(l) \/ k - s[k] < Len(r) BY <1>0, <4>2, <4>5
        <5> HIDE DEF Takes
        <5>2. s[k + 1] = s[k] BY <4>3, <4>5
        <5>3. (k + 1) - s[k] \in 0..Len(r)
          <6>1. CASE s[k] = Len(l) BY <1>0, <3>1, <4>2, <6>1
          <6>2. CASE k - s[k] < Len(r) BY <1>0, <4>2, <6>2
          <6> QED BY <5>1, <6>1, <6>2
        <5> QED BY <4>2, <5>2, <5>3
      <4> HIDE DEF Takes
      <4> QED BY <4>4, <4>5
    <3>2. CASE ~(k + 1 <= n) BY <3>2
    <3> QED BY <3>1, <3>2
  <2>3. \A k \in Nat : k \in T
    <3> HIDE DEF T
    <3> QED BY <2>1, <2>2, NatSet
  <2> QED BY <1>0, <2>3
<1> QED BY <1>0, <1>5, <1>6, <1>7, <1>8

(* The place in l \o r that the k-th of the merged names comes from.         *)
Source(l, r, k) ==
    IF Lefts(l, r)[k] > Lefts(l, r)[k - 1] THEN Lefts(l, r)[k] ELSE Len(l) + (k - Lefts(l, r)[k])
LEMMA SourceIs ==
    ASSUME NEW l \in Seq(Entry), NEW r \in Seq(Entry), NEW k \in 1..Len(l) + Len(r)
    PROVE  /\ Source(l, r, k) \in 1..Len(l) + Len(r)
           /\ Merge(l, r)[k] = IF Source(l, r, k) <= Len(l) THEN l[Source(l, r, k)]
                               ELSE r[Source(l, r, k) - Len(l)]
<1> DEFINE s == Lefts(l, r)
           i == s[k - 1]
           j == k - 1 - i
<1>0. Len(l) \in Nat /\ Len(r) \in Nat /\ k \in Nat /\ k - 1 \in 0..Len(l) + Len(r)
      /\ k \in 0..Len(l) + Len(r)
  OBVIOUS
<1>1. /\ s[k] = i \/ s[k] = i + 1
      /\ i \in Nat /\ i <= Len(l) /\ j \in Nat /\ j <= Len(r)
      /\ s[k] \in Nat /\ s[k] <= Len(l) /\ k - s[k] \in Nat /\ k - s[k] <= Len(r)
  <2>1. s[k] = i \/ s[k] = i + 1 BY LeftsIs
  <2>2. i \in Nat /\ i <= Len(l) /\ j \in Nat /\ j <= Len(r) BY <1>0, LeftsIs
  <2>3. s[k] \in Nat /\ s[k] <= Len(l) /\ k - s[k] \in Nat /\ k - s[k] <= Len(r)
    BY <1>0, LeftsIs
  <2> QED BY <2>1, <2>2, <2>3
<1>2. Merge(l, r)[k] = IF s[k] > i THEN l[s[k]] ELSE r[k - s[k]]
  BY DEF Merge
<1>3. Source(l, r, k) = IF s[k] > i THEN s[k] ELSE Len(l) + (k - s[k])
  BY DEF Source
<1>6. j = k - 1 - i
  OBVIOUS
<1> HIDE DEF s, i, j
<1>4. CASE s[k] > i
  <2>1. s[k] \in 1..Len(l) BY <1>0, <1>1, <1>4
  <2>2. Source(l, r, k) = s[k] BY <1>3, <1>4
  <2>3. s[k] \in 1..Len(l) + Len(r) /\ s[k] <= Len(l) BY <1>0, <2>1
  <2> QED BY <1>2, <1>4, <2>2, <2>3
<1>5. CASE ~(s[k] > i)
  <2>1. s[k] = i BY <1>0, <1>1, <1>5
  <2>2. k - s[k] \in 1..Len(r) BY <1>0, <1>1, <1>6, <2>1
  <2>3. Source(l, r, k) = Len(l) + (k - s[k]) BY <1>3, <1>5
  <2>4. /\ Source(l, r, k) \in 1..Len(l) + Len(r) /\ ~(Source(l, r, k) <= Len(l))
        /\ Source(l, r, k) - Len(l) = k - s[k]
    BY <1>0, <2>2, <2>3
  <2> QED BY <1>2, <1>5, <2>4
<1> QED BY <1>4, <1>5

(* B is the order that the names of the two runs are to have.  What has been *)
(* taken comes before what has not.                                          *)
Taken(l, r, k) ==
    {x \in 1..Len(l) + Len(r) : IF x <= Len(l) THEN x <= Lefts(l, r)[k]
                                 ELSE x - Len(l) <= k - Lefts(l, r)[k]}
Fits(l, r, B) ==
    LET n == Len(l) + Len(r)
    IN  /\ \A x, y, z \in 1..n : <<x, y>> \in B /\ <<y, z>> \in B => <<x, z>> \in B
        /\ \A x, y \in 1..Len(l) : x < y => <<x, y>> \in B
        /\ \A x, y \in 1..Len(r) : x < y => <<Len(l) + x, Len(l) + y>> \in B
        /\ \A x \in 1..Len(l), y \in 1..Len(r) :
             IF Compare(l[x], r[y]) # "after" THEN <<x, Len(l) + y>> \in B
             ELSE <<Len(l) + y, x>> \in B
LEMMA TakenNext ==
    ASSUME NEW l \in Seq(Entry), NEW r \in Seq(Entry), NEW k \in 1..Len(l) + Len(r)
    PROVE  /\ Taken(l, r, k) = Taken(l, r, k - 1) \cup {Source(l, r, k)}
           /\ Source(l, r, k) \notin Taken(l, r, k - 1)
           /\ Taken(l, r, k) \subseteq 1..Len(l) + Len(r)
<1> DEFINE s == Lefts(l, r)
           i == s[k - 1]
           j == k - 1 - i
<1>0. Len(l) \in Nat /\ Len(r) \in Nat /\ k \in Nat /\ k - 1 \in 0..Len(l) + Len(r)
      /\ k \in 0..Len(l) + Len(r)
  OBVIOUS
<1>1. s[k] = i \/ s[k] = i + 1 BY LeftsIs
<1>2. i \in Nat /\ i <= Len(l) /\ j \in Nat /\ j <= Len(r) BY <1>0, LeftsIs
<1>3. s[k] \in Nat /\ s[k] <= Len(l) /\ k - s[k] \in Nat /\ k - s[k] <= Len(r)
  BY <1>0, LeftsIs
<1>4. Source(l, r, k) = IF s[k] > i THEN s[k] ELSE Len(l) + (k - s[k])
  BY DEF Source
<1>5. \A x \in 1..Len(l) + Len(r) :
        /\ x \in Taken(l, r, k - 1) <=> IF x <= Len(l) THEN x <= i ELSE x - Len(l) <= j
        /\ x \in Taken(l, r, k) <=> IF x <= Len(l) THEN x <= s[k] ELSE x - Len(l) <= k - s[k]
  BY DEF Taken
<1>6. Taken(l, r, k) \subseteq 1..Len(l) + Len(r)
      /\ Taken(l, r, k - 1) \subseteq 1..Len(l) + Len(r)
  BY DEF Taken
<1>7. Source(l, r, k) \in 1..Len(l) + Len(r) BY SourceIs
<1>10. j = k - 1 - i OBVIOUS
<1> HIDE DEF s, i, j
<1>8. CASE s[k] = i + 1
  <2>1. k - s[k] = j /\ Source(l, r, k) = i + 1 /\ i + 1 <= Len(l)
    BY <1>0, <1>2, <1>3, <1>4, <1>8, <1>10
  <2>2. Source(l, r, k) \notin Taken(l, r, k - 1) BY <1>0, <1>2, <1>5, <1>7, <2>1
  <2>3. \A x \in 1..Len(l) + Len(r) :
          x \in Taken(l, r, k) <=> x \in Taken(l, r, k - 1) \/ x = i + 1
    BY <1>0, <1>2, <1>5, <1>8, <2>1
  <2> QED BY <1>6, <1>7, <2>1, <2>2, <2>3
<1>9. CASE s[k] = i
  <2>1. k - s[k] = j + 1 /\ Source(l, r, k) = Len(l) + (j + 1)
    BY <1>0, <1>2, <1>4, <1>9, <1>10
  <2>2. Source(l, r, k) \notin Taken(l, r, k - 1) BY <1>0, <1>2, <1>5, <1>7, <2>1
  <2>3. ASSUME NEW x \in 1..Len(l) + Len(r)
        PROVE  x \in Taken(l, r, k) <=> x \in Taken(l, r, k - 1) \/ x = Len(l) + (j + 1)
    <3>1. CASE x <= Len(l) BY <1>0, <1>2, <1>5, <1>9, <3>1
    <3>2. CASE x > Len(l)
      <4>1. x - Len(l) <= j + 1 <=> x - Len(l) <= j \/ x = Len(l) + (j + 1)
        BY <1>0, <1>2, <3>2
      <4> QED BY <1>0, <1>5, <2>1, <3>2, <4>1
    <3> QED BY <1>0, <3>1, <3>2
  <2> QED BY <1>6, <1>7, <2>1, <2>2, <2>3
<1> QED BY <1>1, <1>8, <1>9

LEMMA TakenFirst ==
    ASSUME NEW l \in Seq(Entry), NEW r \in Seq(Entry), NEW B, Fits(l, r, B),
           NEW k \in 1..Len(l) + Len(r),
           NEW y \in 1..Len(l) + Len(r), y \notin Taken(l, r, k)
    PROVE  <<Source(l, r, k), y>> \in B
<1> DEFINE s == Lefts(l, r)
           i == s[k - 1]
           j == k - 1 - i
           L == Len(l)
           R == Len(r)
<1>0. L \in Nat /\ R \in Nat /\ k \in Nat /\ k - 1 \in 0..L + R /\ k \in 0..L + R
  OBVIOUS
<1>1. s[k] = IF i < L /\ (j = R \/ Compare(l[i + 1], r[j + 1]) # "after") THEN i + 1 ELSE i
  BY LeftsIs
<1>2. i \in Nat /\ i <= L /\ j \in Nat /\ j <= R BY <1>0, LeftsIs
<1>3. s[k] \in Nat /\ k - s[k] \in Nat BY <1>0, LeftsIs
<1>4. Source(l, r, k) = IF s[k] > i THEN s[k] ELSE L + (k - s[k])
  BY DEF Source
<1>5. IF y <= L THEN s[k] < y ELSE k - s[k] < y - L
  <2>1. ~(IF y <= L THEN y <= s[k] ELSE y - L <= k - s[k]) BY DEF Taken
  <2> QED BY <1>0, <1>3, <2>1
<1> HIDE DEF s
<1>6. y \in Nat /\ (y <= L => s[k] < y)
  BY <1>0, <1>5
<1>7. y > L => y - L \in 1..R /\ k - s[k] < y - L
  BY <1>0, <1>5
<1>8. /\ \A x, u, z \in 1..L + R : <<x, u>> \in B /\ <<u, z>> \in B => <<x, z>> \in B
      /\ \A x, u \in 1..L : x < u => <<x, u>> \in B
      /\ \A x, u \in 1..R : x < u => <<L + x, L + u>> \in B
      /\ \A x \in 1..L, u \in 1..R : IF Compare(l[x], r[u]) # "after" THEN <<x, L + u>> \in B
                                     ELSE <<L + u, x>> \in B
  BY DEF Fits
<1>11. j = k - 1 - i OBVIOUS
<1> HIDE DEF i, j
<1>9. CASE i < L /\ (j = R \/ Compare(l[i + 1], r[j + 1]) # "after")
  <2>0. s[k] = i + 1 BY <1>1, <1>9
  <2>1. s[k] = i + 1 /\ k - s[k] = j /\ Source(l, r, k) = i + 1 /\ i + 1 \in 1..L
    BY <1>0, <1>2, <1>4, <1>9, <1>11, <2>0
  <2>2. CASE y <= L
    <3>1. y \in 1..L /\ i + 1 < y BY <1>6, <2>1, <2>2
    <3> QED BY <1>8, <2>1, <3>1
  <2>3. CASE y > L
    <3>1. y - L \in 1..R /\ j < y - L /\ y = L + (y - L) BY <1>0, <1>6, <1>7, <2>1, <2>3
    <3>2. j + 1 \in 1..R /\ j # R BY <1>0, <1>2, <3>1
    <3>3. <<i + 1, L + (j + 1)>> \in B BY <1>8, <1>9, <2>1, <3>2
    <3>4. CASE y - L = j + 1
      <4>1. y = L + (j + 1) BY <3>1, <3>4
      <4> QED BY <2>1, <3>3, <4>1
    <3>5. CASE y - L # j + 1
      <4>1. j + 1 < y - L BY <1>2, <3>1, <3>5
      <4>2. <<L + (j + 1), L + (y - L)>> \in B BY <1>8, <3>1, <3>2, <4>1
      <4>3. i + 1 \in 1..L + R /\ L + (j + 1) \in 1..L + R BY <1>0, <2>1, <3>2
      <4> QED BY <1>8, <2>1, <3>1, <3>3, <4>2, <4>3
    <3> QED BY <3>4, <3>5
  <2> QED BY <1>0, <1>6, <2>2, <2>3
<1>10. CASE ~(i < L /\ (j = R \/ Compare(l[i + 1], r[j + 1]) # "after"))
  <2>0. s[k] = i BY <1>1, <1>10
  <2>1. s[k] = i /\ k - s[k] = j + 1 /\ Source(l, r, k) = L + (j + 1)
    BY <1>0, <1>2, <1>4, <1>11, <2>0
  <2>2. CASE y > L
    <3>1. y - L \in 1..R /\ j + 1 < y - L /\ y = L + (y - L)
      BY <1>0, <1>6, <1>7, <2>1, <2>2
    <3>2. j + 1 \in 1..R BY <1>2, <3>1
    <3> QED BY <1>8, <2>1, <3>1, <3>2
  <2>3. CASE y <= L
    <3>1. y \in 1..L /\ i < y /\ i < L BY <1>2, <1>6, <2>1, <2>3
    <3>2. j # R /\ Compare(l[i + 1], r[j + 1]) = "after" BY <1>10, <3>1
    <3>3. j + 1 \in 1..R /\ i + 1 \in 1..L BY <1>0, <1>2, <3>1, <3>2
    <3>4. <<L + (j + 1), i + 1>> \in B BY <1>8, <3>2, <3>3
    <3>5. CASE y = i + 1 BY <2>1, <3>4, <3>5
    <3>6. CASE y # i + 1
      <4>1. <<i + 1, y>> \in B BY <1>2, <1>8, <3>1, <3>3, <3>6
      <4>2. i + 1 \in 1..L + R /\ L + (j + 1) \in 1..L + R BY <1>0, <3>3
      <4> QED BY <1>8, <2>1, <3>4, <4>1, <4>2
    <3> QED BY <3>5, <3>6
  <2> QED BY <1>0, <1>6, <2>2, <2>3
<1> QED BY <1>9, <1>10

(* The merged names are in that order.                                       *)
LEMMA MergeOrder ==
    ASSUME NEW l \in Seq(Entry), NEW r \in Seq(Entry), NEW B, Fits(l, r, B)
    PROVE  \A x, y \in 1..Len(l) + Len(r) :
             x < y => <<Source(l, r, x), Source(l, r, y)>> \in B
<1> DEFINE n == Len(l) + Len(r)
           Grows(k) == \A x \in 1..k : Taken(l, r, x) \subseteq Taken(l, r, k)
           T == {k \in Nat : k <= n => Grows(k)}
<1>0. n \in Nat OBVIOUS
<1>1. 0 \in T OBVIOUS
<1>2. ASSUME NEW k \in Nat, k \in T PROVE k + 1 \in T
  <2> SUFFICES ASSUME k + 1 <= n PROVE Grows(k + 1) OBVIOUS
  <2>1. Grows(k) BY <1>2
  <2>2. k + 1 \in 1..n /\ (k + 1) - 1 = k OBVIOUS
  <2>3. Taken(l, r, k) \subseteq Taken(l, r, k + 1) BY <2>2, TakenNext
  <2>4. ASSUME NEW x \in 1..k + 1 PROVE Taken(l, r, x) \subseteq Taken(l, r, k + 1)
    <3>1. x = k + 1 \/ x \in 1..k BY <2>4
    <3> QED BY <2>1, <2>3, <3>1
  <2> QED BY <2>4
<1>3. \A k \in Nat : k \in T
  <2> HIDE DEF T
  <2> QED BY <1>1, <1>2, NatSet
<1>4. ASSUME NEW x \in 1..n, NEW y \in 1..n, x < y
      PROVE  <<Source(l, r, x), Source(l, r, y)>> \in B
  <2>1. y - 1 \in Nat /\ y - 1 <= n /\ x \in 1..y - 1 BY <1>0, <1>4
  <2>2. Taken(l, r, x) \subseteq Taken(l, r, y - 1) BY <1>3, <2>1
  <2>3. Source(l, r, y) \in 1..n /\ Source(l, r, y) \notin Taken(l, r, y - 1)
    BY SourceIs, TakenNext
  <2> HIDE DEF n
  <2> QED BY <2>2, <2>3, TakenFirst DEF n
<1> QED BY <1>4

-----------------------------------------------------------------------------
(* One pass, and the sort.  Runs of width w are numbered from 0.             *)
Block(k, w) == (k - 1) \div w

LEMMA BlockIs ==
    ASSUME NEW k \in Nat \ {0}, NEW w \in Nat \ {0}
    PROVE  /\ Block(k, w) \in Nat /\ w * Block(k, w) \in Nat
           /\ w * Block(k, w) < k /\ k <= w * Block(k, w) + w
<1> DEFINE m == k - 1
<1>1. m \in Nat /\ k = m + 1 OBVIOUS
<1> HIDE DEF m
<1>2. m \div w \in Nat /\ w * (m \div w) \in Nat /\ w * (m \div w) <= m
      /\ m < w * (m \div w) + w
  BY <1>1
<1> QED BY <1>1, <1>2 DEF Block, m

LEMMA BlockOf ==
    ASSUME NEW k \in Nat \ {0}, NEW w \in Nat \ {0}, NEW q \in Nat,
           w * q < k, k <= w * q + w
    PROVE  Block(k, w) = q
<1> DEFINE m == k - 1
<1>1. m \in Nat /\ k = m + 1 OBVIOUS
<1> HIDE DEF m
<1>2. w * q \in Nat OBVIOUS
<1>3. w * q <= m /\ m < w * q + w BY <1>1, <1>2
<1>4. m \div w = q BY <1>1, <1>3
<1> QED BY <1>4 DEF Block, m

(* A run of width 2w is two of width w, the last of which may be short.      *)
LEMMA Halved ==
    ASSUME NEW k \in Nat \ {0}, NEW w \in Nat \ {0}
    PROVE  LET q == Block(k, 2 * w)
               lo == 2 * w * q
           IN  /\ q \in Nat /\ lo \in Nat /\ lo < k /\ k <= lo + 2 * w
               /\ Block(k, w) = IF k <= lo + w THEN 2 * q ELSE 2 * q + 1
<1> DEFINE q == Block(k, 2 * w)
           lo == 2 * w * q
<1>1. 2 * w \in Nat \ {0} OBVIOUS
<1>2. q \in Nat /\ lo \in Nat /\ lo < k /\ k <= lo + 2 * w BY <1>1, BlockIs
<1> HIDE DEF q
<1>3. w * (2 * q) = lo /\ w * (2 * q + 1) = lo + w BY <1>2
<1>4. CASE k <= lo + w
  <2>1. 2 * q \in Nat /\ w * (2 * q) < k /\ k <= w * (2 * q) + w BY <1>2, <1>3, <1>4
  <2>2. Block(k, w) = 2 * q BY <2>1, BlockOf
  <2> QED BY <1>2, <1>4, <2>2 DEF q
<1>5. CASE ~(k <= lo + w)
  <2>1. 2 * q + 1 \in Nat /\ w * (2 * q + 1) < k /\ k <= w * (2 * q + 1) + w
    BY <1>2, <1>3, <1>5
  <2>2. Block(k, w) = 2 * q + 1 BY <2>1, BlockOf
  <2> QED BY <1>2, <1>5, <2>2 DEF q
<1> QED BY <1>4, <1>5

(* The rows after some passes: p says where each comes from.  Runs of width w*)
(* are in order, and hold what the directory has in their places.            *)
InRuns(a, rows, p, w) ==
    LET n == Len(a)
    IN  /\ rows \in [1..n -> Entry] /\ p \in [1..n -> 1..n]
        /\ \A k \in 1..n : rows[k] = a[p[k]] /\ Block(p[k], w) = Block(k, w)
        /\ \A i, j \in 1..n : Block(i, w) = Block(j, w) /\ i < j => Goes(a, p[i], p[j])

LEMMA RunIsSeq ==
    ASSUME NEW n \in Nat, NEW rows \in [1..n -> Entry]
    PROVE  rows \in Seq(Entry) /\ Len(rows) = n
BY SeqDef, LenProperties

LEMMA SubIs ==
    ASSUME NEW n \in Nat, NEW rows \in [1..n -> Entry], NEW lo \in Nat, NEW m \in Nat,
           NEW hi, hi = lo + m, hi <= n
    PROVE  /\ SubSeq(rows, lo + 1, hi) \in Seq(Entry) /\ Len(SubSeq(rows, lo + 1, hi)) = m
           /\ \A x \in 1..m : SubSeq(rows, lo + 1, hi)[x] = rows[lo + x]
<1> DEFINE s == SubSeq(rows, lo + 1, hi)
<1>1. lo + 1 \in Int /\ hi \in Int /\ \A i \in lo + 1..hi : rows[i] \in Entry
  OBVIOUS
<1>2. /\ s \in Seq(Entry) /\ Len(s) = IF lo + 1 <= hi THEN hi - (lo + 1) + 1 ELSE 0
      /\ \A i \in 1..hi - (lo + 1) + 1 : s[i] = rows[lo + 1 + i - 1]
  BY <1>1, SubSeqProperties
<1> HIDE DEF s
<1>3. hi - (lo + 1) + 1 = m /\ (lo + 1 <= hi <=> m # 0) /\ \A x \in 1..m : lo + 1 + x - 1 = lo + x
  OBVIOUS
<1> QED BY <1>2, <1>3 DEF s

(* Where there are two runs in a block, a merge puts the block in order: q   *)
(* says where in the directory the names of the two runs come from.          *)
Halving(a, l, r, w, v, q) ==
    /\ q \in [1..w + v -> DOMAIN a]
    /\ \A x \in 1..w : l[x] = a[q[x]]
    /\ \A x \in 1..v : r[x] = a[q[w + x]]
    /\ \A x, y \in 1..w : x < y => Goes(a, q[x], q[y])
    /\ \A x, y \in 1..v : x < y => Goes(a, q[w + x], q[w + y])
    /\ \A x \in 1..w, y \in 1..v : q[x] < q[w + y]
LEMMA TwoRuns ==
    ASSUME NEW a \in Seq(Entry), NEW l \in Seq(Entry), NEW r \in Seq(Entry),
           NEW w \in Nat, Len(l) = w, NEW v \in Nat, Len(r) = v,
           NEW q, Halving(a, l, r, w, v, q)
    PROVE  /\ \A x \in 1..w + v : /\ Source(l, r, x) \in 1..w + v
                                  /\ Merge(l, r)[x] = a[q[Source(l, r, x)]]
           /\ \A x, y \in 1..w + v :
                x < y => Goes(a, q[Source(l, r, x)], q[Source(l, r, y)])
<1>0. /\ q \in [1..w + v -> DOMAIN a]
      /\ \A x \in 1..w : l[x] = a[q[x]]
      /\ \A x \in 1..v : r[x] = a[q[w + x]]
      /\ \A x, y \in 1..w : x < y => Goes(a, q[x], q[y])
      /\ \A x, y \in 1..v : x < y => Goes(a, q[w + x], q[w + y])
      /\ \A x \in 1..w, y \in 1..v : q[x] < q[w + y]
  BY DEF Halving
<1> DEFINE B == {t \in (1..w + v) \X (1..w + v) : Goes(a, q[t[1]], q[t[2]])}
<1>1. \A x, y \in 1..w + v : <<x, y>> \in B <=> Goes(a, q[x], q[y])
  OBVIOUS
<1> HIDE DEF B
<1>2. \A x \in 1..w : x \in 1..w + v
  OBVIOUS
<1>3. \A x \in 1..v : w + x \in 1..w + v
  OBVIOUS
<1>4. Fits(l, r, B)
  <2>1. \A x, y, z \in 1..w + v : <<x, y>> \in B /\ <<y, z>> \in B => <<x, z>> \in B
    <3>1. \A x \in 1..w + v : q[x] \in DOMAIN a BY <1>0
    <3> QED BY <1>1, <3>1, GoesOrder
  <2>2. \A x, y \in 1..w : x < y => <<x, y>> \in B
    BY <1>0, <1>1, <1>2
  <2>3. \A x, y \in 1..v : x < y => <<w + x, w + y>> \in B
    BY <1>0, <1>1, <1>3
  <2>4. ASSUME NEW x \in 1..w, NEW y \in 1..v
        PROVE  IF Compare(l[x], r[y]) # "after" THEN <<x, w + y>> \in B
               ELSE <<w + y, x>> \in B
    <3>1. q[x] \in DOMAIN a /\ q[w + y] \in DOMAIN a BY <1>0, <1>2, <1>3
    <3>2. IF Compare(a[q[x]], a[q[w + y]]) # "after" THEN Goes(a, q[x], q[w + y])
          ELSE Goes(a, q[w + y], q[x])
      BY <1>0, <3>1, GoesOrder
    <3> QED BY <1>0, <1>1, <1>2, <1>3, <3>2
  <2> QED BY <2>1, <2>2, <2>3, <2>4 DEF Fits
<1>5. ASSUME NEW x \in 1..w + v
      PROVE  /\ Source(l, r, x) \in 1..w + v
             /\ Merge(l, r)[x] = a[q[Source(l, r, x)]]
  <2> DEFINE z == Source(l, r, x)
  <2>1. z \in 1..w + v /\ Merge(l, r)[x] = IF z <= w THEN l[z] ELSE r[z - w]
    BY SourceIs
  <2> HIDE DEF z
  <2>2. CASE z <= w
    <3>1. z \in 1..w BY <2>1, <2>2
    <3> QED BY <1>0, <2>1, <2>2, <3>1 DEF z
  <2>3. CASE ~(z <= w)
    <3>1. z - w \in 1..v /\ w + (z - w) = z BY <2>1, <2>3
    <3>2. r[z - w] = a[q[z]] BY <1>0, <3>1
    <3> QED BY <2>1, <2>3, <3>2 DEF z
  <2> QED BY <2>2, <2>3
<1>6. \A x, y \in 1..w + v : x < y => <<Source(l, r, x), Source(l, r, y)>> \in B
  BY <1>4, MergeOrder
<1> QED BY <1>1, <1>5, <1>6

(* Rows of one run of width w are of one run of width 2w.                    *)
LEMMA BlockTwice ==
    ASSUME NEW i \in Nat \ {0}, NEW j \in Nat \ {0}, NEW w \in Nat \ {0},
           Block(i, w) = Block(j, w)
    PROVE  Block(i, 2 * w) = Block(j, 2 * w)
<1>1. /\ Block(i, 2 * w) \in Nat
      /\ Block(i, w) = 2 * Block(i, 2 * w) \/ Block(i, w) = 2 * Block(i, 2 * w) + 1
  BY Halved
<1>2. /\ Block(j, 2 * w) \in Nat
      /\ Block(j, w) = 2 * Block(j, 2 * w) \/ Block(j, w) = 2 * Block(j, 2 * w) + 1
  BY Halved
<1> QED BY <1>1, <1>2

(* The rows of the two runs of block q.                                      *)
LEMMA BlockRows ==
    ASSUME NEW w \in Nat \ {0}, NEW q \in Nat, NEW i \in Nat \ {0}
    PROVE  /\ 2 * w * q \in Nat
           /\ Block(i, w) = 2 * q <=> 2 * w * q < i /\ i <= 2 * w * q + w
           /\ Block(i, w) = 2 * q + 1 <=> 2 * w * q + w < i /\ i <= 2 * w * q + 2 * w
<1>1. 2 * q \in Nat /\ 2 * q + 1 \in Nat /\ 2 * w * q \in Nat
  OBVIOUS
<1>2. w * (2 * q) = 2 * w * q /\ w * (2 * q + 1) = 2 * w * q + w
  OBVIOUS
<1>3. Block(i, w) = 2 * q <=> w * (2 * q) < i /\ i <= w * (2 * q) + w
  BY <1>1, BlockIs, BlockOf
<1>4. Block(i, w) = 2 * q + 1 <=> w * (2 * q + 1) < i /\ i <= w * (2 * q + 1) + w
  BY <1>1, BlockIs, BlockOf
<1> QED BY <1>1, <1>2, <1>3, <1>4

(* The merge of the two runs of a block, which begins after row lo.          *)
Halves(lo, w, b) ==
    /\ \A i \in Nat \ {0} : Block(i, w) = b <=> lo < i /\ i <= lo + w
    /\ \A i \in Nat \ {0} : Block(i, w) = b + 1 <=> lo + w < i /\ i <= lo + 2 * w
LEMMA HalvesAre ==
    ASSUME NEW w \in Nat \ {0}, NEW q \in Nat
    PROVE  2 * q \in Nat /\ Halves(2 * w * q, w, 2 * q)
<1> DEFINE lo == 2 * w * q
<1>1. \A i \in Nat \ {0} : Block(i, w) = 2 * q <=> lo < i /\ i <= lo + w
  BY BlockRows
<1>2. \A i \in Nat \ {0} : Block(i, w) = 2 * q + 1 <=> lo + w < i /\ i <= lo + 2 * w
  BY BlockRows
<1>3. 2 * q \in Nat OBVIOUS
<1> HIDE DEF lo
<1>4. Halves(lo, w, 2 * q) BY <1>1, <1>2 DEF Halves
<1> QED BY <1>3, <1>4 DEF lo
Slice(l, rows, lo, m) ==
    l \in Seq(Entry) /\ Len(l) = m /\ \A x \in 1..m : l[x] = rows[lo + x]
LEMMA SliceIs ==
    ASSUME NEW n \in Nat, NEW rows \in [1..n -> Entry], NEW lo \in Nat, NEW m \in Nat,
           lo + m <= n
    PROVE  Slice(SubSeq(rows, lo + 1, lo + m), rows, lo, m)
<1>1. /\ SubSeq(rows, lo + 1, lo + m) \in Seq(Entry)
      /\ Len(SubSeq(rows, lo + 1, lo + m)) = m
      /\ \A x \in 1..m : SubSeq(rows, lo + 1, lo + m)[x] = rows[lo + x]
  BY SubIs
<1> QED BY <1>1 DEF Slice
LEMMA PairMerged ==
    ASSUME NEW a \in Seq(Entry), NEW w \in Nat \ {0}, NEW rows, NEW p, InRuns(a, rows, p, w),
           NEW b \in Nat, NEW lo \in Nat, Halves(lo, w, b),
           NEW v \in Nat, v <= w, lo + w + v <= Len(a),
           NEW l, NEW r, Slice(l, rows, lo, w), Slice(r, rows, lo + w, v)
    PROVE  /\ \A x \in 1..w + v : /\ Source(l, r, x) \in 1..w + v
                                  /\ Merge(l, r)[x] = a[p[lo + Source(l, r, x)]]
           /\ \A x, y \in 1..w + v :
                x < y => Goes(a, p[lo + Source(l, r, x)], p[lo + Source(l, r, y)])
<1> DEFINE n == Len(a)
           f == [x \in 1..w + v |-> p[lo + x]]
<1>1. /\ n \in Nat /\ DOMAIN a = 1..n
      /\ rows \in [1..n -> Entry] /\ p \in [1..n -> 1..n]
  BY DEF InRuns
<1>2. \A k \in 1..n : rows[k] = a[p[k]] /\ Block(p[k], w) = Block(k, w)
  BY DEF InRuns
<1>3. \A i, j \in 1..n : Block(i, w) = Block(j, w) /\ i < j => Goes(a, p[i], p[j])
  BY DEF InRuns
<1>17. \A y \in 1..n : y \in Nat \ {0}
  BY <1>1
<1>4. lo + w + v <= n
  OBVIOUS
<1> HIDE DEF n
<1>5. \A x \in 1..w + v : lo + x \in 1..n
  BY <1>1, <1>4
<1>6. f \in [1..w + v -> DOMAIN a] /\ \A x \in 1..w + v : f[x] = p[lo + x]
  BY <1>1, <1>5
<1> HIDE DEF f
<1>7. /\ \A i \in Nat \ {0} : Block(i, w) = b <=> lo < i /\ i <= lo + w
      /\ \A i \in Nat \ {0} : Block(i, w) = b + 1 <=> lo + w < i /\ i <= lo + 2 * w
  BY DEF Halves
<1>8. ASSUME NEW x \in 1..w
      PROVE  /\ lo + x \in 1..n /\ x \in 1..w + v /\ Block(lo + x, w) = b
  <2>1. x \in 1..w + v /\ lo < lo + x /\ lo + x <= lo + w /\ lo + x \in Nat \ {0}
    OBVIOUS
  <2> QED BY <1>5, <1>7, <2>1
<1>9. ASSUME NEW x \in 1..v
      PROVE  /\ lo + (w + x) \in 1..n /\ w + x \in 1..w + v /\ lo + w + x = lo + (w + x)
             /\ Block(lo + (w + x), w) = b + 1
  <2>1. w + x \in 1..w + v /\ lo + w + x = lo + (w + x) OBVIOUS
  <2>2. lo + w < lo + (w + x) /\ lo + (w + x) <= lo + 2 * w /\ lo + (w + x) \in Nat \ {0}
    OBVIOUS
  <2> QED BY <1>5, <1>7, <2>1, <2>2
<1>10. \A x \in 1..w : l[x] = a[f[x]]
  <2> SUFFICES ASSUME NEW x \in 1..w PROVE l[x] = a[f[x]]
    OBVIOUS
  <2>1. l[x] = rows[lo + x] BY DEF Slice
  <2>2. rows[lo + x] = a[p[lo + x]] BY <1>2, <1>8
  <2>3. f[x] = p[lo + x] BY <1>6, <1>8
  <2> QED BY <2>1, <2>2, <2>3
<1>11. \A x \in 1..v : r[x] = a[f[w + x]]
  <2> SUFFICES ASSUME NEW x \in 1..v PROVE r[x] = a[f[w + x]]
    OBVIOUS
  <2>1. r[x] = rows[lo + w + x] BY DEF Slice
  <2>2. r[x] = rows[lo + (w + x)] BY <1>9, <2>1
  <2>3. rows[lo + (w + x)] = a[p[lo + (w + x)]] BY <1>2, <1>9
  <2>4. f[w + x] = p[lo + (w + x)] BY <1>6, <1>9
  <2> QED BY <2>2, <2>3, <2>4
<1>12. \A x, y \in 1..w : x < y => Goes(a, f[x], f[y])
  <2> SUFFICES ASSUME NEW x \in 1..w, NEW y \in 1..w, x < y PROVE Goes(a, f[x], f[y])
    OBVIOUS
  <2>1. lo + x < lo + y OBVIOUS
  <2> QED BY <1>3, <1>6, <1>8, <2>1
<1>13. \A x, y \in 1..v : x < y => Goes(a, f[w + x], f[w + y])
  <2> SUFFICES ASSUME NEW x \in 1..v, NEW y \in 1..v, x < y PROVE Goes(a, f[w + x], f[w + y])
    OBVIOUS
  <2>1. lo + (w + x) < lo + (w + y) OBVIOUS
  <2>2. Goes(a, p[lo + (w + x)], p[lo + (w + y)]) BY <1>3, <1>9, <2>1
  <2>3. f[w + x] = p[lo + (w + x)] /\ f[w + y] = p[lo + (w + y)] BY <1>6, <1>9
  <2> QED BY <2>2, <2>3
<1>14. ASSUME NEW x \in 1..w, NEW y \in 1..v PROVE f[x] < f[w + y]
  <2>1. f[x] = p[lo + x] /\ f[w + y] = p[lo + (w + y)] BY <1>6, <1>8, <1>9
  <2>2. lo + x \in 1..n /\ lo + (w + y) \in 1..n BY <1>8, <1>9
  <2>3. Block(f[x], w) = b BY <1>2, <1>8, <2>1, <2>2
  <2>4. Block(f[w + y], w) = b + 1 BY <1>2, <1>9, <2>1, <2>2
  <2>8. f[x] \in 1..n /\ f[w + y] \in 1..n BY <1>1, <2>1, <2>2
  <2>5. f[x] \in Nat \ {0} /\ f[w + y] \in Nat \ {0} BY <1>17, <2>8
  <2>6. f[x] <= lo + w BY <1>7, <2>3, <2>5
  <2>7. lo + w < f[w + y] BY <1>7, <2>4, <2>5
  <2> QED BY <2>5, <2>6, <2>7
<1>15. /\ \A x \in 1..w + v : /\ Source(l, r, x) \in 1..w + v
                              /\ Merge(l, r)[x] = a[f[Source(l, r, x)]]
       /\ \A x, y \in 1..w + v :
            x < y => Goes(a, f[Source(l, r, x)], f[Source(l, r, y)])
  <2>1. w \in Nat OBVIOUS
  <2>2. l \in Seq(Entry) /\ Len(l) = w /\ r \in Seq(Entry) /\ Len(r) = v BY DEF Slice
  <2>3. \A x \in 1..w, y \in 1..v : f[x] < f[w + y] BY <1>14
  <2>4. Halving(a, l, r, w, v, f)
    BY <1>6, <1>10, <1>11, <1>12, <1>13, <2>3 DEF Halving
  <2> QED BY <2>1, <2>2, <2>4, TwoRuns
<1>16. \A x \in 1..w + v : f[Source(l, r, x)] = p[lo + Source(l, r, x)]
  BY <1>6, <1>15
<1> QED BY <1>15, <1>16

(* One pass puts runs of twice the width in order.                           *)
LEMMA WidthPass ==
    ASSUME NEW a \in Seq(Entry), NEW w \in Nat \ {0},
           NEW rows, NEW p, InRuns(a, rows, p, w)
    PROVE  \E f : InRuns(a, Width(rows, w), f, 2 * w)
<1> DEFINE n == Len(a)
           q(k) == Block(k, 2 * w)
           lo(k) == 2 * w * q(k)
           two(k) == lo(k) + w < n
           hi(k) == IF lo(k) + 2 * w > n THEN n ELSE lo(k) + 2 * w
           v(k) == hi(k) - lo(k) - w
           l(k) == SubSeq(rows, lo(k) + 1, lo(k) + w)
           r(k) == SubSeq(rows, lo(k) + w + 1, hi(k))
           from(k) == IF two(k) THEN lo(k) + Source(l(k), r(k), k - lo(k)) ELSE k
           f == [k \in 1..n |-> p[from(k)]]
<1>0. n \in Nat /\ DOMAIN a = 1..n
  OBVIOUS
<1>1. /\ rows \in [1..n -> Entry] /\ p \in [1..n -> 1..n]
      /\ \A k \in 1..n : rows[k] = a[p[k]] /\ Block(p[k], w) = Block(k, w)
      /\ \A i, j \in 1..n : Block(i, w) = Block(j, w) /\ i < j => Goes(a, p[i], p[j])
  BY DEF InRuns
<1>2. Len(rows) = n
  BY <1>0, <1>1, RunIsSeq
<1>3. \A k \in 1..n : Width(rows, w)[k] = IF two(k) THEN Merge(l(k), r(k))[k - lo(k)] ELSE rows[k]
  BY <1>2 DEF Width, Block
<1>4. Width(rows, w) = [k \in 1..n |-> Width(rows, w)[k]]
  BY <1>2 DEF Width
<1> HIDE DEF n
<1>5. ASSUME NEW k \in 1..n
      PROVE  /\ k \in Nat \ {0} /\ q(k) \in Nat /\ lo(k) \in Nat
             /\ lo(k) < k /\ k <= lo(k) + 2 * w
             /\ Block(k, w) = IF k <= lo(k) + w THEN 2 * q(k) ELSE 2 * q(k) + 1
  <2>1. k \in Nat \ {0} BY <1>0
  <2> HIDE DEF q
  <2> QED BY <2>1, Halved DEF q
<1> HIDE DEF q
<1>6. ASSUME NEW k \in 1..n, two(k)
      PROVE  /\ v(k) \in Nat /\ v(k) <= w /\ lo(k) + w + v(k) = hi(k) /\ hi(k) <= n
             /\ k - lo(k) \in 1..w + v(k)
  <2> DEFINE m == lo(k)
  <2>1. m \in Nat /\ m < k /\ k <= m + 2 * w /\ m + w < n /\ k <= n /\ k \in Nat
    BY <1>0, <1>5, <1>6
  <2> HIDE DEF m
  <2>2. LET h == IF m + 2 * w > n THEN n ELSE m + 2 * w
            u == h - m - w
        IN  u \in Nat /\ u <= w /\ m + w + u = h /\ h <= n /\ k - m \in 1..w + u
    BY <1>0, <2>1
  <2> QED BY <2>2 DEF m
<1>7. ASSUME NEW k \in 1..n, two(k)
      PROVE  /\ \A x \in 1..w + v(k) :
                  /\ Source(l(k), r(k), x) \in 1..w + v(k)
                  /\ Merge(l(k), r(k))[x] = a[p[lo(k) + Source(l(k), r(k), x)]]
             /\ \A x, y \in 1..w + v(k) : x < y =>
                  Goes(a, p[lo(k) + Source(l(k), r(k), x)], p[lo(k) + Source(l(k), r(k), y)])
  <2>1. 2 * q(k) \in Nat /\ Halves(lo(k), w, 2 * q(k))
    <3>1. q(k) \in Nat BY <1>5
    <3> QED BY <3>1, HalvesAre
  <2>2. lo(k) \in Nat BY <1>5
  <2>3. v(k) \in Nat /\ v(k) <= w /\ lo(k) + w + v(k) <= n /\ lo(k) + w + v(k) = hi(k)
    BY <1>0, <1>6, <1>7
  <2>4. r(k) = SubSeq(rows, lo(k) + w + 1, lo(k) + w + v(k)) BY <2>3
  <2>5. l(k) = SubSeq(rows, lo(k) + 1, lo(k) + w) OBVIOUS
  <2> HIDE DEF l, r, v, lo
  <2>6. lo(k) + w \in Nat /\ lo(k) + w <= n /\ w \in Nat BY <1>0, <2>2, <2>3
  <2>7. Slice(l(k), rows, lo(k), w) BY <1>0, <1>1, <2>2, <2>5, <2>6, SliceIs
  <2>8. Slice(r(k), rows, lo(k) + w, v(k)) BY <1>0, <1>1, <2>3, <2>4, <2>6, SliceIs
  <2> QED BY <2>1, <2>2, <2>3, <2>7, <2>8, PairMerged DEF n
<1> HIDE DEF l, r
<1>8. ASSUME NEW k \in 1..n
      PROVE  /\ from(k) \in 1..n /\ lo(k) < from(k) /\ from(k) <= lo(k) + 2 * w
             /\ Width(rows, w)[k] = a[p[from(k)]]
  <2>1. CASE two(k)
    <3>1. v(k) \in Nat /\ v(k) <= w /\ lo(k) + w + v(k) <= n /\ k - lo(k) \in 1..w + v(k)
      BY <1>0, <1>6, <2>1
    <3>2. /\ Source(l(k), r(k), k - lo(k)) \in 1..w + v(k)
          /\ Merge(l(k), r(k))[k - lo(k)] = a[p[lo(k) + Source(l(k), r(k), k - lo(k))]]
      BY <1>7, <2>1, <3>1
    <3>3. from(k) = lo(k) + Source(l(k), r(k), k - lo(k)) BY <2>1
    <3>4. lo(k) \in Nat BY <1>5
    <3> HIDE DEF from, lo, v
    <3>6. Source(l(k), r(k), k - lo(k)) \in Nat /\ 1 <= Source(l(k), r(k), k - lo(k))
          /\ Source(l(k), r(k), k - lo(k)) <= w + v(k)
      BY <3>1, <3>2
    <3>7. from(k) \in Nat /\ lo(k) < from(k) /\ from(k) <= lo(k) + (w + v(k))
      BY <3>1, <3>3, <3>4, <3>6
    <3>5. from(k) \in 1..n /\ lo(k) < from(k) /\ from(k) <= lo(k) + 2 * w
      BY <1>0, <3>1, <3>4, <3>7
    <3> QED BY <1>3, <2>1, <3>2, <3>3, <3>5
  <2>2. CASE ~two(k)
    <3>1. from(k) = k BY <2>2
    <3> HIDE DEF from, lo
    <3>2. Width(rows, w)[k] = a[p[k]] BY <1>1, <1>3, <2>2
    <3> QED BY <1>5, <3>1, <3>2
  <2> QED BY <2>1, <2>2
<1>9. f \in [1..n -> 1..n] /\ \A k \in 1..n : f[k] = p[from(k)]
  <2> HIDE DEF from
  <2> QED BY <1>1, <1>8
<1>10. Width(rows, w) \in [1..n -> Entry]
  <2>0. \A i \in 1..n : a[i] \in Entry BY <1>0
  <2>1. ASSUME NEW k \in 1..n PROVE Width(rows, w)[k] \in Entry
    <3> HIDE DEF from
    <3>1. p[from(k)] \in 1..n BY <1>1, <1>8
    <3> QED BY <1>8, <2>0, <3>1
  <2> QED BY <1>4, <2>1
<1>11. ASSUME NEW k \in 1..n PROVE Block(f[k], 2 * w) = q(k)
  <2>1. Block(p[from(k)], w) = Block(from(k), w) /\ p[from(k)] \in 1..n /\ from(k) \in 1..n
    <3> HIDE DEF from
    <3> QED BY <1>1, <1>8
  <2>2. p[from(k)] \in Nat \ {0} /\ from(k) \in Nat \ {0}
    <3> HIDE DEF from
    <3> QED BY <1>0, <2>1
  <2>3. Block(p[from(k)], 2 * w) = Block(from(k), 2 * w)
    <3> HIDE DEF from
    <3> QED BY <2>1, <2>2, BlockTwice
  <2>4. Block(from(k), 2 * w) = q(k)
    <3>1. 2 * w \in Nat \ {0} /\ q(k) \in Nat /\ (2 * w) * q(k) < from(k)
          /\ from(k) <= (2 * w) * q(k) + 2 * w
      <4> HIDE DEF from
      <4> QED BY <1>5, <1>8
    <3> HIDE DEF from
    <3> QED BY <2>2, <3>1, BlockOf
  <2> HIDE DEF from
  <2> QED BY <1>9, <2>3, <2>4
<1>12. ASSUME NEW i \in 1..n, NEW j \in 1..n, q(i) = q(j), i < j PROVE Goes(a, f[i], f[j])
  <2>1. lo(i) = lo(j) /\ (two(i) <=> two(j)) /\ hi(i) = hi(j) /\ v(i) = v(j)
    BY <1>12
  <2>2. l(i) = l(j) /\ r(i) = r(j)
    BY <2>1 DEF l, r
  <2>3. CASE two(i)
    <3> DEFINE s(x) == Source(l(i), r(i), x)
    <3>1. from(i) = lo(i) + s(i - lo(i)) /\ from(j) = lo(i) + s(j - lo(i))
      BY <2>1, <2>2, <2>3
    <3>2. i - lo(i) \in 1..w + v(i) /\ j - lo(i) \in 1..w + v(i)
      BY <1>6, <2>1, <2>3
    <3>3. i - lo(i) < j - lo(i)
      <4>1. lo(i) \in Nat /\ i \in Nat /\ j \in Nat BY <1>5
      <4> HIDE DEF lo
      <4> QED BY <1>12, <4>1
    <3>4. Goes(a, p[lo(i) + s(i - lo(i))], p[lo(i) + s(j - lo(i))])
      <4> HIDE DEF lo, v
      <4> QED BY <1>7, <2>3, <3>2, <3>3
    <3> HIDE DEF from, s, lo
    <3> QED BY <1>9, <3>1, <3>4
  <2>4. CASE ~two(i)
    <3>1. from(i) = i /\ from(j) = j BY <2>1, <2>4
    <3>2. i <= lo(i) + w /\ j <= lo(j) + w
      <4>1. lo(i) \in Nat /\ i <= n /\ j <= n /\ n <= lo(i) + w /\ i \in Nat /\ j \in Nat
        BY <1>0, <1>5, <2>4
      <4>2. lo(j) = lo(i) BY <2>1
      <4> HIDE DEF lo
      <4> QED BY <1>0, <4>1, <4>2
    <3>3. Block(i, w) = Block(j, w)
      <4> HIDE DEF lo
      <4> QED BY <1>5, <1>12, <3>2
    <3> HIDE DEF from
    <3> QED BY <1>1, <1>9, <1>12, <3>1, <3>3
  <2> QED BY <2>3, <2>4
<1>13. InRuns(a, Width(rows, w), f, 2 * w)
  <2>1. \A k \in 1..n : /\ Width(rows, w)[k] = a[f[k]]
                        /\ Block(f[k], 2 * w) = Block(k, 2 * w)
    <3> HIDE DEF from
    <3> QED BY <1>8, <1>9, <1>11 DEF q
  <2> HIDE DEF f
  <2> QED BY <1>9, <1>10, <1>12, <2>1 DEF InRuns, n, q
<1> QED BY <1>13

(* The sort: rows that come from the places p, each of which is the order's  *)
(* next.                                                                     *)
InOrder(a, rows, p) ==
    /\ rows \in [1..Len(a) -> Entry] /\ p \in [1..Len(a) -> 1..Len(a)]
    /\ \A k \in 1..Len(a) : rows[k] = a[p[k]]
    /\ \A i, j \in 1..Len(a) : i < j => Goes(a, p[i], p[j])

LEMMA SortedIs ==
    ASSUME NEW a \in Seq(Entry)
    PROVE  \E p : InOrder(a, Sorted(a), p)
<1> DEFINE n == Len(a)
           X == {s \in [width : Nat \ {0}, rows : [1..n -> Entry]] :
                   \E p : InRuns(a, s.rows, p, s.width)}
           Pass(s) == IF s.width < n
                      THEN [width |-> 2 * s.width, rows |-> Width(s.rows, s.width)] ELSE s
           F == [s \in X |-> [k \in Nat |-> Pass(s)]]
           start == [width |-> 1, rows |-> a]
           Is(g) == g = [k \in 0..n |->
                           IF k = 0 THEN start ELSE LET s == g[k - 1] IN Pass(s)]
           pass == CHOOSE g : Is(g)
<1>0. n \in Nat /\ DOMAIN a = 1..n /\ a \in [1..n -> Entry]
  OBVIOUS
<1>1. start \in X
  <2> DEFINE p == [k \in 1..n |-> k]
  <2>1. \A k \in 1..n : Block(k, 1) = k - 1 BY <1>0 DEF Block
  <2>2. InRuns(a, a, p, 1)
    <3>1. \A i, j \in 1..n : Block(i, 1) = Block(j, 1) /\ i < j => FALSE BY <1>0, <2>1
    <3>2. p \in [1..n -> 1..n] /\ \A k \in 1..n : p[k] = k OBVIOUS
    <3> HIDE DEF p
    <3> QED BY <1>0, <3>1, <3>2 DEF InRuns
  <2> HIDE DEF p, n
  <2>3. start \in [width : Nat \ {0}, rows : [1..n -> Entry]] BY <1>0
  <2>4. start.rows = a /\ start.width = 1 OBVIOUS
  <2> QED BY <2>2, <2>3, <2>4
<1>2. ASSUME NEW s \in X PROVE Pass(s) \in X
  <2>1. CASE s.width < n
    <3>1. s.width \in Nat \ {0} /\ 2 * s.width \in Nat \ {0} OBVIOUS
    <3>2. PICK p : InRuns(a, s.rows, p, s.width) OBVIOUS
    <3>3. PICK f : InRuns(a, Width(s.rows, s.width), f, 2 * s.width)
      <4> HIDE DEF X, n
      <4> QED BY <3>1, <3>2, WidthPass
    <3>4. Width(s.rows, s.width) \in [1..n -> Entry] BY <3>3 DEF InRuns
    <3>5. Pass(s) = [width |-> 2 * s.width, rows |-> Width(s.rows, s.width)] BY <2>1
    <3> HIDE DEF Pass, n
    <3>6. Pass(s) \in [width : Nat \ {0}, rows : [1..n -> Entry]] BY <3>1, <3>4, <3>5
    <3>7. Pass(s).rows = Width(s.rows, s.width) /\ Pass(s).width = 2 * s.width BY <3>5
    <3> QED BY <3>3, <3>6, <3>7
  <2>2. CASE ~(s.width < n) BY <2>2
  <2> QED BY <2>1, <2>2
<1>3. F \in [X -> [Nat -> X]]
  <2> HIDE DEF X, Pass
  <2> QED BY <1>2
<1>4. PICK g : Follows(g, X, start, n, F)
  <2> HIDE DEF F, X, n, start
  <2> QED BY <1>0, <1>1, <1>3, Recursion
<1>5. Is(g)
  <2>1. ASSUME NEW k \in 0..n
        PROVE  g[k] = IF k = 0 THEN start ELSE LET s == g[k - 1] IN Pass(s)
    <3>1. CASE k = 0 BY <1>4, <3>1 DEF Follows
    <3>2. CASE k # 0
      <4>1. k - 1 \in 0..n /\ k \in Nat BY <1>0, <3>2
      <4> HIDE DEF F, n, X, Pass, start
      <4>2. g[k - 1] \in X BY <1>4, <4>1 DEF Follows
      <4>3. g[k] = F[g[k - 1]][k] BY <1>4, <3>2 DEF Follows
      <4>4. F[g[k - 1]][k] = Pass(g[k - 1]) BY <4>1, <4>2 DEF F
      <4> QED BY <3>2, <4>3, <4>4
    <3> QED BY <3>1, <3>2
  <2>2. g = [k \in 0..n |-> g[k]]
    <3> HIDE DEF F, n, X, start
    <3> QED BY <1>4 DEF Follows
  <2> HIDE DEF Pass, n, F, X, start
  <2> QED BY <2>1, <2>2
<1>6. Is(pass)
  <2> HIDE DEF Is
  <2> QED BY <1>5
<1>7. Sorted(a) = pass[n].rows
  BY DEF Sorted
<1> HIDE DEF pass
<1>8. pass[0] = start /\ \A k \in 1..n : pass[k] = Pass(pass[k - 1])
  <2> HIDE DEF Pass, n, start
  <2>1. \A k \in 0..n : pass[k] = IF k = 0 THEN start ELSE LET s == pass[k - 1] IN Pass(s)
    BY <1>6
  <2>2. 0 \in 0..n BY <1>0
  <2>3. \A k \in 1..n : k \in 0..n /\ k # 0 BY <1>0
  <2> QED BY <2>1, <2>2, <2>3
<1>9. ASSUME NEW k \in 0..n PROVE pass[k] \in X /\ (pass[k].width > k \/ pass[k].width >= n)
  <2> DEFINE T == {i \in Nat : i <= n => /\ pass[i] \in X
                                         /\ pass[i].width > i \/ pass[i].width >= n}
  <2>1. 0 \in T
    <3>1. start.width = 1 OBVIOUS
    <3> HIDE DEF X, start, n
    <3> QED BY <1>1, <1>8, <3>1
  <2>2. ASSUME NEW i \in Nat, i \in T PROVE i + 1 \in T
    <3>1. CASE i + 1 <= n
      <4>1. i <= n /\ i + 1 \in 1..n /\ (i + 1) - 1 = i BY <1>0, <3>1
      <4>2. pass[i] \in X /\ (pass[i].width > i \/ pass[i].width >= n) BY <2>2, <4>1
      <4>3. pass[i + 1] = Pass(pass[i])
        <5> HIDE DEF Pass, n
        <5> QED BY <1>8, <4>1
      <4>4. pass[i + 1] \in X
        <5> HIDE DEF Pass, n, X
        <5> QED BY <1>2, <4>2, <4>3
      <4>5. pass[i].width \in Nat \ {0} BY <4>2
      <4>6. pass[i + 1].width = IF pass[i].width < n THEN 2 * pass[i].width ELSE pass[i].width
        <5> HIDE DEF n, X
        <5> QED BY <4>3
      <4>7. pass[i + 1].width > i + 1 \/ pass[i + 1].width >= n
        <5> HIDE DEF Pass, n, X
        <5> QED BY <1>0, <4>2, <4>5, <4>6
      <4> HIDE DEF X, n
      <4> QED BY <4>4, <4>7
    <3>2. CASE ~(i + 1 <= n) BY <3>2
    <3> QED BY <3>1, <3>2
  <2>3. \A i \in Nat : i \in T
    <3> HIDE DEF T
    <3> QED BY <2>1, <2>2, NatSet
  <2> HIDE DEF X, n
  <2> QED BY <1>0, <2>3
<1>10. pass[n] \in X /\ pass[n].width >= n
  <2>1. n \in 0..n BY <1>0
  <2>2. pass[n] \in X /\ (pass[n].width > n \/ pass[n].width >= n)
    <3> HIDE DEF X, n
    <3> QED BY <1>9, <2>1
  <2>3. pass[n].width \in Nat BY <2>2
  <2> HIDE DEF X, n
  <2> QED BY <1>0, <2>2, <2>3
<1>11. pass[n].width \in Nat \ {0}
  <2> HIDE DEF n
  <2> QED BY <1>10
<1>12. PICK p : InRuns(a, pass[n].rows, p, pass[n].width)
  <2> HIDE DEF n
  <2> QED BY <1>10
<1>13. InRuns(a, Sorted(a), p, pass[n].width)
  BY <1>7, <1>12
<1>14. \A k \in 1..n : Block(k, pass[n].width) = 0
  <2> DEFINE w == pass[n].width
  <2> SUFFICES ASSUME NEW k \in 1..n PROVE Block(k, w) = 0 OBVIOUS
  <2>1. w \in Nat \ {0} /\ n <= w BY <1>10, <1>11
  <2> HIDE DEF w, n
  <2>2. w * 0 = 0 /\ k \in Nat \ {0} /\ k <= w BY <1>0, <2>1
  <2>3. w * 0 < k /\ k <= w * 0 + w BY <2>1, <2>2
  <2> QED BY <2>1, <2>2, <2>3, BlockOf
<1> HIDE DEF pass
<1>15. InOrder(a, Sorted(a), p)
  <2>1. \A i, j \in 1..n : i < j => Goes(a, p[i], p[j])
    <3>1. \A i, j \in 1..n : /\ Block(i, pass[n].width) = Block(j, pass[n].width) /\ i < j
                             => Goes(a, p[i], p[j])
      BY <1>13 DEF InRuns
    <3> HIDE DEF n
    <3> QED BY <1>14, <3>1
  <2> QED BY <1>13, <2>1 DEF InRuns, InOrder
<1> QED BY <1>15

(* Counting the names that go before it gives the place of a name.           *)
Place(names, i) == 1 + Cardinality({j \in DOMAIN names : Goes(names, j, i)})
LEMMA PlaceIs ==
    ASSUME NEW names \in Seq(Entry), NEW rows, NEW p, InOrder(names, rows, p),
           NEW i \in DOMAIN names
    PROVE  Place(names, i) \in 1..Len(names) /\ rows[Place(names, i)] = names[i]
<1> DEFINE n == Len(names)
<1>0. n \in Nat /\ DOMAIN names = 1..n
  OBVIOUS
<1>1. /\ p \in [1..n -> 1..n] /\ \A k \in 1..n : rows[k] = names[p[k]]
      /\ \A x, y \in 1..n : x < y => Goes(names, p[x], p[y])
  BY DEF InOrder
<1>2. /\ \A x \in 1..n : ~Goes(names, x, x)
      /\ \A x, y, z \in 1..n : Goes(names, x, y) /\ Goes(names, y, z) => Goes(names, x, z)
  BY <1>0, GoesOrder
<1> HIDE DEF n
<1>3. \A x, y \in 1..n : p[x] = p[y] => x = y
  <2> SUFFICES ASSUME NEW x \in 1..n, NEW y \in 1..n, p[x] = p[y], x # y PROVE FALSE
    OBVIOUS
  <2>1. p[x] \in 1..n BY <1>1
  <2>2. x < y \/ y < x BY <1>0
  <2>3. Goes(names, p[x], p[x]) BY <1>1, <2>2
  <2> QED BY <1>2, <2>1, <2>3
<1>4. \E k \in 1..n : p[k] = i
  <2>1. p \in Injection(1..n, 1..n) BY <1>1, <1>3 DEF Injection, IsInjective
  <2>2. IsFiniteSet(1..n) BY <1>0, FS_Interval
  <2>3. p \in Surjection(1..n, 1..n) BY <2>1, <2>2, FS_Injection
  <2> QED BY <1>0, <2>3 DEF Surjection
<1>5. PICK k \in 1..n : p[k] = i BY <1>4
<1> DEFINE D == {j \in DOMAIN names : Goes(names, j, i)}
           f == [x \in 1..k - 1 |-> p[x]]
<1>6. k \in Nat /\ 1 <= k /\ k <= n /\ k - 1 \in Nat /\ \A x \in 1..k - 1 : x \in 1..n /\ x < k
  BY <1>0
<1>7. \A x \in 1..k - 1 : f[x] = p[x] /\ p[x] \in D
  <2> SUFFICES ASSUME NEW x \in 1..k - 1 PROVE f[x] = p[x] /\ p[x] \in D
    OBVIOUS
  <2>1. x \in 1..n /\ x < k BY <1>6
  <2>2. p[x] \in 1..n /\ Goes(names, p[x], p[k]) BY <1>1, <2>1
  <2> QED BY <1>0, <1>5, <2>2
<1>8. \A y \in D : \E x \in 1..k - 1 : f[x] = y
  <2> SUFFICES ASSUME NEW y \in D PROVE \E x \in 1..k - 1 : f[x] = y
    OBVIOUS
  <2>1. y \in 1..n /\ Goes(names, y, p[k]) BY <1>0, <1>5
  <2>2. PICK x \in 1..n : p[x] = y
    <3>1. p \in Injection(1..n, 1..n) BY <1>1, <1>3 DEF Injection, IsInjective
    <3>2. IsFiniteSet(1..n) BY <1>0, FS_Interval
    <3>3. p \in Surjection(1..n, 1..n) BY <3>1, <3>2, FS_Injection
    <3> QED BY <2>1, <3>3 DEF Surjection
  <2>3. ~(k <= x)
    <3> SUFFICES ASSUME k <= x PROVE FALSE OBVIOUS
    <3>1. p[k] \in 1..n BY <1>1
    <3>2. CASE k = x BY <1>2, <2>1, <2>2, <3>1, <3>2
    <3>3. CASE k < x
      <4>1. Goes(names, p[k], y) BY <1>1, <2>2, <3>3
      <4> QED BY <1>2, <2>1, <3>1, <4>1
    <3> QED BY <1>0, <1>6, <3>2, <3>3
  <2>4. x \in 1..k - 1 BY <1>0, <1>6, <2>3
  <2> HIDE DEF D, f
  <2> QED BY <1>7, <2>2, <2>4
<1>9. f \in Bijection(1..k - 1, D)
  <2> HIDE DEF D
  <2>1. f \in [1..k - 1 -> D] BY <1>7
  <2> HIDE DEF f
  <2>2. f \in Injection(1..k - 1, D) BY <1>3, <1>6, <1>7, <2>1 DEF Injection, IsInjective
  <2>3. f \in Surjection(1..k - 1, D) BY <1>8, <2>1 DEF Surjection
  <2> QED BY <2>2, <2>3 DEF Bijection
<1>10. Cardinality(D) = k - 1
  <2> HIDE DEF D, f
  <2>1. IsFiniteSet(1..k - 1) /\ Cardinality(1..k - 1) = k - 1 BY <1>6, FS_Interval
  <2>2. ExistsBijection(1..k - 1, D) BY <1>9 DEF ExistsBijection
  <2> QED BY <2>1, <2>2, FS_Bijection
<1>11. Place(names, i) = k
  <2> HIDE DEF f
  <2> QED BY <1>6, <1>10 DEF Place
<1> QED BY <1>1, <1>5, <1>11 DEF n

-----------------------------------------------------------------------------
(* What is read of a directory.                                              *)
LEMMA Least ==
    ASSUME NEW S, S \subseteq Nat, S # {}
    PROVE  Min(S) \in S
<1>1. \E n \in S : \A m \in S : n <= m
  BY LeastOf
<1> QED BY <1>1 DEF Min

(* Only keeps nothing but members of S, and they are of s.                   *)
LEMMA OnlyIs ==
    ASSUME NEW s, NEW T, s \in Seq(T), NEW S
    PROVE  Only(s, S) \in Seq(Range(s) \cap S)
<1> DEFINE n == Len(s)
           X == Seq(Range(s) \cap S)
           Next1(q, i) == IF s[i] \in S THEN Append(q, s[i]) ELSE q
           F == [q \in X |-> [i \in Nat |-> IF i \in 1..n THEN Next1(q, i) ELSE q]]
           Is(g) == g = [i \in 0..n |->
                           IF i = 0 THEN <<>>
                           ELSE IF s[i] \in S THEN Append(g[i - 1], s[i]) ELSE g[i - 1]]
           kept == CHOOSE g : Is(g)
<1>0. n \in Nat /\ DOMAIN s = 1..n
  OBVIOUS
<1>1. <<>> \in X
  OBVIOUS
<1>2. ASSUME NEW q \in X, NEW i \in 1..n PROVE Next1(q, i) \in X
  <2>1. CASE s[i] \in S
    <3>1. s[i] \in Range(s) \cap S BY <1>0, <2>1 DEF Range
    <3> QED BY <2>1, <3>1, AppendProperties
  <2>2. CASE s[i] \notin S BY <2>2
  <2> QED BY <2>1, <2>2
<1>3. F \in [X -> [Nat -> X]]
  <2> HIDE DEF X, Next1
  <2> QED BY <1>2
<1>4. PICK g : Follows(g, X, <<>>, n, F)
  <2> HIDE DEF F, X, n
  <2> QED BY <1>0, <1>1, <1>3, Recursion
<1>5. Is(g)
  <2>1. ASSUME NEW i \in 0..n
        PROVE  g[i] = IF i = 0 THEN <<>>
                      ELSE IF s[i] \in S THEN Append(g[i - 1], s[i]) ELSE g[i - 1]
    <3>1. CASE i = 0 BY <1>4, <3>1 DEF Follows
    <3>2. CASE i # 0
      <4>1. i - 1 \in 0..n /\ i \in Nat /\ i \in 1..n BY <1>0, <3>2
      <4> HIDE DEF F, n, X, Next1
      <4>2. g[i - 1] \in X BY <1>4, <4>1 DEF Follows
      <4>3. g[i] = F[g[i - 1]][i] BY <1>4, <3>2 DEF Follows
      <4>4. F[g[i - 1]][i] = Next1(g[i - 1], i) BY <4>1, <4>2 DEF F
      <4> QED BY <3>2, <4>3, <4>4 DEF Next1
    <3> QED BY <3>1, <3>2
  <2>2. g = [i \in 0..n |-> g[i]]
    <3> HIDE DEF F, n, X
    <3> QED BY <1>4 DEF Follows
  <2> HIDE DEF n, F, X
  <2> QED BY <2>1, <2>2
<1>6. Is(kept)
  <2> HIDE DEF Is
  <2> QED BY <1>5
<1>7. Only(s, S) = kept[n]
  BY DEF Only
<1> HIDE DEF kept
<1>8. kept[0] = <<>> /\ \A i \in 1..n : kept[i] = Next1(kept[i - 1], i)
  <2> HIDE DEF n
  <2>1. \A i \in 0..n : kept[i] = IF i = 0 THEN <<>>
                        ELSE IF s[i] \in S THEN Append(kept[i - 1], s[i]) ELSE kept[i - 1]
    BY <1>6
  <2>2. 0 \in 0..n /\ \A i \in 1..n : i \in 0..n /\ i # 0 BY <1>0
  <2> QED BY <2>1, <2>2
<1>9. \A i \in Nat : i <= n => kept[i] \in X
  <2> DEFINE R == {i \in Nat : i <= n => kept[i] \in X}
  <2>1. 0 \in R
    <3> HIDE DEF X
    <3> QED BY <1>1, <1>8
  <2>2. ASSUME NEW i \in Nat, i \in R PROVE i + 1 \in R
    <3>1. CASE i + 1 <= n
      <4>1. i <= n /\ i + 1 \in 1..n /\ (i + 1) - 1 = i BY <1>0, <3>1
      <4> HIDE DEF X, n, Next1
      <4>2. kept[i] \in X BY <2>2, <4>1
      <4>3. kept[i + 1] = Next1(kept[i], i + 1) BY <1>8, <4>1
      <4> QED BY <1>2, <4>1, <4>2, <4>3
    <3>2. CASE ~(i + 1 <= n) BY <3>2
    <3> QED BY <3>1, <3>2
  <2>3. \A i \in Nat : i \in R
    <3> HIDE DEF R
    <3> QED BY <2>1, <2>2, NatSet
  <2> QED BY <2>3
<1> QED BY <1>0, <1>7, <1>9

(* What is kept of the first names of a directory is of the directory.       *)
LEMMA KeptIs ==
    ASSUME NEW d \in Seq(Entry), NEW k \in 0..Len(d)
    PROVE  Kept(SubSeq(d, 1, k)) \in Seq(Range(d))
<1> DEFINE s == SubSeq(d, 1, k)
<1>1. k \in Nat /\ Len(d) \in Nat /\ DOMAIN d = 1..Len(d) /\ \A i \in 1..k : d[i] \in Range(d)
  BY DEF Range
<1>2. s \in Seq(Range(d))
  BY <1>1, SubSeqProperties
<1> HIDE DEF s
<1>3. PICK S : Kept(s) = Only(s, S)
  BY DEF Kept
<1>4. Kept(s) \in Seq(Range(s) \cap S)
  BY <1>2, <1>3, OnlyIs
<1>5. Range(s) \subseteq Range(d)
  <2>1. \A i \in 1..Len(s) : s[i] \in Range(d) BY <1>2
  <2> QED BY <1>2, <2>1 DEF Range
<1>6. Kept(s) \in Seq(Range(d))
  <2>1. Range(s) \cap S \subseteq Range(d) BY <1>5
  <2> QED BY <1>4, <2>1
<1> QED BY <1>6 DEF s

(* No more is read than there is.                                            *)
LEMMA ReadAllIs ==
    ASSUME setup.perRead \in Nat, NEW d \in Seq(Entry)
    PROVE  ReadAll(d) \in 0..Len(d)
<1> DEFINE most == setup.perRead * MaxReads
           full == {k \in 1..Len(d) : Len(Kept(SubSeq(d, 1, k))) = MaxEntries}
           least == CHOOSE k \in full \cup {Len(d)} : \A j \in full \cup {Len(d)} : k <= j
<1>1. most \in Nat BY BrowserAssumption
<1>2. full \cup {Len(d)} \subseteq 0..Len(d) /\ Len(d) \in Nat
  OBVIOUS
<1> HIDE DEF full, most
<1>3. \E k \in full \cup {Len(d)} : \A j \in full \cup {Len(d)} : k <= j
  <2>1. full \cup {Len(d)} \subseteq Nat /\ full \cup {Len(d)} # {} BY <1>2
  <2> QED BY <2>1, LeastOf
<1>4. least \in full \cup {Len(d)} BY <1>3
<1>5. least \in 0..Len(d) BY <1>2, <1>4
<1>6. ReadAll(d) = IF least < most THEN least ELSE IF most < Len(d) THEN most ELSE Len(d)
  BY DEF ReadAll, full, most
<1> HIDE DEF least
<1> QED BY <1>1, <1>2, <1>5, <1>6

LEMMA ReadingsAre ==
    ASSUME setup.perRead \in Nat, NEW d \in Seq(Entry), NEW r \in Readings(d)
    PROVE  r.names \in Seq(Range(d)) /\ r.cut \in BOOLEAN
<1>1. ReadAll(d) \in 0..Len(d) /\ Len(d) \in Nat BY ReadAllIs
<1>2. CASE \E k \in 0..ReadAll(d) - 1, c \in BOOLEAN :
             r = [names |-> Kept(SubSeq(d, 1, k)), cut |-> c]
  <2>1. PICK k \in 0..ReadAll(d) - 1, c \in BOOLEAN :
          r = [names |-> Kept(SubSeq(d, 1, k)), cut |-> c]
    BY <1>2
  <2>2. k \in 0..Len(d) BY <1>1
  <2>3. r.names = Kept(SubSeq(d, 1, k)) /\ r.cut = c BY <2>1
  <2> QED BY <2>2, <2>3, KeptIs
<1>3. CASE r = [names |-> Kept(SubSeq(d, 1, ReadAll(d))),
                cut |-> Len(Kept(SubSeq(d, 1, ReadAll(d)))) = MaxEntries]
  <2>1. /\ r.names = Kept(SubSeq(d, 1, ReadAll(d)))
        /\ r.cut = (Len(Kept(SubSeq(d, 1, ReadAll(d)))) = MaxEntries)
    BY <1>3
  <2> QED BY <1>1, <2>1, KeptIs
<1> QED BY <1>2, <1>3 DEF Readings

-----------------------------------------------------------------------------
(* What the browser's state is.                                              *)
Browsing ==
    [vols : Seq(Range(setup.handles)), cur : Nat, path : Seq(Names), list : Seq(Entry),
     cursor : Nat, scroll : Nat, cut : BOOLEAN]
Shape ==
    /\ setup \in Setups
    /\ loop \in [pc : {"closed", "draw", "key", "picked"}, dirty : BOOLEAN, message : BOOLEAN]
    /\ blind \in BOOLEAN
    /\ loop.pc = "closed" => fb = None
    /\ loop.pc # "closed" => fb \in Browsing /\ fb.cur \in 1..Len(fb.vols)

(* The listing is that of the directory it names, sorted if there was memory.*)
Here(f, e) ==
    LET d == Directory(f.vols[f.cur], f.path) IN d # None /\ e \in Range(d)
Listings ==
    loop.pc # "closed" =>
        /\ found.names \in Seq(Entry)
        /\ found.sorted => \E p : InOrder(found.names, fb.list, p)
        /\ \A e \in Range(fb.list) : Here(fb, e)

(* Unless it is due to be drawn, or the wheel moved unseen, the screen shows *)
(* where the browser is and marks the row under the cursor.                  *)
Shown ==
    loop.pc \in {"draw", "key"} /\ ~loop.dirty /\ ~blind =>
        /\ seen.volume = fb.vols[fb.cur] /\ seen.path = fb.path
        /\ fb.cursor < Len(fb.list) => seen.marked = fb.list[fb.cursor + 1]

LEMMA DirectoryIs ==
    ASSUME setup \in Setups, NEW f \in Browsing, f.cur \in 1..Len(f.vols),
           Directory(f.vols[f.cur], f.path) # None
    PROVE  Directory(f.vols[f.cur], f.path) \in Seq(Entry)
<1> DEFINE h == f.vols[f.cur]
<1>1. f.vols \in Seq(Range(setup.handles))
  BY DEF Browsing
<1>2. h \in Range(setup.handles)
  BY <1>1
<1>3. h \in DOMAIN setup.tree
      /\ \A p \in DOMAIN setup.tree[h] : setup.tree[h][p] \in Seq(Entry)
  BY <1>2, SetupsAssumption
<1> QED BY <1>3 DEF Directory

LEMMA Listing ==
    ASSUME setup \in Setups, NEW f \in Browsing, f.cur \in 1..Len(f.vols), Listed(f)
    PROVE  /\ fb' \in Browsing /\ fb'.vols = f.vols /\ fb'.cur = f.cur /\ fb'.path = f.path
           /\ found'.names \in Seq(Entry)
           /\ found'.sorted => \E p : InOrder(found'.names, fb'.list, p)
           /\ \A e \in Range(fb'.list) : Here(f, e)
<1> DEFINE d == Directory(f.vols[f.cur], f.path)
           c == Cleared(f)
<1>1. /\ c \in Browsing /\ c.vols = f.vols /\ c.cur = f.cur /\ c.path = f.path
      /\ c.list = <<>>
  <2> DEFINE V == Seq(Range(setup.handles))
             P == Seq(Names)
             L == Seq(Entry)
  <2>1. f \in [vols : V, cur : Nat, path : P, list : L, cursor : Nat, scroll : Nat,
               cut : BOOLEAN]
    BY DEF Browsing
  <2>2. <<>> \in L OBVIOUS
  <2> HIDE DEF d, V, P, L
  <2>3. /\ c \in [vols : V, cur : Nat, path : P, list : L, cursor : Nat, scroll : Nat,
                  cut : BOOLEAN]
        /\ c.vols = f.vols /\ c.cur = f.cur /\ c.path = f.path /\ c.list = <<>>
    BY <2>1, <2>2 DEF Cleared
  <2> QED BY <2>3 DEF Browsing, V, P, L
<1>2. CASE fb' = c /\ found' = [names |-> <<>>, sorted |-> TRUE]
  <2>1. InOrder(<<>>, <<>>, <<>>)
    BY DEF InOrder
  <2>2. Range(<<>>) = {} BY DEF Range
  <2>3. found'.names = <<>> /\ <<>> \in Seq(Entry) /\ fb'.list = <<>> BY <1>1, <1>2
  <2> HIDE DEF c
  <2> QED BY <1>1, <1>2, <2>1, <2>2, <2>3
<1>3. ASSUME d # None, NEW r \in Readings(d), NEW memory \in BOOLEAN,
             fb' = [c EXCEPT !.list = IF memory THEN Sorted(r.names) ELSE r.names,
                             !.cut = r.cut],
             found' = [names |-> r.names, sorted |-> memory]
      PROVE  /\ fb' \in Browsing /\ fb'.vols = f.vols /\ fb'.cur = f.cur /\ fb'.path = f.path
             /\ found'.names \in Seq(Entry)
             /\ found'.sorted => \E p : InOrder(found'.names, fb'.list, p)
             /\ \A e \in Range(fb'.list) : Here(f, e)
  <2>1. d \in Seq(Entry) BY <1>3, DirectoryIs
  <2>2. setup.perRead \in Nat BY SetupsAssumption
  <2>3. r.names \in Seq(Range(d)) /\ r.cut \in BOOLEAN
    <3> HIDE DEF d
    <3> QED BY <1>3, <2>1, <2>2, ReadingsAre
  <2>4. Range(d) \subseteq Entry BY <2>1 DEF Range
  <2>5. r.names \in Seq(Entry) BY <2>3, <2>4
  <2>6. PICK p : InOrder(r.names, Sorted(r.names), p) BY <2>5, SortedIs
  <2>7. /\ Sorted(r.names) \in Seq(Entry)
        /\ \A e \in Range(Sorted(r.names)) : e \in Range(d)
    <3> DEFINE n == Len(r.names)
               s == Sorted(r.names)
    <3>1. n \in Nat /\ s \in [1..n -> Entry] /\ p \in [1..n -> 1..n]
          /\ \A k \in 1..n : s[k] = r.names[p[k]]
      BY <2>5, <2>6 DEF InOrder
    <3>2. \A k \in 1..n : r.names[k] \in Range(d) BY <2>3
    <3> HIDE DEF n, s, d
    <3>3. s \in Seq(Entry) BY <3>1, RunIsSeq
    <3>4. \A e \in Range(s) : \E k \in 1..n : e = s[k] BY <3>1 DEF Range
    <3>5. \A k \in 1..n : s[k] \in Range(d)
      <4> SUFFICES ASSUME NEW k \in 1..n PROVE s[k] \in Range(d) OBVIOUS
      <4>1. p[k] \in 1..n /\ s[k] = r.names[p[k]] BY <3>1
      <4> QED BY <3>2, <4>1
    <3> QED BY <3>3, <3>4, <3>5 DEF s
  <2>8. \A e \in Range(r.names) : e \in Range(d)
    <3> HIDE DEF d
    <3> QED BY <2>3 DEF Range
  <2> DEFINE rows == IF memory THEN Sorted(r.names) ELSE r.names
  <2>9. rows \in Seq(Entry) /\ \A e \in Range(rows) : e \in Range(d)
    <3> HIDE DEF d
    <3> QED BY <2>5, <2>7, <2>8
  <2>10. memory => rows = Sorted(r.names) OBVIOUS
  <2>11. fb' = [c EXCEPT !.list = rows, !.cut = r.cut] BY <1>3
  <2>12. found'.names = r.names /\ found'.sorted = memory BY <1>3
  <2> HIDE DEF rows, c
  <2>13. /\ fb' \in Browsing /\ fb'.vols = c.vols /\ fb'.cur = c.cur /\ fb'.path = c.path
         /\ fb'.list = rows
    BY <1>1, <2>3, <2>9, <2>11 DEF Browsing
  <2>14. \A e \in Range(rows) : Here(f, e) BY <1>3, <2>9 DEF Here
  <2> HIDE DEF d
  <2> QED BY <1>1, <2>5, <2>6, <2>10, <2>12, <2>13, <2>14
<1> QED BY <1>2, <1>3 DEF Listed

LEMMA VolumesAre ==
    ASSUME setup \in Setups
    PROVE  Volumes \in Seq(Range(setup.handles))
<1> DEFINE T == Range(setup.handles)
<1>1. setup.handles \in Seq(T)
  BY SetupsAssumption
<1> DEFINE readable == Only(setup.handles, {h \in T \ pulled : setup.has[h] # "nothing"})
<1>2. readable \in Seq(T)
  <2>1. readable \in Seq(Range(setup.handles) \cap {h \in T \ pulled : setup.has[h] # "nothing"})
    BY <1>1, OnlyIs
  <2> QED BY <2>1
<1> HIDE DEF readable
<1>3. \A S : Only(readable, S) \in Seq(T)
  <2> SUFFICES ASSUME NEW S PROVE Only(readable, S) \in Seq(T) OBVIOUS
  <2>1. Only(readable, S) \in Seq(Range(readable) \cap S) BY <1>2, OnlyIs
  <2>2. Range(readable) \subseteq T
    <3>1. \A i \in 1..Len(readable) : readable[i] \in T BY <1>2
    <3> QED BY <1>2, <3>1 DEF Range
  <2>3. Range(readable) \cap S \subseteq T BY <2>2
  <2> QED BY <2>1, <2>3
<1>4. Volumes = Only(readable, {BootHandle}) \o Only(readable, (T \ pulled) \ {BootHandle})
  BY DEF Volumes, readable
<1> HIDE DEF T
<1> QED BY <1>3, <1>4, ConcatProperties DEF T

LEMMA RowsIs ==
    ASSUME setup \in Setups
    PROVE  Rows \in Nat \ {0}
<1>1. setup.rows \in Nat \ {0} BY SetupsAssumption
<1> QED BY <1>1 DEF Rows

-----------------------------------------------------------------------------
(* What an action does to the browser's place and to its rows.               *)
SamePlace ==
    /\ fb' \in Browsing /\ fb'.vols = fb.vols /\ fb'.cur = fb.cur
    /\ fb'.path = fb.path /\ fb'.list = fb.list

LEMMA CursorSet ==
    ASSUME fb \in Browsing, NEW c \in Nat, fb' = [fb EXCEPT !.cursor = c]
    PROVE  SamePlace
<1> DEFINE V == Seq(Range(setup.handles))
           P == Seq(Names)
           L == Seq(Entry)
<1>1. fb \in [vols : V, cur : Nat, path : P, list : L, cursor : Nat, scroll : Nat,
             cut : BOOLEAN]
  BY DEF Browsing
<1> HIDE DEF V, P, L
<1>2. /\ fb' \in [vols : V, cur : Nat, path : P, list : L, cursor : Nat, scroll : Nat,
                 cut : BOOLEAN]
      /\ fb'.vols = fb.vols /\ fb'.cur = fb.cur /\ fb'.path = fb.path /\ fb'.list = fb.list
  BY <1>1
<1> QED BY <1>2 DEF Browsing, SamePlace, V, P, L

LEMMA ScrollSet ==
    ASSUME fb \in Browsing, NEW c \in Nat, fb' = [fb EXCEPT !.scroll = c]
    PROVE  SamePlace /\ fb'.cursor = fb.cursor
<1> DEFINE V == Seq(Range(setup.handles))
           P == Seq(Names)
           L == Seq(Entry)
<1>1. fb \in [vols : V, cur : Nat, path : P, list : L, cursor : Nat, scroll : Nat,
             cut : BOOLEAN]
  BY DEF Browsing
<1> HIDE DEF V, P, L
<1>2. /\ fb' \in [vols : V, cur : Nat, path : P, list : L, cursor : Nat, scroll : Nat,
                 cut : BOOLEAN]
      /\ fb'.vols = fb.vols /\ fb'.cur = fb.cur /\ fb'.path = fb.path /\ fb'.list = fb.list
      /\ fb'.cursor = fb.cursor
  BY <1>1
<1> QED BY <1>2 DEF Browsing, SamePlace, V, P, L

LEMMA MovedPlace ==
    ASSUME fb \in Browsing, NEW delta \in Nat, NEW back \in BOOLEAN, fb' = Moved(delta, back)
    PROVE  SamePlace
<1>1. fb.cursor \in Nat /\ fb.list \in Seq(Entry)
  BY DEF Browsing
<1>2. CASE fb' = fb
  BY <1>2 DEF SamePlace
<1>3. CASE fb.list # <<>> /\ back
  <2> DEFINE c == IF delta > fb.cursor THEN 0 ELSE fb.cursor - delta
  <2>1. c \in Nat BY <1>1
  <2>2. fb' = [fb EXCEPT !.cursor = c] BY <1>3 DEF Moved
  <2> HIDE DEF c
  <2> QED BY <2>1, <2>2, CursorSet
<1>4. CASE fb.list # <<>> /\ ~back
  <2> DEFINE c == IF fb.cursor + delta >= Len(fb.list) THEN Len(fb.list) - 1
                  ELSE fb.cursor + delta
  <2>1. c \in Nat
    <3>1. Len(fb.list) \in Nat /\ Len(fb.list) # 0 BY <1>1, <1>4, EmptySeq
    <3> QED BY <1>1, <3>1
  <2>2. fb' = [fb EXCEPT !.cursor = c] BY <1>4 DEF Moved
  <2> HIDE DEF c
  <2> QED BY <2>1, <2>2, CursorSet
<1>5. fb.list = <<>> => fb' = fb
  BY DEF Moved
<1> QED BY <1>2, <1>3, <1>4, <1>5

(* The window that is drawn holds the row under the cursor.                  *)
LEMMA InWindow ==
    ASSUME setup \in Setups, fb \in Browsing, NEW s, s = ToEnd(Clamped(fb.scroll))
    PROVE  /\ s \in Nat
           /\ fb.cursor < Len(fb.list) => s < fb.cursor + 1 /\ fb.cursor + 1 <= s + Rows
<1>1. Rows \in Nat \ {0} BY RowsIs
<1>2. fb.cursor \in Nat /\ fb.scroll \in Nat /\ Len(fb.list) \in Nat
  BY DEF Browsing
<1> DEFINE c == Clamped(fb.scroll)
<1>3. c \in Nat /\ c <= fb.cursor /\ fb.cursor < c + Rows
  BY <1>1, <1>2 DEF Clamped
<1> HIDE DEF c
<1>4. s = IF ~setup.text /\ Len(fb.list) > Rows /\ c + Rows > Len(fb.list)
          THEN Len(fb.list) - Rows ELSE c
  BY DEF ToEnd, c
<1>5. CASE Len(fb.list) > Rows /\ c + Rows > Len(fb.list) /\ s = Len(fb.list) - Rows
  <2>1. s \in Nat /\ s < c /\ s + Rows = Len(fb.list) BY <1>1, <1>2, <1>3, <1>5
  <2>2. s < fb.cursor + 1 BY <1>2, <1>3, <2>1
  <2>3. fb.cursor < Len(fb.list) => fb.cursor + 1 <= s + Rows BY <1>2, <2>1
  <2> QED BY <2>1, <2>2, <2>3
<1>6. CASE s = c
  BY <1>1, <1>2, <1>3, <1>6
<1> QED BY <1>4, <1>5, <1>6

(* After the step the listing is that of the browser's place.                *)
InPlace ==
    /\ fb'.cur \in 1..Len(fb'.vols) /\ (fb \in Browsing)'
    /\ found'.names \in Seq(Entry)
    /\ found'.sorted => \E p : InOrder(found'.names, fb'.list, p)
    /\ \A e \in Range(fb'.list) : Here(fb, e)'

(* A step that keeps the place and what was found keeps the listing.         *)
LEMMA KeepsPlace ==
    ASSUME Shape, Listings, loop.pc # "closed", SamePlace, UNCHANGED <<setup, found>>
    PROVE  InPlace
<1>1. (fb \in Browsing)' /\ fb'.cur \in 1..Len(fb'.vols)
  BY DEF SamePlace, Browsing, Shape
<1>2. \A e \in Range(fb'.list) : Here(fb, e)
  BY DEF SamePlace, Listings
<1>3. \A e : Here(fb, e)' <=> Here(fb, e)
  BY DEF SamePlace, Here, Directory
<1> QED BY <1>1, <1>2, <1>3 DEF SamePlace, Listings, InPlace

(* A step that lists a place takes the listing of that place.                *)
LEMMA ListsPlace ==
    ASSUME setup \in Setups, NEW f \in Browsing, f.cur \in 1..Len(f.vols), Listed(f),
           setup' = setup
    PROVE  InPlace
<1>1. /\ fb' \in Browsing /\ fb'.vols = f.vols /\ fb'.cur = f.cur /\ fb'.path = f.path
      /\ found'.names \in Seq(Entry)
      /\ found'.sorted => \E p : InOrder(found'.names, fb'.list, p)
      /\ \A e \in Range(fb'.list) : Here(f, e)
  BY Listing
<1>2. (fb \in Browsing)'
  BY <1>1 DEF Browsing
<1>3. \A e : Here(fb, e)' <=> Here(f, e)
  BY <1>1 DEF Here, Directory
<1> QED BY <1>1, <1>2, <1>3 DEF InPlace

-----------------------------------------------------------------------------
(* The inductive invariant, and each action.                                 *)
Inv == Shape /\ Listings /\ Shown /\ PickIsShown
Loops == [pc : {"closed", "draw", "key", "picked"}, dirty : BOOLEAN, message : BOOLEAN]

(* The steps that list a directory are followed by a drawing.                *)
LEMMA ListStep ==
    ASSUME setup \in Setups, NEW f \in Browsing, f.cur \in 1..Len(f.vols), Listed(f),
           setup' = setup, loop' \in Loops, loop'.pc = "draw", loop'.dirty, blind' \in BOOLEAN
    PROVE  Inv'
<1>1. InPlace
  BY ListsPlace
<1>2. Shape' BY <1>1 DEF Shape, InPlace, Loops
<1>3. Listings' BY <1>1 DEF Listings, InPlace
<1>4. Shown' BY DEF Shown
<1>5. PickIsShown' BY DEF PickIsShown
<1> QED BY <1>2, <1>3, <1>4, <1>5 DEF Inv

(* The steps that move the cursor, or nothing, and whether that is seen.     *)
LEMMA MoveStep ==
    ASSUME Inv, loop.pc \in {"draw", "key"}, SamePlace, UNCHANGED <<setup, found, seen>>,
           loop' \in Loops, loop'.pc \in {"draw", "key"}, blind' \in BOOLEAN,
           fb' = fb \/ loop'.dirty \/ blind',
           ~blind' => ~blind, ~loop'.dirty => ~loop.dirty
    PROVE  Inv'
<1>1. InPlace
  BY KeepsPlace DEF Inv
<1>2. Shape' BY <1>1 DEF Shape, InPlace, Loops, Inv
<1>3. Listings' BY <1>1 DEF Listings, InPlace
<1>4. Shown' BY DEF Shown, Inv
<1>5. PickIsShown' BY DEF PickIsShown
<1> QED BY <1>2, <1>3, <1>4, <1>5 DEF Inv

LEMMA CloseStep ==
    ASSUME Inv, setup' = setup, fb' = None, loop' \in Loops, loop'.pc = "closed",
           blind' \in BOOLEAN
    PROVE  Inv'
<1>1. Shape' BY DEF Shape, Loops, Inv
<1>2. Listings' BY DEF Listings
<1>3. Shown' BY DEF Shown
<1>4. PickIsShown' BY DEF PickIsShown
<1> QED BY <1>1, <1>2, <1>3, <1>4 DEF Inv

LEMMA Shapely ==
    ASSUME Inv
    PROVE  /\ setup \in Setups /\ loop \in Loops /\ blind \in BOOLEAN
           /\ loop.pc # "closed" => fb \in Browsing /\ fb.cur \in 1..Len(fb.vols)
BY DEF Inv, Shape, Loops

LEMMA OpenStep ==
    ASSUME Inv, Open
    PROVE  Inv'
<1>1. PICK p \in IF setup.text THEN {<<>>, setup.initial} ELSE {<<>>} :
        Listed([vols |-> Volumes, cur |-> 1, path |-> p, list |-> <<>>, cursor |-> 0,
                scroll |-> 0, cut |-> FALSE])
  BY DEF Open
<1> DEFINE f == [vols |-> Volumes, cur |-> 1, path |-> p, list |-> <<>>, cursor |-> 0,
                 scroll |-> 0, cut |-> FALSE]
<1>2. setup \in Setups BY Shapely
<1>3. Volumes \in Seq(Range(setup.handles)) /\ p \in Seq(Names)
  <2>1. setup.initial \in Seq(Names) BY <1>2, SetupsAssumption
  <2>2. <<>> \in Seq(Names) OBVIOUS
  <2> QED BY <1>2, <2>1, <2>2, VolumesAre
<1>4. f \in Browsing /\ f.vols = Volumes /\ f.cur = 1
  <2>1. <<>> \in Seq(Entry) OBVIOUS
  <2> QED BY <1>3, <2>1 DEF Browsing
<1>5. f.cur \in 1..Len(f.vols)
  <2>1. Len(Volumes) \in Nat /\ Len(Volumes) # 0 BY <1>3, EmptySeq DEF Open
  <2> QED BY <1>4, <2>1
<1>6. setup' = setup /\ loop' \in Loops /\ loop'.pc = "draw" /\ loop'.dirty /\ blind' \in BOOLEAN
  BY DEF Open, Loops
<1>7. Listed(f) BY <1>1
<1> HIDE DEF f
<1> QED BY <1>2, <1>4, <1>5, <1>6, <1>7, ListStep

LEMMA DrawStep ==
    ASSUME Inv, Draw
    PROVE  Inv'
<1>1. /\ setup \in Setups /\ loop \in Loops /\ blind \in BOOLEAN
      /\ fb \in Browsing /\ fb.cur \in 1..Len(fb.vols) /\ loop.pc = "draw"
  BY Shapely DEF Draw
<1>2. /\ loop' \in Loops /\ loop'.pc = "key" /\ ~loop'.dirty
      /\ UNCHANGED <<setup, found>>
  BY <1>1 DEF Draw, Loops
<1>3. CASE loop.dirty
  <2> DEFINE s == ToEnd(Clamped(fb.scroll))
             rows == {i \in 1..Len(fb.list) : s < i /\ i <= s + Rows}
  <2>1. /\ fb' = [fb EXCEPT !.scroll = s] /\ blind' = FALSE
        /\ seen' = [volume |-> fb.vols[fb.cur], path |-> fb.path,
                    rows |-> {fb.list[i] : i \in rows},
                    marked |-> IF fb.cursor + 1 \in rows
                               THEN fb.list[fb.cursor + 1] ELSE None]
    BY <1>3 DEF Draw
  <2>2. s \in Nat /\ (fb.cursor < Len(fb.list) => s < fb.cursor + 1 /\ fb.cursor + 1 <= s + Rows)
    BY <1>1, InWindow
  <2> HIDE DEF s
  <2>3. SamePlace /\ fb'.cursor = fb.cursor
    BY <1>1, <2>1, <2>2, ScrollSet
  <2>4. fb.cursor < Len(fb.list) => fb.cursor + 1 \in rows
    <3>1. fb.cursor \in Nat /\ Len(fb.list) \in Nat BY <1>1 DEF Browsing
    <3> QED BY <2>2, <3>1
  <2> HIDE DEF rows
  <2>5. /\ seen'.volume = fb.vols[fb.cur] /\ seen'.path = fb.path
        /\ fb.cursor < Len(fb.list) => seen'.marked = fb.list[fb.cursor + 1]
    BY <2>1, <2>4
  <2>6. InPlace
    BY <1>1, <1>2, <2>3, KeepsPlace DEF Inv
  <2>7. Shape' BY <1>1, <1>2, <2>1, <2>6 DEF Shape, InPlace, Loops
  <2>8. Listings' BY <2>6 DEF Listings, InPlace
  <2>9. Shown' BY <2>3, <2>5 DEF Shown, SamePlace
  <2>10. PickIsShown' BY <1>2 DEF PickIsShown
  <2> QED BY <2>7, <2>8, <2>9, <2>10 DEF Inv
<1>4. CASE ~loop.dirty
  <2>1. UNCHANGED <<fb, seen, blind>> BY <1>4 DEF Draw
  <2>2. SamePlace BY <1>1, <2>1 DEF SamePlace
  <2> QED BY <1>1, <1>2, <1>4, <2>1, <2>2, MoveStep
<1> QED BY <1>3, <1>4

LEMMA WheelStep ==
    ASSUME Inv, NEW back \in BOOLEAN, Wheel(back)
    PROVE  Inv'
<1>1. /\ setup \in Setups /\ loop \in Loops /\ blind \in BOOLEAN
      /\ fb \in Browsing /\ loop.pc = "key"
  BY Shapely DEF Wheel
<1>2. SamePlace BY <1>1, MovedPlace DEF Wheel
<1>3. setup.cached \in BOOLEAN BY <1>1, SetupsAssumption
<1>4. loop' \in Loops /\ loop'.pc = "key" /\ (~loop'.dirty => ~loop.dirty)
  BY <1>1, <1>3 DEF Wheel, Loops
<1>5. /\ blind' \in BOOLEAN /\ (fb' = fb \/ blind') /\ (~blind' => ~blind)
      /\ UNCHANGED <<setup, found, seen>>
  BY <1>1 DEF Wheel
<1> QED BY <1>1, <1>2, <1>4, <1>5, MoveStep

(* A key that leaves the browser where it is, or is followed by a drawing.   *)
LEMMA StayStep ==
    ASSUME Inv, Pressed, SamePlace, UNCHANGED <<found, blind>>,
           NEW d \in BOOLEAN, fb' = fb \/ d, Goto(d) \/ Fresh
    PROVE  Inv'
<1>1. setup \in Setups /\ loop \in Loops /\ blind \in BOOLEAN /\ loop.pc = "key"
  BY Shapely DEF Pressed
<1>2. UNCHANGED <<setup, found, seen>> BY DEF Pressed
<1>3. /\ loop' \in Loops /\ loop'.pc = "draw" /\ (d => loop'.dirty)
      /\ (~loop'.dirty => ~loop.dirty)
  <2>1. CASE Goto(d) BY <1>1, <2>1 DEF Goto, Loops
  <2>2. CASE Fresh BY <1>1, <2>2 DEF Fresh, Loops
  <2> QED BY <2>1, <2>2
<1> QED BY <1>1, <1>2, <1>3, MoveStep

(* A key that lists another place.                                           *)
LEMMA GoStep ==
    ASSUME Inv, Pressed, NEW f \in Browsing, f.cur \in 1..Len(f.vols), Listed(f), Fresh,
           blind' = blind
    PROVE  Inv'
<1>1. setup \in Setups /\ blind \in BOOLEAN BY Shapely
<1>2. setup' = setup BY DEF Pressed
<1>3. loop' \in Loops /\ loop'.pc = "draw" /\ loop'.dirty BY DEF Fresh, Loops
<1> QED BY <1>1, <1>2, <1>3, ListStep

LEMMA PathSet ==
    ASSUME fb \in Browsing, NEW p \in Seq(Names), NEW f, f = [fb EXCEPT !.path = p]
    PROVE  f \in Browsing /\ f.vols = fb.vols /\ f.cur = fb.cur
<1> DEFINE V == Seq(Range(setup.handles))
           P == Seq(Names)
           L == Seq(Entry)
<1>1. fb \in [vols : V, cur : Nat, path : P, list : L, cursor : Nat, scroll : Nat,
             cut : BOOLEAN]
  BY DEF Browsing
<1> HIDE DEF V, L
<1>2. /\ f \in [vols : V, cur : Nat, path : P, list : L, cursor : Nat, scroll : Nat,
               cut : BOOLEAN]
      /\ f.vols = fb.vols /\ f.cur = fb.cur
  <2>1. p \in P OBVIOUS
  <2> HIDE DEF P
  <2> QED BY <1>1, <2>1
<1> QED BY <1>2 DEF Browsing, V, L

LEMMA CursorIs ==
    ASSUME fb \in Browsing, Cursor # None
    PROVE  /\ fb.cursor < Len(fb.list) /\ Cursor = fb.list[fb.cursor + 1]
           /\ fb.cursor + 1 \in 1..Len(fb.list) /\ Cursor \in Entry /\ Cursor \in Range(fb.list)
<1>1. fb.list \in Seq(Entry) /\ fb.cursor \in Nat
  BY DEF Browsing
<1>2. fb.cursor < Len(fb.list) /\ Cursor = fb.list[fb.cursor + 1]
  BY DEF Cursor
<1>3. fb.cursor + 1 \in 1..Len(fb.list)
  BY <1>1, <1>2
<1> QED BY <1>1, <1>2, <1>3 DEF Range

LEMMA EnterStep ==
    ASSUME Inv, EnterDirectory
    PROVE  Inv'
<1>0. Pressed /\ Cursor # None /\ blind' = blind
  BY DEF EnterDirectory
<1>1. fb \in Browsing /\ fb.cur \in 1..Len(fb.vols)
  BY <1>0, Shapely DEF Pressed
<1>2. CASE UNCHANGED <<fb, found>> /\ (Fresh \/ Goto(FALSE))
  <2>1. SamePlace BY <1>1, <1>2 DEF SamePlace
  <2> QED BY <1>0, <1>2, <2>1, StayStep
<1>3. CASE Listed([fb EXCEPT !.path = Append(@, Cursor.name)]) /\ Fresh
  <2> DEFINE f == [fb EXCEPT !.path = Append(@, Cursor.name)]
             p == Append(fb.path, Cursor.name)
  <2>1. p \in Seq(Names)
    <3>1. fb.path \in Seq(Names) BY <1>1 DEF Browsing
    <3>2. Cursor.name \in Names BY <1>0, <1>1, CursorIs DEF Entry
    <3> QED BY <3>1, <3>2, AppendProperties
  <2>2. f = [fb EXCEPT !.path = p] OBVIOUS
  <2>3. Listed(f) BY <1>3
  <2> HIDE DEF f, p
  <2>4. f \in Browsing /\ f.vols = fb.vols /\ f.cur = fb.cur
    BY <1>1, <2>1, <2>2, PathSet
  <2>5. f.cur \in 1..Len(f.vols) BY <1>1, <2>4
  <2> QED BY <1>0, <1>3, <2>3, <2>4, <2>5, GoStep
<1> QED BY <1>2, <1>3 DEF EnterDirectory

LEMMA UpStep ==
    ASSUME Inv, Up
    PROVE  Inv'
<1>0. Pressed /\ blind' = blind
  BY DEF Up
<1>1. fb \in Browsing /\ fb.cur \in 1..Len(fb.vols)
  BY <1>0, Shapely DEF Pressed
<1>2. CASE UNCHANGED <<fb, found>> /\ Goto(FALSE)
  <2>1. SamePlace BY <1>1, <1>2 DEF SamePlace
  <2> QED BY <1>0, <1>2, <2>1, StayStep
<1>3. CASE fb.path # <<>> /\ Listed([fb EXCEPT !.path = Front(@)]) /\ Fresh
  <2> DEFINE f == [fb EXCEPT !.path = Front(@)]
             p == Front(fb.path)
  <2>1. p \in Seq(Names)
    <3>1. fb.path \in Seq(Names) BY <1>1 DEF Browsing
    <3>2. Len(fb.path) \in Nat /\ \A i \in 1..Len(fb.path) - 1 : fb.path[i] \in Names
      BY <3>1
    <3>3. SubSeq(fb.path, 1, Len(fb.path) - 1) \in Seq(Names)
      BY <3>2, SubSeqProperties
    <3> QED BY <3>3 DEF Front
  <2>2. f = [fb EXCEPT !.path = p] OBVIOUS
  <2>3. Listed(f) BY <1>3
  <2> HIDE DEF f, p
  <2>4. f \in Browsing /\ f.vols = fb.vols /\ f.cur = fb.cur
    BY <1>1, <2>1, <2>2, PathSet
  <2>5. f.cur \in 1..Len(f.vols) BY <1>1, <2>4
  <2> QED BY <1>0, <1>3, <2>3, <2>4, <2>5, GoStep
<1> QED BY <1>2, <1>3 DEF Up

LEMMA SwitchStep ==
    ASSUME Inv, SwitchVolume
    PROVE  Inv'
<1>0. Pressed /\ blind' = blind /\ Fresh
  BY DEF SwitchVolume
<1>1. fb \in Browsing /\ fb.cur \in 1..Len(fb.vols)
  BY <1>0, Shapely DEF Pressed
<1>2. CASE UNCHANGED <<fb, found>>
  <2>1. SamePlace BY <1>1, <1>2 DEF SamePlace
  <2> QED BY <1>0, <1>2, <2>1, StayStep
<1>3. CASE Listed([fb EXCEPT !.cur = IF @ = Len(fb.vols) THEN 1 ELSE @ + 1, !.path = <<>>])
  <2> DEFINE c == IF fb.cur = Len(fb.vols) THEN 1 ELSE fb.cur + 1
             f == [fb EXCEPT !.cur = c, !.path = <<>>]
             V == Seq(Range(setup.handles))
             P == Seq(Names)
             L == Seq(Entry)
  <2>1. Listed(f) BY <1>3
  <2>2. c \in Nat /\ c \in 1..Len(fb.vols)
    <3>1. Len(fb.vols) \in Nat BY <1>1 DEF Browsing
    <3> QED BY <1>1, <3>1
  <2>3. fb \in [vols : V, cur : Nat, path : P, list : L, cursor : Nat, scroll : Nat,
               cut : BOOLEAN]
    BY <1>1 DEF Browsing
  <2>4. <<>> \in P OBVIOUS
  <2> HIDE DEF c, V, P, L
  <2>5. /\ f \in [vols : V, cur : Nat, path : P, list : L, cursor : Nat, scroll : Nat,
                 cut : BOOLEAN]
        /\ f.vols = fb.vols /\ f.cur = c
    BY <2>2, <2>3, <2>4
  <2>6. f \in Browsing BY <2>5 DEF Browsing, V, P, L
  <2> HIDE DEF f
  <2> QED BY <1>0, <2>1, <2>2, <2>5, <2>6, GoStep
<1> QED BY <1>2, <1>3 DEF SwitchVolume

LEMMA MoveKeyStep ==
    ASSUME Inv, NEW delta \in {1, Rows}, NEW back \in BOOLEAN, MoveKey(delta, back)
    PROVE  Inv'
<1>1. fb \in Browsing /\ setup \in Setups
  BY Shapely DEF MoveKey, Pressed
<1>2. delta \in Nat BY <1>1, RowsIs
<1>3. SamePlace BY <1>1, <1>2, MovedPlace DEF MoveKey
<1> DEFINE d == setup.text \/ fb' # fb
<1>4. d \in BOOLEAN /\ (fb' = fb \/ d) OBVIOUS
<1>5. Pressed /\ UNCHANGED <<found, blind>> /\ Goto(d) BY DEF MoveKey
<1> HIDE DEF d
<1> QED BY <1>3, <1>4, <1>5, StayStep

LEMMA LetterStep ==
    ASSUME Inv, NEW n \in Names, LetterKey(n)
    PROVE  Inv'
<1> DEFINE I == {j \in 1..Len(fb.list) : Rank[fb.list[j].name] = Rank[n]}
           i == SelectInSeq(fb.list, LAMBDA e : Rank[e.name] = Rank[n])
           d == fb' # fb
<1>1. fb \in Browsing BY Shapely DEF LetterKey, Pressed
<1>2. i = IF I # {} THEN Min(I) ELSE 0
  BY DEF SelectInSeq
<1>3. I \subseteq Nat /\ 0 \notin I
  OBVIOUS
<1>4. i # 0 => i - 1 \in Nat
  <2> HIDE DEF I, i
  <2>1. CASE I # {}
    <3>1. Min(I) \in I BY <1>3, <2>1, Least
    <3>2. i \in I BY <1>2, <2>1, <3>1
    <3>3. i \in Nat /\ i # 0 BY <1>3, <3>2
    <3> QED BY <3>3
  <2> QED BY <1>2, <2>1
<1>5. fb' = IF i = 0 THEN fb ELSE [fb EXCEPT !.cursor = i - 1]
  BY DEF LetterKey
<1> HIDE DEF i, I
<1>6. SamePlace
  <2>1. CASE i = 0 BY <1>1, <1>5, <2>1 DEF SamePlace
  <2>2. CASE i # 0
    <3> DEFINE c == i - 1
    <3>1. c \in Nat BY <1>4, <2>2
    <3>2. fb' = [fb EXCEPT !.cursor = c] BY <1>5, <2>2
    <3> HIDE DEF c
    <3> QED BY <1>1, <3>1, <3>2, CursorSet
  <2> QED BY <2>1, <2>2
<1>7. d \in BOOLEAN /\ (fb' = fb \/ d) OBVIOUS
<1>8. Pressed /\ UNCHANGED <<found, blind>> /\ Goto(d) BY DEF LetterKey
<1> HIDE DEF d
<1> QED BY <1>6, <1>7, <1>8, StayStep

(* The initrd beside the kernel is of the list, and missed only if there is  *)
(* none.                                                                     *)
LEMMA BesideIs ==
    ASSUME fb \in Browsing
    PROVE  IF \E e \in Range(fb.list) : ~e.dir /\ IsInitrd(e.name)
           THEN /\ InitrdBeside # None /\ InitrdBeside \in Range(fb.list)
                /\ ~InitrdBeside.dir /\ IsInitrd(InitrdBeside.name)
           ELSE InitrdBeside = None
<1> DEFINE L == fb.list
           test(e) == ~e.dir /\ IsInitrd(e.name)
           I == {j \in 1..Len(L) : test(L[j])}
           i == SelectInSeq(fb.list, LAMBDA e : ~e.dir /\ IsInitrd(e.name))
<1>1. i = IF I # {} THEN Min(I) ELSE 0
  BY DEF SelectInSeq
<1>2. InitrdBeside = IF i = 0 THEN None ELSE L[i]
  BY DEF InitrdBeside
<1>3. L \in Seq(Entry) BY DEF Browsing
<1> HIDE DEF i, L, test
<1>4. Range(L) = {L[j] : j \in 1..Len(L)}
  BY <1>3 DEF Range
<1>5. CASE \E e \in Range(L) : test(e)
  <2>1. I # {} BY <1>4, <1>5
  <2>2. I \subseteq Nat BY <1>3
  <2>3. Min(I) \in I BY <2>1, <2>2, Least
  <2>4. i \in 1..Len(L) /\ test(L[i]) BY <1>1, <2>1, <2>3
  <2>5. InitrdBeside = L[i] /\ L[i] \in Entry BY <1>2, <1>3, <2>4
  <2>6. InitrdBeside # None BY <2>5, NoneAssumption
  <2> QED BY <1>4, <1>5, <2>4, <2>5, <2>6 DEF test, L
<1>6. CASE ~\E e \in Range(L) : test(e)
  <2>1. I = {} BY <1>4, <1>6
  <2> QED BY <1>1, <1>2, <1>6, <2>1 DEF test, L
<1> QED BY <1>5, <1>6

(* A kernel is picked: what the screen shows becomes what is to be booted.   *)
LEMMA PickKernel ==
    ASSUME Inv, loop.pc = "key", Cursor # None, ~Cursor.dir,
           over' = [kernel |-> File(Cursor), volume |-> fb.vols[fb.cur],
                    initrd |-> IF IsKernel(Cursor.name) /\ ~IsEfi(Cursor.name)
                                  /\ InitrdBeside # None
                               THEN File(InitrdBeside) ELSE over.initrd],
           loop' = [loop EXCEPT !.pc = "picked"], blind' = (blind \/ loop.dirty),
           UNCHANGED <<setup, fb, found, seen>>
    PROVE  Inv'
<1>1. /\ setup \in Setups /\ loop \in Loops /\ blind \in BOOLEAN
      /\ fb \in Browsing /\ fb.cur \in 1..Len(fb.vols)
  BY Shapely
<1>2. loop' \in Loops /\ loop'.pc = "picked" /\ blind' \in BOOLEAN
  BY <1>1 DEF Loops
<1>3. InPlace
  <2>1. SamePlace BY <1>1 DEF SamePlace
  <2> QED BY <1>1, <2>1, KeepsPlace DEF Inv
<1>4. Shape' BY <1>1, <1>2, <1>3 DEF Shape, InPlace, Loops
<1>5. Listings' BY <1>3 DEF Listings, InPlace
<1>6. Shown' BY <1>2 DEF Shown
<1>7. /\ fb.cursor < Len(fb.list) /\ Cursor = fb.list[fb.cursor + 1]
      /\ Cursor \in Entry /\ Cursor \in Range(fb.list)
  BY <1>1, CursorIs
<1>8. /\ over'.kernel.path = fb.path /\ over'.kernel.name = Cursor.name
      /\ over'.volume = fb.vols[fb.cur]
  BY DEF File
<1>9. ~blind' => /\ seen'.marked # None /\ seen'.marked.name = over'.kernel.name
                 /\ seen'.path = over'.kernel.path /\ seen'.volume = over'.volume
  <2> SUFFICES ASSUME ~blind'
               PROVE  /\ seen'.marked # None /\ seen'.marked.name = over'.kernel.name
                      /\ seen'.path = over'.kernel.path /\ seen'.volume = over'.volume
    OBVIOUS
  <2>1. ~blind /\ ~loop.dirty OBVIOUS
  <2>2. /\ seen.volume = fb.vols[fb.cur] /\ seen.path = fb.path
        /\ seen.marked = Cursor
    BY <1>7, <2>1 DEF Inv, Shown
  <2> QED BY <1>7, <1>8, <2>2, NoneAssumption
<1>10. LET d == Directory(fb.vols[fb.cur], fb.path)
       IN  d # None /\ [name |-> Cursor.name, dir |-> FALSE] \in Range(d)
  <2>1. Here(fb, Cursor) BY <1>7 DEF Inv, Listings
  <2>2. Cursor = [name |-> Cursor.name, dir |-> FALSE] BY <1>7 DEF Entry
  <2> QED BY <2>1, <2>2 DEF Here
<1>11. LET near == {e.name : e \in {e \in Range(fb.list) : ~e.dir /\ IsInitrd(e.name)}}
       IN  IsKernel(Cursor.name) /\ ~IsEfi(Cursor.name) /\ near # {}
           => over'.initrd.path = fb.path /\ over'.initrd.name \in near
  <2> SUFFICES ASSUME IsKernel(Cursor.name), ~IsEfi(Cursor.name),
                      \E e \in Range(fb.list) : ~e.dir /\ IsInitrd(e.name)
               PROVE  /\ over'.initrd.path = fb.path
                      /\ over'.initrd.name \in {e.name : e \in
                           {e \in Range(fb.list) : ~e.dir /\ IsInitrd(e.name)}}
    OBVIOUS
  <2>1. /\ InitrdBeside # None /\ InitrdBeside \in Range(fb.list)
        /\ ~InitrdBeside.dir /\ IsInitrd(InitrdBeside.name)
    BY <1>1, BesideIs
  <2>2. over'.initrd = File(InitrdBeside) BY <2>1
  <2>3. over'.initrd.path = fb.path /\ over'.initrd.name = InitrdBeside.name
    BY <2>2 DEF File
  <2> QED BY <2>1, <2>3
<1>12. PickIsShown'
  <2>1. blind' \/ (/\ seen'.marked # None /\ seen'.marked.name = over'.kernel.name
                   /\ seen'.path = over'.kernel.path /\ seen'.volume = over'.volume)
    BY <1>9
  <2>2. Directory(over.volume, over.kernel.path)' = Directory(fb.vols[fb.cur], fb.path)
    BY <1>8 DEF Directory
  <2>3. /\ Directory(over.volume, over.kernel.path)' # None
        /\ [name |-> over'.kernel.name, dir |-> FALSE]
             \in Range(Directory(over.volume, over.kernel.path)')
    BY <1>8, <1>10, <2>2
  <2>4. LET near == {e.name : e \in {e \in Range(fb'.list) : ~e.dir /\ IsInitrd(e.name)}}
        IN  IsKernel(over'.kernel.name) /\ ~IsEfi(over'.kernel.name) /\ near # {}
            => over'.initrd.path = over'.kernel.path /\ over'.initrd.name \in near
    BY <1>8, <1>11
  <2> QED BY <2>1, <2>3, <2>4 DEF PickIsShown
<1> QED BY <1>4, <1>5, <1>6, <1>12 DEF Inv

LEMMA PickStep ==
    ASSUME Inv, Pick
    PROVE  Inv'
<1>0. Pressed /\ Cursor # None /\ ~Cursor.dir /\ found' = found
  BY DEF Pick
<1>1. /\ setup \in Setups /\ loop \in Loops /\ blind \in BOOLEAN /\ fb \in Browsing
      /\ loop.pc = "key" /\ UNCHANGED <<setup, seen>>
  BY <1>0, Shapely DEF Pressed
<1>2. CASE /\ fb' = (IF setup.text THEN fb ELSE None)
           /\ loop' = (IF setup.text THEN [pc |-> "draw", dirty |-> TRUE, message |-> TRUE]
                       ELSE [loop EXCEPT !.pc = "closed"])
           /\ UNCHANGED blind
  <2>1. CASE setup.text
    <3>1. SamePlace BY <1>1, <1>2, <2>1 DEF SamePlace
    <3>2. loop' \in Loops /\ loop'.pc = "draw" /\ loop'.dirty BY <1>2, <2>1 DEF Loops
    <3> QED BY <1>0, <1>1, <1>2, <2>1, <3>1, <3>2, MoveStep
  <2>2. CASE ~setup.text
    <3>1. loop' \in Loops /\ loop'.pc = "closed" BY <1>1, <1>2, <2>2 DEF Loops
    <3> QED BY <1>1, <1>2, <2>2, <3>1, CloseStep
  <2> QED BY <2>1, <2>2
<1>3. CASE /\ over' = [kernel |-> File(Cursor), volume |-> fb.vols[fb.cur],
                       initrd |-> IF IsKernel(Cursor.name) /\ ~IsEfi(Cursor.name)
                                     /\ InitrdBeside # None
                                  THEN File(InitrdBeside) ELSE over.initrd]
           /\ loop' = [loop EXCEPT !.pc = "picked"]
           /\ blind' = (blind \/ loop.dirty) /\ UNCHANGED fb
  BY <1>0, <1>1, <1>3, PickKernel
<1> QED BY <1>2, <1>3 DEF Pick

LEMMA StillStep ==
    ASSUME Inv, UNCHANGED <<setup, fb, over, loop, found, seen, blind>>
    PROVE  Inv'
<1>1. Shape' BY DEF Inv, Shape, Browsing
<1>2. Listings' BY DEF Inv, Listings, Here, Directory
<1>3. Shown' BY DEF Inv, Shown
<1>4. PickIsShown' BY DEF Inv, PickIsShown, Directory
<1> QED BY <1>1, <1>2, <1>3, <1>4 DEF Inv

LEMMA InitInv ==
    ASSUME BrowserInit
    PROVE  Inv
<1>1. Shape BY DEF BrowserInit, Shape
<1>2. Listings BY DEF BrowserInit, Listings
<1>3. Shown BY DEF BrowserInit, Shown
<1>4. PickIsShown BY DEF BrowserInit, PickIsShown
<1> QED BY <1>1, <1>2, <1>3, <1>4 DEF Inv

LEMMA NextInv ==
    ASSUME Inv, [BrowserNext]_browserVars
    PROVE  Inv'
<1>1. CASE Open BY <1>1, OpenStep
<1>2. CASE Draw BY <1>2, DrawStep
<1>3. CASE NoKey
  <2>1. fb \in Browsing BY <1>3, Shapely DEF NoKey, Pressed
  <2>2. SamePlace BY <1>3, <2>1 DEF NoKey, SamePlace
  <2>3. Pressed /\ Goto(FALSE) /\ UNCHANGED <<found, blind>> /\ fb' = fb BY <1>3 DEF NoKey
  <2> QED BY <2>2, <2>3, StayStep
<1>4. CASE EnterDirectory BY <1>4, EnterStep
<1>5. CASE Up BY <1>5, UpStep
<1>6. CASE SwitchVolume BY <1>6, SwitchStep
<1>7. CASE Pick BY <1>7, PickStep
<1>8. CASE Close
  <2>1. loop \in Loops /\ blind \in BOOLEAN BY Shapely
  <2>2. setup' = setup /\ fb' = None /\ blind' = blind /\ loop' = [loop EXCEPT !.pc = "closed"]
    BY <1>8 DEF Close, Pressed
  <2>3. loop' \in Loops /\ loop'.pc = "closed" BY <2>1, <2>2 DEF Loops
  <2> QED BY <2>1, <2>2, <2>3, CloseStep
<1>9. CASE \E back \in BOOLEAN, delta \in {1, Rows} : MoveKey(delta, back)
  BY <1>9, MoveKeyStep
<1>10. CASE \E n \in Names : LetterKey(n)
  BY <1>10, LetterStep
<1>11. CASE \E back \in BOOLEAN : Wheel(back)
  BY <1>11, WheelStep
<1>12. CASE \E h \in Range(setup.handles) : Pull(h)
  BY <1>12, StillStep DEF Pull
<1>13. CASE UNCHANGED browserVars
  BY <1>13, StillStep DEF browserVars
<1> QED BY <1>1, <1>2, <1>3, <1>4, <1>5, <1>6, <1>7, <1>8, <1>9, <1>10, <1>11, <1>12, <1>13
        DEF BrowserNext, Key

LEMMA SpecInv == BrowserSpec => []Inv
<1>1. BrowserInit => Inv BY InitInv
<1>2. Inv /\ [BrowserNext]_browserVars => Inv' BY NextInv
<1> QED BY <1>1, <1>2, PTL DEF BrowserSpec

(* The rows are those of the directory in the order of the sort: for every   *)
(* directory, whatever its length and its names (fb_list, fb_compare).       *)
THEOREM SpecListingRight == BrowserSpec => []ListingRight
<1>1. ASSUME Inv PROVE ListingRight
  <2> SUFFICES ASSUME fb # None, found.sorted
               PROVE  LET names == found.names
                          place(i) == 1 + Cardinality({j \in DOMAIN names : Goes(names, j, i)})
                      IN  /\ Len(fb.list) = Len(names)
                          /\ \A i \in DOMAIN names : fb.list[place(i)] = names[i]
    BY DEF ListingRight
  <2>1. loop.pc # "closed" BY <1>1 DEF Inv, Shape
  <2>2. found.names \in Seq(Entry) /\ \E p : InOrder(found.names, fb.list, p)
    BY <1>1, <2>1 DEF Inv, Listings
  <2>3. PICK p : InOrder(found.names, fb.list, p) BY <2>2
  <2>4. Len(fb.list) = Len(found.names)
    <3>1. Len(found.names) \in Nat /\ fb.list \in [1..Len(found.names) -> Entry]
      BY <2>2, <2>3 DEF InOrder
    <3> QED BY <3>1, RunIsSeq
  <2>5. \A i \in DOMAIN found.names : fb.list[Place(found.names, i)] = found.names[i]
    BY <2>2, <2>3, PlaceIs
  <2> QED BY <2>4, <2>5 DEF Place
<1> QED BY <1>1, SpecInv, PTL

(* A picked kernel is the one the screen marks, on the volume and in the     *)
(* directory that it names (fb_boot_apply, browse_run, gui_run).             *)
THEOREM SpecPickIsShown == BrowserSpec => []PickIsShown
<1>1. Inv => PickIsShown BY DEF Inv
<1> QED BY <1>1, SpecInv, PTL
=============================================================================
