------------------------------ MODULE GptRepair ------------------------------
(***************************************************************************)
(* Repair of a damaged primary GPT from its backup copy: the scan that     *)
(* offers it (boot menu: gui_gptwarn.c, recovery shell: text_gptcmd.c),    *)
(* the confirmation, and gpt_execute_plan, which rewrites the primary      *)
(* block by block on a drive that has a volatile write cache, can fail any *)
(* request, can lose power at any instant and can have its medium swapped. *)
(*                                                                         *)
(* gpt_disk.c checks the media id, block size and last block against those *)
(* seen at open time before every request; `changed' says that check would *)
(* fail.  Everything below pc and plan is lost when the machine stops.     *)
(***************************************************************************)
EXTENDS GptTable

CONSTANTS
    Media,          \* media that may be put in the drive
    Disks,          \* what the media may hold when Visor first sees them
    BadBlocks,      \* blocks whose reads may fail transiently
    MaxFaults,      \* bound: failed requests, power cuts and swaps in a run
    Clean,          \* cache slot with no unwritten data
    NoPlan, NoImage \* no repair plan / no preimage captured

ASSUME RepairAssumption ==
    /\ Disks \subseteq [Media -> Disk]
    /\ BadBlocks \subseteq LBA
    /\ MaxFaults \in Nat
    /\ Clean \notin Sector
    /\ NoPlan \notin Header
    /\ NoImage \notin [0 .. ArrLen + 1 -> Sector]

VARIABLES
    platter,    \* per medium: what survives a power cut
    cache,      \* the drive's volatile write cache
    inserted,   \* the medium in the drive
    locked,     \* the write-protected media
    changed,    \* the medium is not the one the device was opened on
    pc,         \* where the repair dialogue and gpt_execute_plan are
    ui,         \* which front end runs it: "gui" or "text"
    plan,       \* the backup header the plan was built from
    target,     \* the medium the plan was built for
    outcome,    \* gpt_result_t: success or the reason of the failure
    preimage,   \* gpt_result_t.preimage: blocks 0 .. ArrLen+1 before the writes
    suppressed, \* gptw_suppressed: the boot menu asks once per session
    faults      \* faults so far

media == <<platter, cache, inserted, locked, changed>>
dialogue == <<ui, plan, target, suppressed>>
vars == <<platter, cache, inserted, locked, changed, pc, ui, plan, target,
          outcome, preimage, suppressed, faults>>

Writing == {"entries", "flush_entries", "header", "flush_header"}
Executing == Writing \cup {"revalidate", "verify"}
Asking == {"warn", "details", "confirm", "typed"}
Outcomes == {"none", "success", "disk_changed", "write_failed", "flush_failed",
             "verify_failed"}

(* What a read returns: cached data hides the platter. *)
View == [l \in LBA |-> IF cache[l] = Clean THEN platter[inserted][l] ELSE cache[l]]

Fault == faults < MaxFaults /\ faults' = faults + 1

(* Reads that fail during one sequence of requests. *)
ReadErrors(bad) == \/ bad = {} /\ UNCHANGED faults
                   \/ bad \in SUBSET BadBlocks \ {{}} /\ Fault

-----------------------------------------------------------------------------
Init ==
    /\ platter \in Disks
    /\ cache = [l \in LBA |-> Clean]
    /\ inserted \in Media
    /\ locked \in SUBSET Media
    /\ changed = FALSE
    /\ pc = "idle" /\ ui = "gui"
    /\ plan = NoPlan /\ target = inserted
    /\ outcome = "none" /\ preimage = NoImage
    /\ suppressed = FALSE
    /\ faults = 0

(* Open the disk, diagnose it and build a plan; a disk that cannot be      *)
(* repaired leaves nothing behind.                                         *)
Offer(front, full, bad, next) ==
    /\ pc = "idle"
    /\ ReadErrors(bad)
    /\ Plannable(View, bad, full)
    /\ inserted \notin locked
    /\ ui' = front
    /\ pc' = next
    /\ plan' = View[LastBlock]
    /\ target' = inserted
    /\ changed' = FALSE
    /\ outcome' = "none"
    /\ UNCHANGED <<platter, cache, inserted, locked, preimage, suppressed>>

(* gpt_warn_run: the menu's quick scan, then the warning card. *)
WarnRun == /\ ~suppressed
           /\ \E bad \in SUBSET BadBlocks : Offer("gui", FALSE, bad, "warn")

(* gpt_cmd_repair: `gpt repair <media>' in the recovery shell. *)
CmdRepair == \E bad \in SUBSET BadBlocks : Offer("text", TRUE, bad, "typed")

(* Keys on the warning, details and confirmation cards. *)
Navigate(from, to) ==
    /\ pc = from /\ pc' = to
    /\ UNCHANGED <<media, dialogue, outcome, preimage, faults>>

Browse == \/ Navigate("warn", "details")
          \/ Navigate("details", "warn")
          \/ Navigate("warn", "confirm")
          \/ Navigate("details", "confirm")
          \/ Navigate("confirm", "warn")

(* YES typed and entered. *)
Confirm == Navigate("confirm", "revalidate") \/ Navigate("typed", "revalidate")

Decline ==
    /\ pc \in {"warn", "details", "typed"}
    /\ pc' = "idle"
    /\ suppressed' = (suppressed \/ ui = "gui")
    /\ plan' = NoPlan
    /\ UNCHANGED <<media, ui, target, outcome, preimage, faults>>

-----------------------------------------------------------------------------
(* gpt_execute_plan *)

Finish(result) == pc' = "result" /\ outcome' = result

(* gpt_revalidate_source: the medium and the backup are those of the plan. *)
SourceUnchanged(bad) ==
    /\ ~changed
    /\ LastBlock \notin bad /\ View[LastBlock] = plan
    /\ ArrayBlocks(plan.ent) \cap bad = {}
    /\ EntriesMatch(View, plan.ent, plan.tbl)

Preimage(bad) == IF (0 .. ArrLen + 1) \cap bad = {}
                 THEN [l \in 0 .. ArrLen + 1 |-> View[l]] ELSE NoImage

Revalidate ==
    /\ pc = "revalidate"
    /\ \E bad \in SUBSET BadBlocks :
         /\ ReadErrors(bad)
         /\ IF SourceUnchanged(bad)
            THEN pc' = "entries" /\ preimage' = Preimage(bad) /\ UNCHANGED outcome
            ELSE Finish("disk_changed") /\ preimage' = NoImage
    /\ UNCHANGED <<media, dialogue>>

(* gpt_bio_write: blocks reach the drive's cache; a failed request leaves  *)
(* each block old, new or unreadable, and writes nothing to another medium.*)
WriteBlocks(new) ==
    /\ ~changed
    /\ cache' = [l \in LBA |-> IF l \in DOMAIN new THEN new[l] ELSE cache[l]]
    /\ UNCHANGED faults

WriteBlocksFails(new) ==
    \/ changed /\ UNCHANGED <<cache, faults>>
    \/ /\ ~changed /\ Fault
       /\ \E torn \in [DOMAIN new -> {"old", "new", "junk"}] :
            cache' = [l \in LBA |->
                        IF l \notin DOMAIN new \/ torn[l] = "old" THEN cache[l]
                        ELSE IF torn[l] = "new" THEN new[l] ELSE Junk]

NewEntries == [l \in 2 .. ArrLen + 1 |-> Image[plan.tbl][l - 1]]

(* Mutant: the header goes to the block it was read from. *)
NewHeaderSectorAtSource == [l \in {plan.my} |-> NewHeader(plan)]

NewHeaderSector == [l \in {1} |-> NewHeader(plan)]

(* Mutant: the entries are not flushed before the header is written. *)
WriteEntriesUnflushed ==
    /\ pc = "entries"
    /\ \/ WriteBlocks(NewEntries) /\ pc' = "header" /\ UNCHANGED outcome
       \/ WriteBlocksFails(NewEntries) /\ Finish("write_failed")
    /\ UNCHANGED <<platter, inserted, locked, changed, dialogue, preimage>>

WriteEntries ==
    /\ pc = "entries"
    /\ \/ WriteBlocks(NewEntries) /\ pc' = "flush_entries" /\ UNCHANGED outcome
       \/ WriteBlocksFails(NewEntries) /\ Finish("write_failed")
    /\ UNCHANGED <<platter, inserted, locked, changed, dialogue, preimage>>

(* Mutant: the header is not flushed before it is verified. *)
WriteHeaderUnflushed ==
    /\ pc = "header"
    /\ \/ WriteBlocks(NewHeaderSector) /\ pc' = "verify" /\ UNCHANGED outcome
       \/ WriteBlocksFails(NewHeaderSector) /\ Finish("write_failed")
    /\ UNCHANGED <<platter, inserted, locked, changed, dialogue, preimage>>

WriteHeader ==
    /\ pc = "header"
    /\ \/ WriteBlocks(NewHeaderSector) /\ pc' = "flush_header" /\ UNCHANGED outcome
       \/ WriteBlocksFails(NewHeaderSector) /\ Finish("write_failed")
    /\ UNCHANGED <<platter, inserted, locked, changed, dialogue, preimage>>

(* gpt_bio_flush *)
FlushBlocks ==
    /\ ~changed
    /\ platter' = [platter EXCEPT ![inserted] = View]
    /\ cache' = [l \in LBA |-> Clean]
    /\ UNCHANGED faults

FlushBlocksFails ==
    /\ IF changed THEN UNCHANGED faults ELSE Fault
    /\ UNCHANGED <<platter, cache>>

FlushEntries ==
    /\ pc = "flush_entries"
    /\ \/ FlushBlocks /\ pc' = "header" /\ UNCHANGED outcome
       \/ FlushBlocksFails /\ Finish("flush_failed")
    /\ UNCHANGED <<inserted, locked, changed, dialogue, preimage>>

FlushHeader ==
    /\ pc = "flush_header"
    /\ \/ FlushBlocks /\ pc' = "verify" /\ UNCHANGED outcome
       \/ FlushBlocksFails /\ Finish("flush_failed")
    /\ UNCHANGED <<inserted, locked, changed, dialogue, preimage>>

(* The full diagnosis that decides success. *)
Verify ==
    /\ pc = "verify"
    /\ \E bad \in SUBSET BadBlocks :
         /\ ReadErrors(bad)
         /\ Finish(IF ~changed /\ Classify(View, bad, TRUE) = "healthy"
                   THEN "success" ELSE "verify_failed")
    /\ UNCHANGED <<media, dialogue, preimage>>

(* The result card is dismissed, or the shell prints its next prompt. *)
Dismiss ==
    /\ pc = "result"
    /\ pc' = "idle"
    /\ suppressed' = (suppressed \/ ui = "gui")
    /\ plan' = NoPlan
    /\ outcome' = "none" /\ preimage' = NoImage
    /\ UNCHANGED <<media, ui, target, faults>>

-----------------------------------------------------------------------------
(* The drive and the machine *)

(* The drive writes one cached block back on its own. *)
Destage ==
    \E l \in LBA :
        /\ cache[l] # Clean
        /\ platter' = [platter EXCEPT ![inserted][l] = cache[l]]
        /\ cache' = [cache EXCEPT ![l] = Clean]
        /\ UNCHANGED <<inserted, locked, changed, pc, dialogue, outcome,
                       preimage, faults>>

(* Power is cut; the next session starts from what reached the platter. *)
PowerCut ==
    /\ Fault
    /\ cache' = [l \in LBA |-> Clean]
    /\ pc' = "idle" /\ plan' = NoPlan /\ suppressed' = FALSE
    /\ outcome' = "none" /\ preimage' = NoImage
    /\ UNCHANGED <<platter, inserted, locked, changed, ui, target>>

(* Another medium is put in the drive; the firmware gives it a new id. *)
SwapMedium ==
    /\ Fault
    /\ \E m \in Media \ {inserted} : inserted' = m
    /\ changed' = TRUE
    /\ cache' = [l \in LBA |-> Clean]
    /\ UNCHANGED <<platter, locked, pc, dialogue, outcome, preimage>>

Execute == \/ Revalidate
           \/ WriteEntries \/ FlushEntries
           \/ WriteHeader \/ FlushHeader
           \/ Verify

Next == \/ WarnRun \/ CmdRepair
        \/ Browse \/ Confirm \/ Decline
        \/ Execute
        \/ Dismiss
        \/ Destage \/ PowerCut \/ SwapMedium

Spec == Init /\ [][Next]_vars

(* Visor itself never stops inside gpt_execute_plan. *)
FairSpec == Spec /\ WF_vars(Execute)

-----------------------------------------------------------------------------
TypeOK ==
    /\ platter \in [Media -> Disk]
    /\ cache \in [LBA -> Sector \cup {Clean}]
    /\ inserted \in Media /\ target \in Media
    /\ locked \in SUBSET Media
    /\ changed \in BOOLEAN /\ suppressed \in BOOLEAN
    /\ pc \in {"idle", "result"} \cup Asking \cup Executing
    /\ ui \in {"gui", "text"}
    /\ plan \in Header \cup {NoPlan}
    /\ pc \in Asking \cup Executing \cup {"result"} => plan \in Header
    /\ outcome \in Outcomes
    /\ preimage \in [0 .. ArrLen + 1 -> Sector] \cup {NoImage}
    /\ faults \in 0 .. MaxFaults

(* A power cut at any instant leaves a table to recover: a medium that has *)
(* a valid copy on its platter never loses its last one, whichever cached  *)
(* blocks reached it and whichever request failed.                         *)
AlwaysRecoverable ==
    [][\A m \in Media : Recoverable(platter[m]) # {}
                          => Recoverable(platter'[m]) # {}]_vars

(* "The backup GPT is never written": a valid backup copy keeps its header *)
(* and its entry array whatever the repair does.                           *)
BackupNeverWritten ==
    [][\A m \in Media : ValidAt(platter[m], LastBlock)
          => /\ platter'[m][LastBlock] = platter[m][LastBlock]
             /\ ValidAt(platter'[m], LastBlock)]_vars

(* The new header never reaches the drive before the entries it describes  *)
(* are on the platter, so it can never point at a half-written array.      *)
OrderedCommit ==
    pc = "flush_header" /\ ~changed
        => /\ inserted = target
           /\ EntriesMatch(platter[target], 2, plan.tbl)
           /\ \A l \in 2 .. ArrLen + 1 : cache[l] = Clean

(* "Repair completed and verified" is shown only when both copies are      *)
(* valid, equal and beyond the reach of a power cut.                       *)
SuccessIsDurable ==
    outcome = "success"
        => Classify(platter[target], {}, TRUE) = "healthy"

(* A plan confirmed for one medium never writes to another one that was    *)
(* put in its place while the dialogue was open or the repair was running. *)
TargetOnly ==
    [][\A m \in Media : platter'[m] # platter[m]
          => m = target /\ m \notin locked]_vars

(* An interrupted repair stays repairable: once a disk with a protective   *)
(* MBR is one the repair accepts, it never becomes one that needs manual   *)
(* recovery because of a failed request or a power cut half way.           *)
StaysRepairable ==
    [][\A m \in Media :
          Classify(platter[m], {}, TRUE) = "primary_corrupt" /\ platter[m][0] = Protective
          => Classify(platter'[m], {}, TRUE)
               \in {"primary_corrupt", "healthy", "copies_differ"}]_vars

(* The failure card says "The disk was not modified.": what the preimage   *)
(* recorded is still what the disk holds.                                  *)
FailureMessageTrue ==
    pc = "result" /\ ui = "gui" /\ outcome # "success" /\ preimage # NoImage
        => changed \/ \A l \in DOMAIN preimage : View[l] = preimage[l]

(* Repairs come to an end: with finitely many faults, a user who accepts   *)
(* every offer is not asked to repair for ever.                            *)
RepairsConverge == <>[](pc # "revalidate")
=============================================================================
