------------------------------ MODULE Recorder ------------------------------
(* The recording of one boot: the marker that arms it, the frames taken from *)
(* gui_present, the samples taken from the stream the sound controller plays, *)
(* and the AVI written through a staging buffer to the boot volume.  A file   *)
(* is a sequence of words; a chunk is its tag, its length and its data, padded *)
(* to an even length.  The index entries stand for one word each.             *)
EXTENDS Integers, Sequences, FiniteSets, SequencesExt

CONSTANTS
    Second,        \* ticks of the clock in a second (1000000)
    Rate,          \* HDA_SAMPLE_RATE
    RatesAsked,    \* what fps= may ask for in the marker
    FpsMin, FpsMax,
    Pictures,      \* what the back buffer may hold
    JpegLength,    \* a picture -> the length of its encoding
    MaxFrames, MaxBytes,   \* REC_MAX_*
    MaxIndex,      \* AVI_MAX_INDEX
    BufSize,       \* CAP_FILE_BUF
    Rooms,         \* bound: words the volume takes before it refuses a write
    OldFile,       \* what a file of the same name may hold
    Active,        \* samples of the boot sound
    MaxNow,        \* bound: ticks
    None

ASSUME RecorderAssumption ==
    /\ {Second, Rate, FpsMin, FpsMax, MaxFrames, MaxIndex, BufSize} \subseteq Nat \ {0}
    /\ FpsMin <= FpsMax /\ FpsMax <= Rate /\ FpsMax <= Second
    /\ JpegLength \in [Pictures -> Nat \ {0}]
    /\ RatesAsked \subseteq Int /\ Rooms \subseteq Nat /\ Active \in Nat
    /\ OldFile \in Seq(Range(OldFile))
ASSUME NoneAssumption == None \notin Nat \cup [from : Nat, to : Nat \cup {None}]

VARIABLES
    now,
    stage,      \* "boot", "egg" (gui_rbd_screen), "menu", "left", "handed" (visor_boot)
    marker,     \* rec.arm is on the volume
    room,       \* words the volume takes; 0 once it is gone
    rec,        \* capture_session.c: armed, running, done, fps, start, frames
    avi,        \* cap_avi with its cap_file, or None
    disk,       \* the file on the volume
    sound,      \* menu_sound.c and hda.c: "none", "ready", "running"
    tap,        \* the tap: what it is set to play, and from when
    \* history
    played,     \* from when to when the controller played the sound
    saved       \* how the recording was closed
vars == <<now, stage, marker, room, rec, avi, disk, sound, tap, played, saved>>

-----------------------------------------------------------------------------
(* cap_file: words are staged and written in blocks.  f also carries what is *)
(* on the disk, and how much the disk takes.                                 *)
Tag(id) == <<"tag", id>>
Num(n) == <<"num", n>>
Over(old, at, words) ==
    SubSeq(old, 1, at) \o words \o SubSeq(old, at + Len(words) + 1, Len(old))
Position(f) == f.flushed + Len(f.buf)
Flush(f) ==
    IF f.failed \/ f.buf = <<>> THEN f
    ELSE IF Position(f) > f.room THEN [f EXCEPT !.failed = TRUE]
    ELSE [f EXCEPT !.disk = Over(@, f.flushed, f.buf), !.flushed = Position(f), !.buf = <<>>]
Write(f, words) ==      \* whole blocks go to the disk, as long as it takes them
    LET staged == f.buf \o words
        full == Len(staged) \div BufSize
        taken == Cardinality({b \in 1..full : f.flushed + b * BufSize <= f.room})
        out == taken * BufSize
    IN  IF f.failed THEN f
        ELSE [f EXCEPT !.disk = Over(@, f.flushed, SubSeq(staged, 1, out)),
                       !.buf = SubSeq(staged, out + 1, Len(staged)),
                       !.flushed = @ + out, !.failed = taken < full]
WriteAtUnflushed(f, at, word) ==
    IF f.failed \/ at >= f.room THEN [f EXCEPT !.failed = TRUE]
    ELSE [f EXCEPT !.disk = Over(@, at, <<word>>)]
WriteAt(f, at, word) ==
    LET flushed == Flush(f)
    IN  IF flushed.failed \/ at >= f.room THEN [flushed EXCEPT !.failed = TRUE]
        ELSE [flushed EXCEPT !.disk = Over(@, at, <<word>>)]

(* cap_avi: a has the file, the index and the counts; err is never cleared.  *)
Put(a, words) ==
    LET file == Write(a.file, words)
    IN  IF a.err THEN a ELSE [a EXCEPT !.file = file, !.err = file.failed]
Patch(a, at, n) ==
    LET file == WriteAt(a.file, at, Num(n))
    IN  IF a.err THEN a ELSE [a EXCEPT !.file = file, !.err = file.failed]

(* The header with the fields that are filled in at the end.                 *)
Header == <<Tag("RIFF"), Num(0), Tag("AVI "), Num(0), Num(0), Num(0), Num(0),
            Tag("LIST"), Num(0), Tag("movi")>>
RiffSize == 1
TotalFrames == 3
VideoLength == 4
VideoBuffer == 5
AudioLength == 6
MoviSize == 8
MoviStart == 9
NewFile(old, space) == [disk |-> old, buf |-> <<>>, flushed |-> 0, room |-> space, failed |-> FALSE]
Muxer(file) ==
    [file |-> file, index |-> <<>>, frames |-> 0, samples |-> 0, largest |-> 0, err |-> FALSE]
NewAvi(old, space) == Put(Muxer(NewFile(old, space)), Header)

Padded(n) == n + (n % 2)
Chunk(a, id, data) ==
    LET at == Position(a.file) - MoviStart
        pad == IF Len(data) % 2 = 1 THEN <<Num(0)>> ELSE <<>>
        put == Put(a, <<Tag(id), Num(Len(data))>> \o data \o pad)
    IN  IF put.err THEN put
        ELSE IF Len(put.index) >= MaxIndex THEN [put EXCEPT !.err = TRUE]
        ELSE [put EXCEPT !.index = Append(@, [id |-> id, at |-> at, size |-> Len(data)]),
                         !.largest = IF Len(data) > @ THEN Len(data) ELSE @]
Counted(a, more) == IF a.err THEN a ELSE [a EXCEPT !.frames = @ + more]
Jpeg(p) == [i \in 1..JpegLength[p] |-> <<"jpeg", p>>]
Video(a, p) == Counted(Chunk(a, "00dc", Jpeg(p)), 1)
VideoDup(a) == Counted(Chunk(a, "00dc", <<>>), 1)
Audio(a, samples) ==
    LET put == Chunk(a, "01wb", samples)
    IN  IF put.err THEN put ELSE [put EXCEPT !.samples = @ + Len(samples)]

(* cap_avi_close and cap_file_close                                          *)
Indexed(a) ==
    Put(a, <<Tag("idx1"), Num(Len(a.index))>> \o [i \in DOMAIN a.index |-> <<"entry", a.index[i]>>])
Patched(a, movi) ==
    LET riff == Patch(a, RiffSize, Position(a.file) - 2)
        list == Patch(riff, MoviSize, movi - MoviStart)
        total == Patch(list, TotalFrames, a.frames)
        video == Patch(total, VideoLength, a.frames)
        buffer == Patch(video, VideoBuffer, a.largest)
    IN  Patch(buffer, AudioLength, a.samples)
Closed(a) ==
    LET written == IF ~a.err /\ a.frames > 0 THEN Patched(Indexed(a), Position(a.file)) ELSE a
    IN  [written EXCEPT !.file = Flush(@)]

-----------------------------------------------------------------------------
(* Sound: hda_tap, and the samples of one frame slot.  C's division goes     *)
(* towards zero.                                                             *)
Quotient(m, n) == IF m >= 0 THEN m \div n ELSE -((-m) \div n)
Interval(r) == Second \div r.fps
Edge(r, k) == (k * Rate) \div r.fps
Silence == <<"pcm", -1>>
Tapped == tap.set /\ tap.started /\ tap.samples > 0
SlotSamplesNow(r, k) ==
    LET base == Quotient((now - tap.start) * Rate, Second)
    IN  [i \in 1..(Edge(r, k + 1) - Edge(r, k)) |->
           IF Tapped /\ base + i - 1 \in 0..(tap.samples - 1) THEN <<"pcm", base + i - 1>>
           ELSE Silence]
SlotSamples(r, k) ==
    LET base == Quotient((r.start + k * Interval(r) - tap.start) * Rate, Second)
    IN  [i \in 1..(Edge(r, k + 1) - Edge(r, k)) |->
           IF Tapped /\ base + i - 1 \in 0..(tap.samples - 1) THEN <<"pcm", base + i - 1>>
           ELSE Silence]
AudioSlot(a, r, k) ==
    LET samples == SlotSamples(r, k) IN IF samples = <<>> THEN a ELSE Audio(a, samples)

Untapped == [set |-> FALSE, samples |-> 0, started |-> FALSE, start |-> 0]
HdaPrepare ==
    /\ sound' = "ready"
    /\ tap' = [Untapped EXCEPT !.set = TRUE, !.samples = Active]
HdaStart(at) ==
    /\ sound' = "running"
    /\ tap' = [tap EXCEPT !.set = TRUE, !.samples = Active, !.started = TRUE, !.start = at]
    /\ played' = [from |-> at, to |-> None]
HdaCut(at) ==
    /\ sound' = "none" /\ tap' = Untapped
    /\ played' = IF sound = "running" THEN [played EXCEPT !.to = at] ELSE played
SoundTicks == (Active * Second) \div Rate

-----------------------------------------------------------------------------
Unarmed == [armed |-> FALSE, running |-> FALSE, done |-> FALSE, fps |-> FpsMin,
            start |-> 0, frames |-> 0]
Stopped == [rec EXCEPT !.armed = FALSE, !.running = FALSE, !.done = TRUE]
Init ==
    /\ now = 0 /\ stage = "boot" /\ marker \in BOOLEAN /\ room \in Rooms
    /\ rec = Unarmed /\ avi = None /\ disk = OldFile
    /\ sound = "none" /\ tap = Untapped /\ played = None /\ saved = None

(* cap_session_arm: the marker is taken away first, if the volume lets it;   *)
(* nothing looks whether it did.                                             *)
AskedFps(asked) == IF asked < FpsMin THEN FpsMin ELSE IF asked > FpsMax THEN FpsMax ELSE asked
Arm ==
    /\ stage = "boot" /\ marker /\ ~rec.armed
    /\ \E asked \in RatesAsked :
         rec' = [rec EXCEPT !.armed = TRUE, !.fps = AskedFps(asked)]
    /\ marker' \in BOOLEAN
    /\ UNCHANGED <<now, stage, room, avi, disk, sound, tap, played, saved>>

(* rbd_check_and_play with its own sound, or menu_sound_prepare.             *)
ShowEgg ==
    /\ stage = "boot" /\ (marker => rec.armed) /\ stage' = "egg"
    /\ \/ HdaStart(now)
       \/ UNCHANGED <<sound, tap, played>>
    /\ UNCHANGED <<now, marker, room, rec, avi, disk, saved>>
PrepareSound ==
    /\ stage = "boot" /\ (marker => rec.armed) /\ stage' = "menu"
    /\ HdaPrepare \/ UNCHANGED <<sound, tap>>
    /\ UNCHANGED <<now, marker, room, rec, avi, disk, played, saved>>
(* hda_play_end waits for the sound; nothing is drawn meanwhile.             *)
Drained == IF sound = "running" /\ tap.start + SoundTicks > now
           THEN tap.start + SoundTicks ELSE now
EndEgg ==
    /\ stage = "egg" /\ stage' = "menu" /\ now' = Drained
    /\ HdaCut(Drained)
    /\ UNCHANGED <<marker, room, rec, avi, disk, saved>>
StartSound ==      \* sound_start, with the first frame of the menu
    /\ stage = "menu" /\ sound = "ready" /\ HdaStart(now)
    /\ UNCHANGED <<now, stage, marker, room, rec, avi, disk, saved>>
PollSound ==       \* menu_sound_poll: hda_play_done
    /\ stage = "menu" /\ sound = "running" /\ now >= tap.start + SoundTicks /\ HdaCut(now)
    /\ UNCHANGED <<now, stage, marker, room, rec, avi, disk, saved>>
LeaveMenu ==       \* menu_sound_stop
    /\ stage = "menu" /\ stage' = "left" /\ HdaCut(now)
    /\ UNCHANGED <<now, marker, room, rec, avi, disk, saved>>
Autoboot ==        \* menu_sound_finish: the sound is played to its end
    /\ stage = "menu" /\ sound = "ready" /\ stage' = "left"
    /\ now' = now + SoundTicks
    /\ sound' = "none" /\ tap' = Untapped /\ played' = [from |-> now, to |-> now + SoundTicks]
    /\ UNCHANGED <<marker, room, rec, avi, disk, saved>>

(* rec_stop and cap_session_finish close what there is.                      *)
Close(a, r, why) ==
    LET c == Closed(a)
    IN  /\ avi' = None /\ disk' = c.file.disk
        /\ saved' = [clean |-> ~c.err /\ c.frames > 0, why |-> why, rec |-> r, frames |-> c.frames]
        /\ rec' = [r EXCEPT !.armed = FALSE, !.running = FALSE, !.done = TRUE]

(* cap_session_frame, which gui_present calls with picture p on the screen.  *)
Takes == rec.armed /\ ~rec.done
CannotStart ==
    /\ ~rec.running /\ rec' = Stopped
    /\ UNCHANGED <<avi, disk, saved>>
Began(old) ==
    [r |-> [rec EXCEPT !.running = TRUE, !.start = now, !.frames = 0], a |-> NewAvi(old, room)]
Slot(r) == (now - r.start) \div Interval(r)
Idle(a, r, slot) ==      \* upto[k]: the slots before k are filled
    LET upto[k \in r.frames..slot] ==
            IF k = r.frames THEN a ELSE AudioSlot(VideoDup(upto[k - 1]), r, k - 1)
    IN  upto[slot]
Store(a, r, p) ==
    LET slot == Slot(r)
        stored == AudioSlot(Video(Idle(a, r, slot), p), r, slot)
    IN  IF slot < r.frames THEN rec' = r /\ avi' = a /\ disk' = a.file.disk /\ UNCHANGED saved
        ELSE IF r.frames >= MaxFrames \/ Position(a.file) >= MaxBytes THEN Close(a, r, "limit")
        ELSE IF stored.err THEN Close(stored, r, "write")
        ELSE /\ rec' = [r EXCEPT !.frames = slot + 1]
             /\ avi' = stored /\ disk' = stored.file.disk /\ UNCHANGED saved
Begin(p) ==
    /\ ~rec.running
    /\ \E old \in {<<>>, disk} :        \* cap_file_create deletes a namesake, or fails to
         /\ ~Began(old).a.err
         /\ Store(Began(old).a, Began(old).r, p)
Present(p) ==
    /\ stage \in {"egg", "menu", "left"} /\ Takes
    /\ \/ CannotStart
       \/ Begin(p)
       \/ rec.running /\ Store([avi EXCEPT !.file.room = room], rec, p)
    /\ UNCHANGED <<now, stage, marker, room, sound, tap, played>>

(* cap_session_finish, in gui_shutdown and again before visor_boot.          *)
Finish ==
    /\ stage = "left" /\ stage' = "handed"
    /\ IF rec.running /\ ~rec.done THEN Close([avi EXCEPT !.file.room = room], rec, "finish")
       ELSE rec' = [rec EXCEPT !.armed = FALSE, !.done = TRUE] /\ UNCHANGED <<avi, disk, saved>>
    /\ UNCHANGED <<now, marker, room, sound, tap, played>>

Tick ==
    /\ stage \in {"egg", "menu", "left"} /\ now < MaxNow /\ now' = now + 1
    /\ UNCHANGED <<stage, marker, room, rec, avi, disk, sound, tap, played, saved>>
VolumeGone ==
    /\ stage \notin {"boot", "handed"} /\ room # 0 /\ room' = 0
    /\ UNCHANGED <<now, stage, marker, rec, avi, disk, sound, tap, played, saved>>

Next ==
    \/ Arm \/ ShowEgg \/ PrepareSound \/ EndEgg \/ StartSound \/ PollSound \/ LeaveMenu
    \/ Autoboot \/ (\E p \in Pictures : Present(p)) \/ Finish \/ Tick \/ VolumeGone
Spec == Init /\ [][Next]_vars

-----------------------------------------------------------------------------
(* Reading the file back: its end, its index, and what an entry points at.   *)
End == disk[RiffSize + 1][2] + 2
IndexAt == MoviStart + disk[MoviSize + 1][2]
Entries == [i \in 1..disk[IndexAt + 2][2] |-> disk[IndexAt + 2 + i][2]]
After(e) == e.at + 2 + Padded(e.size)
Clean == saved # None /\ saved.clean
(* The entries of one kind, and the sound behind theirs, in their order.     *)
Kind(index, id) ==
    LET upto[n \in 0..Len(index)] ==
            IF n = 0 THEN <<>>
            ELSE IF index[n].id = id THEN Append(upto[n - 1], index[n]) ELSE upto[n - 1]
    IN  upto[Len(index)]
DataOf(words, e) == SubSeq(words, MoviStart + e.at + 3, MoviStart + e.at + 2 + e.size)
Track(words, index) ==
    LET upto[n \in 0..Len(index)] ==
            IF n = 0 THEN <<>>
            ELSE IF index[n].id = "01wb" THEN upto[n - 1] \o DataOf(words, index[n])
                 ELSE upto[n - 1]
    IN  upto[Len(index)]

(* A recording that was closed without an error is a file a player can read   *)
(* to its end: the sizes patched into the header, after staged words that had *)
(* not been written yet, lead from the header to the index; the index tiles   *)
(* the list of chunks and every entry points at the tag and the length of its *)
(* chunk; and both tracks are as long as the header and the session say, so    *)
(* picture and sound stay in step however many slots were idle, whatever was  *)
(* in the file before, and wherever the buffer was flushed.                   *)
Tiles(words, e) ==
    \A i \in DOMAIN e :
      /\ e[i].at = IF i = 1 THEN 1 ELSE After(e[i - 1])
      /\ words[MoviStart + e[i].at + 1] = Tag(e[i].id)
      /\ words[MoviStart + e[i].at + 2] = Num(e[i].size)
Playable ==
    Clean =>
      /\ disk[1] = Tag("RIFF") /\ disk[MoviStart + 1] = Tag("movi")
      /\ IndexAt + 2 <= Len(disk) /\ disk[IndexAt + 1] = Tag("idx1")
      /\ End = IndexAt + 2 + Len(Entries) /\ End <= Len(disk)
      /\ Tiles(disk, Entries)
      /\ MoviStart + After(Entries[Len(Entries)]) = IndexAt
      /\ Len(Kind(Entries, "00dc")) = saved.rec.frames
      /\ disk[TotalFrames + 1] = Num(saved.rec.frames) /\ disk[VideoLength + 1] = Num(saved.rec.frames)
      /\ \A i \in DOMAIN Entries : Entries[i].size <= disk[VideoBuffer + 1][2]
      /\ Len(Track(disk, Entries)) = Edge(saved.rec, saved.rec.frames)
      /\ disk[AudioLength + 1] = Num(Len(Track(disk, Entries)))

(* The boot sound is recorded where it was heard.  A sample of the sound in a *)
(* clean recording stands where the controller played it, give or take two    *)
(* samples for the rounding of the slots, and what the truncated frame        *)
(* interval loses; and a slot that was encoded from the screen while the      *)
(* sound played has no silence in it.                                         *)
Heard(i) == played.from + (i * Second) \div Rate
Recorded(r, j) == r.start + (j * Second) \div Rate
SampleTicks == (Second + Rate - 1) \div Rate
Slack(r, j) == 2 * SampleTicks + (((j * r.fps) \div Rate + 1) * (Second % r.fps)) \div r.fps + 1
InPlace(r, track) ==
    \A j \in DOMAIN track :
      track[j] # Silence =>
        LET apart == Heard(track[j][2]) - Recorded(r, j - 1)
        IN  played # None /\ -Slack(r, j - 1) <= apart /\ apart <= Slack(r, j - 1)
Sounding(r, k) ==
    LET from == r.start + k * Interval(r)
        to == from + Interval(r)
    IN  /\ played # None /\ played.from < from
        /\ to + Second \div Rate < played.from + SoundTicks
        /\ (played.to # None => to < played.to)
Whole(r, k, track) ==
    Sounding(r, k) => \A j \in (Edge(r, k) + 1)..Edge(r, k + 1) : track[j] # Silence
SoundInPlace ==
    Clean =>
      LET track == Track(disk, Entries)
          video == Kind(Entries, "00dc")
      IN  /\ InPlace(saved.rec, track)
          /\ \A k \in DOMAIN video : video[k].size > 0 => Whole(saved.rec, k - 1, track)
=============================================================================
