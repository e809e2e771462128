--------------------------- MODULE RecorderProofs ---------------------------
(* A recording that was closed without an error can be read to its end, and  *)
(* holds the boot sound where it was heard: the proofs about Recorder, for    *)
(* any rates, sizes of pictures, sizes of the buffer and limits.             *)
EXTENDS Recorder, SequenceTheorems, FiniteSetTheorems, WellFoundedInduction, TLAPS

-----------------------------------------------------------------------------
(* Induction over the natural numbers, for a set of them.                    *)
LEMMA NatSet ==
    ASSUME NEW T, 0 \in T, \A k \in Nat : k \in T => k + 1 \in T
    PROVE  \A n \in Nat : n \in T
<1> SUFFICES ASSUME NEW n \in Nat, n \notin T PROVE FALSE
  OBVIOUS
<1> DEFINE Less == {ss \in Nat \X Nat : ss[1] < ss[2]}
           S == {k \in Nat : k \notin T}
<1>1. IsWellFoundedOn(Less, Nat)
  BY NatLessThanWellFounded, Zenon DEF OpToRel
<1>2. S # {} /\ S \subseteq Nat
  OBVIOUS
<1>3. PICK m \in S : \A k \in S : ~ (<<k, m>> \in Less)
  <2> HIDE DEF Less, S
  <2> QED BY <1>1, <1>2, WFMin
<1>4. m \in Nat /\ m \notin T /\ m # 0
  OBVIOUS
<1>5. m - 1 \in Nat /\ m - 1 < m /\ (m - 1) + 1 = m
  BY <1>4
<1>6. m - 1 \notin T
  BY <1>4, <1>5
<1>7. m - 1 \in S
  BY <1>5, <1>6
<1> QED BY <1>3, <1>4, <1>5, <1>7

(* The words a file may hold.                                                *)
Entry == [id : {"00dc", "01wb"}, at : Nat, size : Nat]
Ids == {"RIFF", "AVI ", "LIST", "movi", "00dc", "01wb", "idx1"}
Word ==
    Range(OldFile) \cup {Tag(id) : id \in Ids} \cup {Num(n) : n \in Nat}
    \cup {<<"jpeg", p>> : p \in Pictures} \cup {<<"pcm", n>> : n \in Int}
    \cup {<<"entry", e>> : e \in Entry}
LEMMA WordIs ==
    /\ \A id \in Ids : Tag(id) \in Word
    /\ \A n \in Nat : Num(n) \in Word
    /\ \A p \in Pictures : <<"jpeg", p>> \in Word
    /\ \A n \in Int : <<"pcm", n>> \in Word
    /\ Silence \in Word
    /\ \A e \in Entry : <<"entry", e>> \in Word
    /\ OldFile \in Seq(Word)
<1>1. OldFile \in Seq(Range(OldFile)) /\ Range(OldFile) \subseteq Word
  BY RecorderAssumption DEF Word
<1>2. OldFile \in Seq(Word)
  BY <1>1, SeqMonotonic
<1>3. \A n \in Int : <<"pcm", n>> \in Word
  BY DEF Word
<1>4. Silence \in Word
  BY <1>3 DEF Silence
<1> QED
  BY <1>2, <1>3, <1>4 DEF Word

(* What is joined, and what is cut in two.                                   *)
Joins(u, s, t) ==
    /\ u \in Seq(Word) /\ s \in Seq(Word) /\ t \in Seq(Word)
    /\ Len(s) \in Nat /\ Len(t) \in Nat /\ Len(u) = Len(s) + Len(t)
    /\ \A i \in 1..Len(s) : u[i] = s[i]
    /\ \A i \in 1..Len(t) : u[Len(s) + i] = t[i]
Starts(u, s, n) ==
    /\ u \in Seq(Word) /\ Len(u) = n /\ Len(s) \in Nat
    /\ \A i \in 1..n : u[i] = s[i]
Ends(u, s, n) ==
    /\ u \in Seq(Word) /\ Len(u) = Len(s) - n /\ Len(s) \in Nat
    /\ \A i \in 1..Len(s) - n : u[i] = s[n + i]
LEMMA Concat ==
    ASSUME NEW s \in Seq(Word), NEW t \in Seq(Word)
    PROVE  Joins(s \o t, s, t)
<1>1. Len(s) \in Nat /\ Len(t) \in Nat
  BY LenProperties
<1>2. /\ s \o t \in Seq(Word) /\ Len(s \o t) = Len(s) + Len(t)
      /\ \A i \in 1..Len(s) + Len(t) :
           (s \o t)[i] = IF i <= Len(s) THEN s[i] ELSE t[i - Len(s)]
  BY ConcatProperties
<1>3. ASSUME NEW i \in 1..Len(s) PROVE (s \o t)[i] = s[i]
  <2>1. i \in 1..Len(s) + Len(t) /\ i <= Len(s) BY <1>1
  <2> QED BY <1>2, <2>1
<1>4. ASSUME NEW i \in 1..Len(t) PROVE (s \o t)[Len(s) + i] = t[i]
  <2>1. Len(s) + i \in 1..Len(s) + Len(t) /\ ~(Len(s) + i <= Len(s)) /\ (Len(s) + i) - Len(s) = i
    BY <1>1
  <2> QED BY <1>2, <2>1
<1> QED BY <1>1, <1>2, <1>3, <1>4 DEF Joins

(* Three texts may be joined in either order.                                *)
LEMMA Associative ==
    ASSUME NEW s \in Seq(Word), NEW t \in Seq(Word), NEW u \in Seq(Word)
    PROVE  (s \o t) \o u = s \o (t \o u)
  BY ConcatAssociative

(* The first n words of a text and the rest of it make the text.             *)
LEMMA Cut ==
    ASSUME NEW s \in Seq(Word), NEW n \in Nat, n <= Len(s)
    PROVE  Starts(SubSeq(s, 1, n), s, n) /\ Ends(SubSeq(s, n + 1, Len(s)), s, n)
<1>1. Len(s) \in Nat /\ \A i \in 1..Len(s) : s[i] \in Word
  BY LenProperties, ElementOfSeq
<1>2. /\ SubSeq(s, 1, n) \in Seq(Word) /\ Len(SubSeq(s, 1, n)) = IF 1 <= n THEN n - 1 + 1 ELSE 0
      /\ \A i \in 1..(n - 1 + 1) : SubSeq(s, 1, n)[i] = s[1 + i - 1]
  <2>1. \A i \in 1..n : s[i] \in Word BY <1>1
  <2> QED BY <2>1, SubSeqProperties
<1>3. /\ SubSeq(s, n + 1, Len(s)) \in Seq(Word)
      /\ Len(SubSeq(s, n + 1, Len(s))) = IF n + 1 <= Len(s) THEN Len(s) - (n + 1) + 1 ELSE 0
      /\ \A i \in 1..(Len(s) - (n + 1) + 1) : SubSeq(s, n + 1, Len(s))[i] = s[(n + 1) + i - 1]
  <2>1. n + 1 \in Int /\ Len(s) \in Int /\ \A i \in n + 1..Len(s) : s[i] \in Word BY <1>1
  <2> QED BY <2>1, SubSeqProperties
<1>4. \A i \in 1..n : i \in 1..(n - 1 + 1) /\ 1 + i - 1 = i
  OBVIOUS
<1>5. \A i \in 1..Len(s) - n : i \in 1..(Len(s) - (n + 1) + 1) /\ (n + 1) + i - 1 = n + i
  BY <1>1
<1>6. Len(SubSeq(s, 1, n)) = n /\ Len(SubSeq(s, n + 1, Len(s))) = Len(s) - n
  BY <1>1, <1>2, <1>3
<1> QED BY <1>1, <1>2, <1>3, <1>4, <1>5, <1>6 DEF Starts, Ends

-----------------------------------------------------------------------------
(* The staged file: what it will hold once the staged words are written.     *)
Files == [disk : Seq(Word), buf : Seq(Word), flushed : Nat, room : Nat, failed : BOOLEAN]
File(f) == f \in Files /\ f.flushed <= Len(f.disk)
Text(f) == SubSeq(f.disk, 1, f.flushed) \o f.buf

(* The text of a file, what is flushed and what is staged, and its length.   *)
LEMMA TextIs ==
    ASSUME NEW f, File(f)
    PROVE  /\ Text(f) \in Seq(Word) /\ Len(Text(f)) = Position(f) /\ Position(f) \in Nat
           /\ \A i \in 1..Position(f) :
                Text(f)[i] = IF i <= f.flushed THEN f.disk[i] ELSE f.buf[i - f.flushed]
<1>1. /\ SubSeq(f.disk, 1, f.flushed) \in Seq(Word)
      /\ Len(SubSeq(f.disk, 1, f.flushed)) = f.flushed
      /\ \A i \in 1..f.flushed : SubSeq(f.disk, 1, f.flushed)[i] = f.disk[i]
  BY DEF File, Files
<1> QED
  BY <1>1 DEF Text, Position, File, Files

(* What a write at a place leaves: the words there, the old ones elsewhere.  *)
Overs(o, old, at, words) ==
    /\ o \in Seq(Word) /\ Len(o) \in Nat /\ Len(old) \in Nat /\ Len(words) \in Nat
    /\ Len(o) >= at + Len(words) /\ Len(o) >= Len(old)
    /\ \A i \in 1..at : o[i] = old[i]
    /\ \A i \in 1..Len(words) : o[at + i] = words[i]
    /\ \A i \in 1..Len(old) : i > at + Len(words) => o[i] = old[i]
LEMMA OverIs ==
    ASSUME NEW old \in Seq(Word), NEW words \in Seq(Word), NEW at \in Nat, at <= Len(old)
    PROVE  Overs(Over(old, at, words), old, at, words)
<1> DEFINE n == at + Len(words)
           a == SubSeq(old, 1, at)
           c == SubSeq(old, n + 1, Len(old))
           b == a \o words
           o == b \o c
<1>0. Len(old) \in Nat /\ Len(words) \in Nat /\ n \in Nat
  BY LenProperties
<1>1. Starts(a, old, at)
  BY Cut
<1>2. c \in Seq(Word) /\ IF n <= Len(old) THEN Ends(c, old, n) ELSE Len(c) = 0
  <2>1. CASE n <= Len(old)
    <3>1. Ends(c, old, n) BY <1>0, <2>1, Cut
    <3> HIDE DEF c
    <3> QED BY <2>1, <3>1 DEF Ends
  <2>2. CASE ~(n <= Len(old))
    <3>1. c = <<>> BY <1>0, <2>2, SubSeqEmpty
    <3> HIDE DEF c
    <3> QED BY <2>2, <3>1, EmptySeq
  <2> QED BY <2>1, <2>2
<1>3. Over(old, at, words) = o
  BY DEF Over
<1> HIDE DEF a, c
<1>4. a \in Seq(Word) BY <1>1 DEF Starts
<1>5. Joins(b, a, words) BY <1>4, Concat
<1> HIDE DEF b
<1>6. b \in Seq(Word) /\ c \in Seq(Word) BY <1>2, <1>5 DEF Joins
<1>7. Joins(o, b, c) BY <1>6, Concat
<1> HIDE DEF o
<1>12. Len(b) = n /\ Len(c) \in Nat /\ Len(o) = n + Len(c) BY <1>1, <1>5, <1>7 DEF Joins, Starts
<1>8. \A i \in 1..at : o[i] = old[i]
  <2>1. \A i \in 1..at : i \in 1..n BY <1>0
  <2> QED BY <1>1, <1>5, <1>7, <1>12, <2>1 DEF Joins, Starts
<1>9. \A i \in 1..Len(words) : o[at + i] = words[i]
  <2>1. \A i \in 1..Len(words) : at + i \in 1..n BY <1>0
  <2>2. \A i \in 1..Len(words) : b[at + i] = words[i] BY <1>1, <1>5 DEF Joins, Starts
  <2>3. \A i \in 1..n : o[i] = b[i] BY <1>7, <1>12 DEF Joins
  <2> HIDE DEF n
  <2> QED BY <2>1, <2>2, <2>3
<1>10. ASSUME NEW i \in 1..Len(old), i > n PROVE o[i] = old[i]
  <2>1. i - n \in 1..Len(old) - n /\ n + (i - n) = i /\ n <= Len(old) BY <1>0, <1>10
  <2>2. Len(c) = Len(old) - n /\ c[i - n] = old[n + (i - n)] BY <1>2, <2>1 DEF Ends
  <2>3. o[n + (i - n)] = c[i - n] BY <1>7, <1>12, <2>1, <2>2 DEF Joins
  <2> QED BY <2>1, <2>2, <2>3
<1>11. Len(o) >= n /\ Len(o) >= Len(old)
  <2>1. n <= Len(old) => Len(c) = Len(old) - n BY <1>2 DEF Ends
  <2> HIDE DEF n
  <2> QED BY <1>0, <1>12, <2>1
<1>13. o \in Seq(Word) BY <1>7 DEF Joins
<1>14. Len(o) \in Nat BY <1>0, <1>12
<1>15. Overs(o, old, at, words)
  BY <1>0, <1>8, <1>9, <1>10, <1>11, <1>13, <1>14 DEF Overs
<1> QED
  BY <1>3, <1>15

(* Staged words that go to the disk stay where they were in the file.        *)
Outs(d, b, n, words, out, over, back) ==
    /\ over \in Seq(Word) /\ n + out <= Len(over)
    /\ back \in Seq(Word) /\ Len(back) = Len(b) + Len(words) - out
    /\ SubSeq(over, 1, n + out) \o back = (SubSeq(d, 1, n) \o b) \o words
LEMMA OutText ==
    ASSUME NEW d \in Seq(Word), NEW b \in Seq(Word), NEW n \in Nat, n <= Len(d),
           NEW words \in Seq(Word), NEW out \in Nat, out <= Len(b) + Len(words)
    PROVE  Outs(d, b, n, words, out, Over(d, n, SubSeq(b \o words, 1, out)),
                SubSeq(b \o words, out + 1, Len(b \o words)))
<1> DEFINE staged == b \o words
           front == SubSeq(staged, 1, out)
           back == SubSeq(staged, out + 1, Len(staged))
           over == Over(d, n, front)
           x == SubSeq(d, 1, n)
           z == (x \o b) \o words
           v == SubSeq(over, 1, n + out)
           w == v \o back
<1>1. Joins(staged, b, words)
  BY Concat
<1>13. Starts(x, d, n)
  BY Cut
<1>14. x \in Seq(Word) BY <1>13 DEF Starts
<1> HIDE DEF x
<1>22. (x \o b) \o words = x \o (b \o words)
  BY <1>14, Associative
<1>2. z = x \o staged
  BY <1>22, Zenon DEF z, staged
<1> HIDE DEF staged, z
<1>0. /\ Len(d) \in Nat /\ Len(b) \in Nat /\ Len(words) \in Nat
      /\ staged \in Seq(Word) /\ Len(staged) \in Nat /\ Len(staged) = Len(b) + Len(words)
  BY <1>1, <1>13 DEF Joins, Starts
<1>3. Starts(front, staged, out) /\ Ends(back, staged, out)
  BY <1>0, Cut
<1> HIDE DEF front, back
<1>15. front \in Seq(Word) /\ Len(front) = out /\ back \in Seq(Word)
  BY <1>3 DEF Starts, Ends
<1>19. Overs(over, d, n, front)
  BY <1>15, OverIs
<1> HIDE DEF over
<1>4. /\ over \in Seq(Word) /\ Len(over) >= n + out
      /\ \A i \in 1..n : over[i] = d[i]
      /\ \A i \in 1..out : over[n + i] = front[i]
  BY <1>15, <1>19 DEF Overs
<1>16. Len(over) \in Nat /\ n + out \in Nat /\ n + out <= Len(over)
  BY <1>4, <1>19 DEF Overs
<1>6. Starts(v, over, n + out)
  BY <1>4, <1>16, Cut
<1>17. v \in Seq(Word) BY <1>6 DEF Starts
<1> HIDE DEF v
<1>7. Joins(w, v, back) BY <1>15, <1>17, Concat
<1>8. Joins(z, x, staged) BY <1>0, <1>2, <1>14, Concat
<1> HIDE DEF w
<1>18. /\ Len(v) = n + out /\ Len(back) = Len(staged) - out /\ Len(w) = n + Len(staged)
       /\ Len(x) = n /\ Len(z) = n + Len(staged)
  BY <1>0, <1>3, <1>6, <1>7, <1>8, <1>13 DEF Joins, Starts, Ends
<1>9. ASSUME NEW i \in 1..Len(z) PROVE w[i] = z[i]
  <2>1. CASE i <= n
    <3>1. i \in 1..n /\ i \in 1..n + out BY <2>1
    <3>2. w[i] = v[i] /\ v[i] = over[i] BY <1>6, <1>7, <1>18, <3>1 DEF Joins, Starts
    <3>3. z[i] = x[i] /\ x[i] = d[i] BY <1>8, <1>13, <1>18, <3>1 DEF Joins, Starts
    <3> QED BY <1>4, <3>1, <3>2, <3>3
  <2>2. CASE i > n /\ i <= n + out
    <3>1. i - n \in 1..out /\ i - n \in 1..Len(staged) /\ n + (i - n) = i /\ i \in 1..n + out
      BY <1>0, <2>2
    <3>2. w[i] = v[i] /\ v[i] = over[i] BY <1>6, <1>7, <1>18, <3>1 DEF Joins, Starts
    <3>3. over[i] = front[i - n] BY <1>4, <3>1
    <3>4. front[i - n] = staged[i - n] BY <1>3, <3>1 DEF Starts
    <3>5. z[i] = staged[i - n] BY <1>8, <1>18, <3>1 DEF Joins
    <3> QED BY <3>2, <3>3, <3>4, <3>5
  <2>3. CASE i > n + out
    <3>1. /\ i - (n + out) \in 1..Len(back) /\ i - (n + out) \in 1..Len(staged) - out
          /\ (n + out) + (i - (n + out)) = i
          /\ i - n \in 1..Len(staged) /\ n + (i - n) = i
          /\ out + (i - (n + out)) = i - n
      BY <1>0, <1>18, <2>3
    <3>2. w[i] = back[i - (n + out)] BY <1>7, <1>18, <3>1 DEF Joins
    <3>3. back[i - (n + out)] = staged[i - n] BY <1>3, <3>1 DEF Ends
    <3>4. z[i] = staged[i - n] BY <1>8, <1>18, <3>1 DEF Joins
    <3> QED BY <3>2, <3>3, <3>4
  <2>4. i <= n \/ (i > n /\ i <= n + out) \/ i > n + out OBVIOUS
  <2> QED BY <2>1, <2>2, <2>3, <2>4
<1>10. w = z
  <2>1. w \in Seq(Word) /\ z \in Seq(Word) /\ Len(w) = Len(z) BY <1>7, <1>8, <1>18 DEF Joins
  <2> QED BY <1>9, <2>1, SeqEqual
<1>20. Len(back) = Len(b) + Len(words) - out BY <1>0, <1>18
<1>21. SubSeq(over, 1, n + out) \o back = (SubSeq(d, 1, n) \o b) \o words
  BY <1>10, Zenon DEF w, v, z, x
<1>11. Outs(d, b, n, words, out, over, back)
  BY <1>4, <1>15, <1>16, <1>20, <1>21 DEF Outs
<1> QED BY <1>11 DEF staged, front, back, over

(* cap_file_flush: the text of the file is the same, or an error is set.     *)
Settles(f, g, words) ==
    /\ File(g) /\ g.room = f.room /\ Position(g) = Position(f) + Len(words)
    /\ Text(g) = Text(f) \o words
Sent(f, words, out, bad) ==
    [disk |-> Over(f.disk, f.flushed, SubSeq(f.buf \o words, 1, out)),
     buf |-> SubSeq(f.buf \o words, out + 1, Len(f.buf \o words)),
     flushed |-> f.flushed + out, room |-> f.room, failed |-> bad]
Sends(f, g, words, out) ==
    /\ out <= Len(f.buf \o words)
    /\ g = Sent(f, words, out, TRUE) \/ g = Sent(f, words, out, FALSE)
LEMMA OutIs ==
    ASSUME NEW f, File(f), NEW words \in Seq(Word), NEW out \in Nat, NEW g, Sends(f, g, words, out)
    PROVE  Settles(f, g, words)
<1>1. PICK d \in Seq(Word), b \in Seq(Word), n \in Nat, left \in Nat :
        /\ d = f.disk /\ b = f.buf /\ n = f.flushed /\ left = f.room /\ n <= Len(d)
  BY DEF File, Files
<1> DEFINE over == Over(d, n, SubSeq(b \o words, 1, out))
           back == SubSeq(b \o words, out + 1, Len(b \o words))
<1>2. Len(b \o words) = Len(b) + Len(words) /\ Len(b) \in Nat /\ Len(words) \in Nat
  <2>1. Joins(b \o words, b, words) BY Concat
  <2> QED BY <2>1 DEF Joins
<1>3. \/ g = [disk |-> over, buf |-> back, flushed |-> n + out, room |-> left, failed |-> TRUE]
      \/ g = [disk |-> over, buf |-> back, flushed |-> n + out, room |-> left, failed |-> FALSE]
  BY <1>1 DEF Sends, Sent
<1>4. n <= Len(d) /\ out <= Len(b) + Len(words)
  BY <1>1, <1>2 DEF Sends
<1>5. Outs(d, b, n, words, out, over, back)
  BY <1>4, OutText
<1> HIDE DEF over, back
<1>6. /\ over \in Seq(Word) /\ n + out <= Len(over)
      /\ back \in Seq(Word) /\ Len(back) = Len(b) + Len(words) - out
      /\ SubSeq(over, 1, n + out) \o back = (SubSeq(d, 1, n) \o b) \o words
  BY <1>5 DEF Outs
<1>7. over \in Seq(Word) /\ back \in Seq(Word) /\ n + out \in Nat BY <1>4, <1>6
<1>8. g.disk = over /\ g.buf = back /\ g.flushed = n + out /\ g.room = left
  BY <1>3
<1>9. g \in [disk : Seq(Word), buf : Seq(Word), flushed : Nat, room : Nat, failed : BOOLEAN]
  <2>1. CASE g = [disk |-> over, buf |-> back, flushed |-> n + out, room |-> left, failed |-> TRUE]
    BY <1>1, <1>7, <2>1
  <2>2. CASE g = [disk |-> over, buf |-> back, flushed |-> n + out, room |-> left, failed |-> FALSE]
    BY <1>1, <1>7, <2>2
  <2> QED BY <1>3, <2>1, <2>2
<1>10. File(g) BY <1>6, <1>8, <1>9 DEF File, Files
<1>11. Text(g) = Text(f) \o words BY <1>1, <1>6, <1>8 DEF Text
<1>12. Position(g) = Position(f) + Len(words)
  <2>1. Position(g) = n + out + Len(back) /\ Position(f) = n + Len(b)
    BY <1>1, <1>8 DEF Position
  <2>2. Len(back) = Len(b) + Len(words) - out BY <1>6
  <2>3. n + out + Len(back) = n + Len(b) + Len(words) BY <1>2, <2>2
  <2> QED BY <2>1, <2>3
<1> QED BY <1>1, <1>8, <1>10, <1>11, <1>12 DEF Settles

(* cap_file_write appends the words, through any number of flushes.          *)
LEMMA WriteIs ==
    ASSUME NEW f, File(f), ~f.failed, NEW words \in Seq(Word)
    PROVE  Settles(f, Write(f, words), words)
<1> DEFINE staged == f.buf \o words
           full == Len(staged) \div BufSize
           B == {b \in 1..full : f.flushed + b * BufSize <= f.room}
           taken == Cardinality(B)
           out == taken * BufSize
           bad == taken < full
<1>1. Len(staged) \in Nat /\ BufSize \in Nat \ {0}
  <2>1. f.buf \in Seq(Word) BY DEF File, Files
  <2>2. Joins(f.buf \o words, f.buf, words) BY <2>1, Concat
  <2>3. Len(f.buf \o words) \in Nat BY <2>2 DEF Joins
  <2> QED BY <2>3, RecorderAssumption
<1>2. full \in Nat /\ full * BufSize <= Len(staged)
  <2> HIDE DEF staged
  <2> QED BY <1>1
<1> HIDE DEF full
<1>3. taken \in Nat /\ taken <= full
  <2>1. IsFiniteSet(1..full) /\ Cardinality(1..full) = full
    BY <1>2, FS_Interval
  <2>2. B \subseteq 1..full OBVIOUS
  <2> HIDE DEF B
  <2> QED BY <2>1, <2>2, FS_Subset, FS_CardinalityType
<1> HIDE DEF B
<1>4. Write(f, words) = [disk |-> Over(f.disk, f.flushed, SubSeq(staged, 1, out)),
                         buf |-> SubSeq(staged, out + 1, Len(staged)),
                         flushed |-> f.flushed + out, room |-> f.room, failed |-> bad]
  BY DEF Write, File, Files, full, B
<1>5. out \in Nat /\ out <= Len(staged)
  <2>1. taken * BufSize <= full * BufSize /\ taken * BufSize \in Nat /\ full * BufSize \in Nat
    <3> HIDE DEF taken
    <3> QED BY <1>1, <1>2, <1>3
  <2> HIDE DEF taken, staged
  <2> QED BY <1>1, <1>2, <2>1
<1>6. bad = TRUE \/ bad = FALSE OBVIOUS
<1>7. Sends(f, Write(f, words), words, out)
  <2> HIDE DEF out, bad
  <2> QED BY <1>4, <1>5, <1>6 DEF Sends, Sent
<1>8. out \in Nat BY <1>5
<1> HIDE DEF out
<1> QED BY <1>7, <1>8, OutIs

(* A flush that succeeds leaves the text as it was and nothing staged.       *)
LEMMA FlushIs ==
    ASSUME NEW f, File(f)
    PROVE  /\ File(Flush(f)) /\ Flush(f).failed \in BOOLEAN
           /\ ~Flush(f).failed =>
                /\ ~f.failed /\ Settles(f, Flush(f), <<>>)
                /\ Flush(f).buf = <<>> /\ Flush(f).flushed = Position(f)
<1>1. /\ f.buf \in Seq(Word) /\ Len(f.buf) \in Nat /\ f.flushed \in Nat /\ f.failed \in BOOLEAN
      /\ f \in Files
  BY DEF File, Files
<1>2. CASE f.failed \/ f.buf = <<>>
  <2>1. Flush(f) = f BY <1>2 DEF Flush
  <2>2. Text(f) \in Seq(Word) BY TextIs
  <2>3. Text(f) = Text(f) \o <<>> BY <2>2
  <2>4. f.buf = <<>> => f.flushed = Position(f) BY <1>1 DEF Position
  <2>5. Settles(f, f, <<>>)
    <3>1. Position(f) \in Nat BY TextIs
    <3> QED BY <2>3, <3>1 DEF Settles
  <2> QED BY <1>1, <1>2, <2>1, <2>4, <2>5
<1>3. CASE ~f.failed /\ f.buf # <<>> /\ Position(f) > f.room
  <2>1. Flush(f) = [f EXCEPT !.failed = TRUE] BY <1>3 DEF Flush
  <2>2. Flush(f).failed = TRUE BY <1>1, <2>1 DEF Files
  <2>3. File(Flush(f)) BY <1>1, <2>1 DEF File, Files
  <2> QED BY <2>2, <2>3
<1>4. CASE ~f.failed /\ f.buf # <<>> /\ ~(Position(f) > f.room)
  <2> DEFINE n == Len(f.buf \o <<>>)
  <2>1. f.buf \o <<>> = f.buf /\ n = Len(f.buf) BY <1>1
  <2>2. Flush(f) = [disk |-> Over(f.disk, f.flushed, f.buf), buf |-> <<>>,
                    flushed |-> Position(f), room |-> f.room, failed |-> FALSE]
    BY <1>4 DEF Flush, File, Files
  <2>3. SubSeq(f.buf \o <<>>, 1, n) = f.buf /\ SubSeq(f.buf \o <<>>, n + 1, n) = <<>>
    BY <1>1, <2>1, SubSeqFull, SubSeqEmpty
  <2>4. Flush(f) = Sent(f, <<>>, n, FALSE)
    BY <2>1, <2>2, <2>3 DEF Position, Sent
  <2>5. n \in Nat /\ n <= n /\ <<>> \in Seq(Word) BY <1>1, <2>1
  <2>6. Settles(f, Flush(f), <<>>)
    <3>1. Sends(f, Flush(f), <<>>, n) BY <2>4, <2>5 DEF Sends
    <3> QED BY <2>5, <3>1, OutIs
  <2>7. Flush(f).buf = <<>> /\ Flush(f).flushed = Position(f) /\ Flush(f).failed = FALSE
    BY <2>2
  <2>8. File(Flush(f)) BY <2>6 DEF Settles
  <2> QED BY <1>4, <2>6, <2>7, <2>8
<1> QED BY <1>1, <1>2, <1>3, <1>4

(* A field that is patched changes; everything staged is written before.     *)
Patches(f, g, at, w) ==
    /\ g.room = f.room /\ g.buf = <<>> /\ Position(g) = Position(f)
    /\ \A i \in 1..Position(f) : Text(g)[i] = IF i = at + 1 THEN w ELSE Text(f)[i]
LEMMA WriteAtIs ==
    ASSUME NEW f, File(f), NEW at \in Nat, at < Position(f), NEW w \in Word
    PROVE  /\ File(WriteAt(f, at, w)) /\ WriteAt(f, at, w).failed \in BOOLEAN
           /\ ~WriteAt(f, at, w).failed => Patches(f, WriteAt(f, at, w), at, w)
<1> DEFINE g == Flush(f)
           h == WriteAt(f, at, w)
<1>1. /\ File(g) /\ g.failed \in BOOLEAN
      /\ ~g.failed => Settles(f, g, <<>>) /\ g.buf = <<>> /\ g.flushed = Position(f)
  BY FlushIs
<1>2. CASE g.failed \/ at >= f.room
  <2>1. h = [g EXCEPT !.failed = TRUE]
    <3> HIDE DEF g
    <3> QED BY <1>2 DEF WriteAt, g
  <2> HIDE DEF g
  <2>2. g \in Files BY <1>1 DEF File
  <2>3. h.failed = TRUE /\ File(h)
    <3> HIDE DEF h
    <3> QED BY <1>1, <2>1, <2>2 DEF File, Files
  <2> QED BY <2>3 DEF h
<1>3. CASE ~(g.failed \/ at >= f.room)
  <2>1. h = [g EXCEPT !.disk = Over(@, at, <<w>>)]
    <3> HIDE DEF g
    <3> QED BY <1>3 DEF WriteAt, g
  <2>2. /\ File(g) /\ g.room = f.room /\ Position(g) = Position(f) + Len(<<>>)
        /\ Text(g) = Text(f) \o <<>> /\ g.buf = <<>> /\ g.flushed = Position(f)
    BY <1>1, <1>3 DEF Settles
  <2> HIDE DEF g, h
  <2>3. Text(f) \in Seq(Word) /\ Position(f) \in Nat BY TextIs
  <2>4. Text(g) = Text(f) /\ Position(g) = Position(f) BY <2>2, <2>3
  <2>5. /\ g.disk \in Seq(Word) /\ Len(g.disk) \in Nat /\ Position(f) <= Len(g.disk)
        /\ g.room \in Nat
    BY <2>2 DEF File, Files
  <2> DEFINE over == Over(g.disk, at, <<w>>)
  <2>6. /\ over \in Seq(Word) /\ Len(over) \in Nat /\ Len(over) >= Len(g.disk)
        /\ \A i \in 1..Len(g.disk) : i # at + 1 => over[i] = g.disk[i]
        /\ over[at + 1] = w
    <3>1. <<w>> \in Seq(Word) /\ Len(<<w>>) = 1 /\ <<w>>[1] = w OBVIOUS
    <3>2. PICK d : d = g.disk OBVIOUS
    <3>3. d \in Seq(Word) /\ <<w>> \in Seq(Word) /\ at <= Len(d) BY <2>3, <2>5, <3>1, <3>2
    <3>4. Overs(Over(d, at, <<w>>), d, at, <<w>>) BY <3>3, OverIs
    <3>5. over = Over(d, at, <<w>>) BY <3>2
    <3> HIDE DEF over
    <3>6. Overs(over, d, at, <<w>>) BY <3>4, <3>5
    <3>7. 1 \in 1..1 OBVIOUS
    <3>8. /\ over \in Seq(Word) /\ Len(over) \in Nat /\ Len(over) >= Len(d)
          /\ \A i \in 1..at : over[i] = d[i]
          /\ \A i \in 1..Len(d) : i > at + Len(<<w>>) => over[i] = d[i]
          /\ \A i \in 1..Len(<<w>>) : over[at + i] = <<w>>[i]
      BY <3>6 DEF Overs
    <3> QED BY <2>5, <3>1, <3>2, <3>7, <3>8
  <2>7. h = [disk |-> over, buf |-> <<>>, flushed |-> Position(f), room |-> f.room,
             failed |-> FALSE]
    <3>1. g.failed = FALSE BY <1>1, <1>3
    <3> HIDE DEF over
    <3> QED BY <2>1, <2>2, <3>1 DEF File, Files, over
  <2> HIDE DEF over
  <2>8. File(h)
    BY <2>2, <2>3, <2>5, <2>6, <2>7 DEF File, Files
  <2>9. Position(h) = Position(f)
    BY <2>3, <2>7 DEF Position
  <2>10. \A i \in 1..Position(f) : Text(h)[i] = over[i]
    BY <2>7, <2>8, <2>9, TextIs
  <2>11. \A i \in 1..Position(f) : Text(g)[i] = g.disk[i]
    BY <2>2, <2>4, TextIs
  <2>12. \A i \in 1..Position(f) : Text(h)[i] = IF i = at + 1 THEN w ELSE Text(f)[i]
    BY <2>3, <2>4, <2>5, <2>6, <2>10, <2>11
  <2>13. h.room = f.room /\ h.buf = <<>> /\ h.failed = FALSE BY <2>7
  <2>14. Patches(f, h, at, w) BY <2>9, <2>12, <2>13 DEF Patches
  <2> QED BY <2>8, <2>13, <2>14 DEF h
<1> QED BY <1>2, <1>3
-----------------------------------------------------------------------------
(* The recording in the making.                                              *)
Avis == [file : Files, index : Seq(Entry), frames : Nat, samples : Nat, largest : Nat,
         err : BOOLEAN]
Avi(a) == a \in Avis /\ File(a.file) /\ (a.file.failed => a.err)
Same(a, b) ==
    /\ b.index = a.index /\ b.frames = a.frames
    /\ b.samples = a.samples /\ b.largest = a.largest
Grows(a, b, words) ==
    /\ Avi(b) /\ Same(a, b)
    /\ ~b.err => ~a.err /\ Settles(a.file, b.file, words)
LEMMA AviIs ==
    ASSUME NEW a, Avi(a)
    PROVE  /\ a.index \in Seq(Entry) /\ a.frames \in Nat /\ a.samples \in Nat
           /\ a.largest \in Nat /\ a.err \in BOOLEAN /\ File(a.file) /\ a.file \in Files
           /\ Text(a.file) \in Seq(Word) /\ Position(a.file) \in Nat
           /\ Len(Text(a.file)) = Position(a.file)
<1>1. a \in Avis /\ File(a.file) BY DEF Avi
<1> QED BY <1>1, TextIs DEF Avis

(* avi_put appends words to the text of the recording.                       *)
LEMMA PutIs ==
    ASSUME NEW a, Avi(a), NEW words \in Seq(Word)
    PROVE  Grows(a, Put(a, words), words)
<1>1. a \in Avis /\ File(a.file) /\ (a.file.failed => a.err) BY DEF Avi
<1>2. CASE a.err
  <2>1. Put(a, words) = a BY <1>2 DEF Put
  <2> QED BY <1>2, <2>1 DEF Grows, Same
<1>3. CASE ~a.err
  <2> DEFINE f == a.file
             file == Write(f, words)
  <2>1. Settles(f, file, words) BY <1>1, <1>3, WriteIs
  <2>2. File(file) /\ file \in Files BY <2>1 DEF Settles, File
  <2>3. file.failed \in BOOLEAN BY <2>2 DEF Files
  <2>4. Put(a, words) = [a EXCEPT !.file = file, !.err = file.failed]
    <3> HIDE DEF file
    <3> QED BY <1>3 DEF Put, file
  <2> HIDE DEF file
  <2>5. /\ Put(a, words) \in Avis
        /\ Put(a, words).file = file /\ Put(a, words).err = file.failed
        /\ Same(a, Put(a, words))
    BY <1>1, <2>2, <2>3, <2>4 DEF Avis, Same
  <2>6. Avi(Put(a, words)) BY <2>2, <2>5 DEF Avi
  <2> QED BY <1>3, <2>1, <2>5, <2>6 DEF Grows
<1>4. a.err \in BOOLEAN BY AviIs
<1> QED BY <1>2, <1>3, <1>4

(* avi_patch_u32 changes one word of the text, and no other.                 *)
Patched1(a, b, at, w) ==
    /\ Avi(b) /\ Same(a, b)
    /\ ~b.err => ~a.err /\ Patches(a.file, b.file, at, w)
LEMMA PatchIs ==
    ASSUME NEW a, Avi(a), NEW at \in Nat, ~a.err => at < Position(a.file), NEW n \in Nat
    PROVE  Patched1(a, Patch(a, at, n), at, Num(n))
<1>1. a \in Avis /\ File(a.file) /\ (a.file.failed => a.err) BY DEF Avi
<1>2. CASE a.err
  <2>1. Patch(a, at, n) = a BY <1>2 DEF Patch
  <2> QED BY <1>2, <2>1 DEF Patched1, Same
<1>3. CASE ~a.err
  <2> DEFINE f == a.file
             file == WriteAt(f, at, Num(n))
  <2>0. Num(n) \in Word BY WordIs
  <2>1. /\ File(file) /\ file.failed \in BOOLEAN
        /\ ~file.failed => Patches(f, file, at, Num(n))
    BY <1>1, <1>3, <2>0, WriteAtIs
  <2>2. File(file) /\ file \in Files BY <2>1 DEF File
  <2>4. Patch(a, at, n) = [a EXCEPT !.file = file, !.err = file.failed]
    <3> HIDE DEF file
    <3> QED BY <1>3 DEF Patch, file
  <2> HIDE DEF file
  <2>5. /\ Patch(a, at, n) \in Avis
        /\ Patch(a, at, n).file = file /\ Patch(a, at, n).err = file.failed
        /\ Same(a, Patch(a, at, n))
    BY <1>1, <2>1, <2>2, <2>4 DEF Avis, Same
  <2>6. Avi(Patch(a, at, n)) BY <2>2, <2>5 DEF Avi
  <2> QED BY <1>3, <2>1, <2>5, <2>6 DEF Patched1
<1>4. a.err \in BOOLEAN BY AviIs
<1> QED BY <1>2, <1>3, <1>4

(* How much the volume can take changes neither text nor index.              *)
LEMMA RoomIs ==
    ASSUME NEW a, Avi(a), NEW n \in Nat
    PROVE  LET b == [a EXCEPT !.file.room = n]
           IN  /\ Avi(b) /\ Same(a, b) /\ b.err = a.err
               /\ Text(b.file) = Text(a.file) /\ Position(b.file) = Position(a.file)
<1> DEFINE b == [a EXCEPT !.file.room = n]
<1>1. a \in Avis /\ File(a.file) /\ (a.file.failed => a.err) BY DEF Avi
<1>2. a.file \in Files BY <1>1 DEF File
<1> DEFINE f == [a.file EXCEPT !.room = n]
<1>3. /\ f \in Files /\ f.disk = a.file.disk /\ f.buf = a.file.buf
      /\ f.flushed = a.file.flushed /\ f.failed = a.file.failed
  BY <1>2 DEF Files
<1>4. b = [a EXCEPT !.file = f]
  BY <1>1, <1>2 DEF Avis
<1> HIDE DEF f, b
<1>5. File(f) BY <1>1, <1>3 DEF File
<1>6. b \in Avis /\ b.file = f /\ Same(a, b) /\ b.err = a.err
  BY <1>1, <1>3, <1>4 DEF Avis, Same
<1>7. Avi(b) BY <1>1, <1>3, <1>5, <1>6 DEF Avi
<1>8. Text(b.file) = Text(a.file) /\ Position(b.file) = Position(a.file)
  BY <1>3, <1>6 DEF Text, Position
<1> QED BY <1>6, <1>7, <1>8 DEF b

(* A chunk is put behind what there is, and entered in the index.            *)
Chunked(a, c, id, data) ==
    LET P == Position(a.file)
        new == Text(c.file)
    IN  /\ Avi(c) /\ c.frames = a.frames /\ c.samples = a.samples
        /\ ~c.err =>
             /\ ~a.err
             /\ c.index = Append(a.index, [id |-> id, at |-> P - MoviStart, size |-> Len(data)])
             /\ c.largest = IF Len(data) > a.largest THEN Len(data) ELSE a.largest
             /\ Position(c.file) = P + 2 + Padded(Len(data))
             /\ \A i \in 1..P : new[i] = Text(a.file)[i]
             /\ new[P + 1] = Tag(id) /\ new[P + 2] = Num(Len(data))
             /\ \A i \in 1..Len(data) : new[P + 2 + i] = data[i]
LEMMA ChunkIs ==
    ASSUME NEW a, Avi(a), ~a.err => Position(a.file) >= MoviStart,
           NEW id \in {"00dc", "01wb"}, NEW data \in Seq(Word)
    PROVE  Chunked(a, Chunk(a, id, data), id, data)
<1> DEFINE P == Position(a.file)
           n == Len(data)
           head == <<Tag(id), Num(n)>>
           pad == IF n % 2 = 1 THEN <<Num(0)>> ELSE <<>>
           words == (head \o data) \o pad
           put == Put(a, words)
           c == Chunk(a, id, data)
           e == [id |-> id, at |-> P - MoviStart, size |-> n]
           d == IF n > put.largest THEN n ELSE put.largest
<1>0. n \in Nat /\ P \in Nat /\ MoviStart \in Nat
  BY AviIs, LenProperties DEF MoviStart
<1>1. /\ head \in Seq(Word) /\ Len(head) = 2 /\ head[1] = Tag(id) /\ head[2] = Num(n)
  <2> HIDE DEF n
  <2>2. id \in Ids BY DEF Ids
  <2>3. Tag(id) \in Word BY <2>2, WordIs
  <2>1. Tag(id) \in Word /\ Num(n) \in Word BY <1>0, <2>3, WordIs
  <2> QED BY <2>1
<1>2. pad \in Seq(Word) /\ Len(pad) = n % 2
  <2>1. Num(0) \in Word BY WordIs
  <2>2. n % 2 = 0 \/ n % 2 = 1 BY <1>0
  <2> HIDE DEF n
  <2>3. CASE n % 2 = 1 BY <2>1, <2>3
  <2>4. CASE n % 2 = 0 BY <2>4
  <2> QED BY <2>2, <2>3, <2>4
<1>12. c = IF put.err THEN put
           ELSE IF Len(put.index) >= MaxIndex THEN [put EXCEPT !.err = TRUE]
           ELSE [put EXCEPT !.index = Append(put.index, e), !.largest = d]
  BY DEF Chunk
<1> HIDE DEF head, pad, c
<1>3. Joins(head \o data, head, data) BY <1>1, Concat
<1>4. head \o data \in Seq(Word) BY <1>3 DEF Joins
<1>5. Joins(words, head \o data, pad) BY <1>2, <1>4, Concat
<1>6. /\ words \in Seq(Word) /\ Len(words) = 2 + Padded(n)
      /\ words[1] = Tag(id) /\ words[2] = Num(n)
      /\ \A i \in 1..n : words[2 + i] = data[i]
  <2> DEFINE h == head \o data
  <2>1. Len(h) = 2 + n BY <1>1, <1>3 DEF Joins
  <2>2. \A i \in 1..2 + n : words[i] = h[i] BY <1>5, <2>1 DEF Joins
  <2>3. \A i \in 1..2 : h[i] = head[i] BY <1>1, <1>3 DEF Joins
  <2>4. \A i \in 1..n : h[2 + i] = data[i] BY <1>1, <1>3 DEF Joins
  <2>5. words \in Seq(Word) /\ Len(words) = Len(h) + Len(pad) BY <1>5 DEF Joins
  <2> HIDE DEF h, words, n
  <2>6. 1 \in 1..2 /\ 2 \in 1..2 /\ 1 \in 1..2 + n /\ 2 \in 1..2 + n
        /\ \A i \in 1..n : 2 + i \in 1..2 + n
    BY <1>0
  <2>7. Len(words) = 2 + Padded(n) BY <1>0, <1>2, <2>1, <2>5 DEF Padded
  <2> QED BY <1>1, <2>2, <2>3, <2>4, <2>5, <2>6, <2>7
<1> HIDE DEF words
<1>7. Grows(a, put, words) BY <1>6, PutIs
<1> HIDE DEF put
<1>8. /\ Avi(put) /\ Same(a, put) /\ put \in Avis /\ File(put.file)
      /\ ~put.err => ~a.err /\ Settles(a.file, put.file, words)
  BY <1>7 DEF Grows, Avi
<1>9. CASE put.err
  <2>1. c = put BY <1>9, <1>12
  <2> QED BY <1>8, <1>9, <2>1 DEF Chunked, Same, c
<1>10. CASE ~put.err /\ Len(put.index) >= MaxIndex
  <2>1. c = [put EXCEPT !.err = TRUE] BY <1>10, <1>12
  <2>2. /\ c \in Avis /\ c.file = put.file /\ c.err = TRUE /\ c.frames = put.frames
        /\ c.samples = put.samples
    BY <1>8, <2>1 DEF Avis
  <2>3. Avi(c) BY <1>8, <2>2 DEF Avi
  <2> QED BY <1>8, <2>2, <2>3 DEF Chunked, Same, c
<1>11. CASE ~put.err /\ ~(Len(put.index) >= MaxIndex)
  <2>1. c = [put EXCEPT !.index = Append(put.index, e), !.largest = d]
    BY <1>11, <1>12
  <2>2. e \in Entry
    <3>1. P - MoviStart \in Nat BY <1>0, <1>8, <1>11
    <3> HIDE DEF P, n
    <3> QED BY <1>0, <3>1 DEF Entry
  <2>3. put.index = a.index /\ put.largest = a.largest /\ a.index \in Seq(Entry) /\ a.largest \in Nat
    BY <1>8, AviIs DEF Same
  <2>4. d \in Nat /\ d = IF n > a.largest THEN n ELSE a.largest
    <3> HIDE DEF n
    <3> QED BY <1>0, <2>3
  <2> HIDE DEF d, e
  <2>5. Append(put.index, e) \in Seq(Entry) BY <2>2, <2>3
  <2>6. /\ c \in Avis /\ c.file = put.file /\ c.err = put.err /\ c.frames = put.frames
        /\ c.samples = put.samples /\ c.index = Append(put.index, e) /\ c.largest = d
    BY <1>8, <2>1, <2>4, <2>5 DEF Avis
  <2>7. Avi(c) BY <1>8, <2>6 DEF Avi
  <2>8. ~a.err /\ Settles(a.file, put.file, words) BY <1>8, <1>11
  <2>9. /\ Position(c.file) = P + (2 + Padded(n))
        /\ Text(c.file) = Text(a.file) \o words
    BY <1>6, <2>6, <2>8 DEF Settles
  <2>10. Text(a.file) \in Seq(Word) /\ Len(Text(a.file)) = P BY AviIs
  <2>11. Joins(Text(a.file) \o words, Text(a.file), words) BY <1>6, <2>10, Concat
  <2> DEFINE old == Text(a.file)
             new == Text(c.file)
  <2> HIDE DEF old, new
  <2>12. Joins(new, old, words) BY <2>9, <2>11 DEF old, new
  <2>13. Len(old) = P BY <2>10 DEF old
  <2> HIDE DEF P, n
  <2>14. \A i \in 1..P : new[i] = old[i] BY <2>12, <2>13 DEF Joins
  <2>15. \A i \in 1..Len(words) : new[P + i] = words[i] BY <2>12, <2>13 DEF Joins
  <2>16. Padded(n) \in Nat /\ Padded(n) >= n BY <1>0 DEF Padded
  <2>17. new[P + 1] = Tag(id) /\ new[P + 2] = Num(n)
    <3>1. 1 \in 1..Len(words) /\ 2 \in 1..Len(words) BY <1>6, <2>16
    <3> QED BY <1>6, <2>15, <3>1
  <2>18. \A i \in 1..n : new[P + 2 + i] = data[i]
    <3>1. \A i \in 1..n : 2 + i \in 1..Len(words) /\ P + (2 + i) = P + 2 + i
      BY <1>0, <1>6, <2>16
    <3> QED BY <1>6, <2>15, <3>1
  <2>19. Position(c.file) = P + 2 + Padded(n) BY <1>0, <2>9, <2>16
  <2>20. c.index = Append(a.index, e) /\ c.largest = IF n > a.largest THEN n ELSE a.largest
    BY <2>3, <2>4, <2>6
  <2>21. c.frames = a.frames /\ c.samples = a.samples BY <1>8, <2>6 DEF Same
  <2>22. Chunked(a, c, id, data)
    BY <2>7, <2>8, <2>14, <2>17, <2>18, <2>19, <2>20, <2>21 DEF Chunked, P, n, old, new, e
  <2> QED BY <2>22 DEF c
<1>13. put.err \in BOOLEAN BY <1>8, AviIs
<1> QED BY <1>9, <1>10, <1>11, <1>13
-----------------------------------------------------------------------------
(* A function defined by recursion over 0..n: F says what the next value is. *)
Follows(g, X, a, n, F) ==
    /\ g \in [0..n -> X]
    /\ \A i \in 0..n : g[i] = IF i = 0 THEN a ELSE F[g[i - 1]][i]

(* Such a function exists, for every number of steps.                        *)
LEMMA Recursion ==
    ASSUME NEW X, NEW a \in X, NEW n \in Nat, NEW F \in [X -> [Nat -> X]]
    PROVE  \E g : Follows(g, X, a, n, F)
<1> DEFINE T == {k \in Nat : \E g : Follows(g, X, a, k, F)}
<1>1. 0 \in T
  <2> DEFINE g == [i \in 0..0 |-> a]
  <2>1. Follows(g, X, a, 0, F) BY DEF Follows
  <2> HIDE DEF g
  <2> QED BY <2>1
<1>2. ASSUME NEW k \in Nat, k \in T PROVE k + 1 \in T
  <2>1. PICK g : Follows(g, X, a, k, F) BY <1>2
  <2> DEFINE h == [i \in 0..(k + 1) |-> IF i = k + 1 THEN F[g[k]][k + 1] ELSE g[i]]
  <2>2. g[k] \in X BY <2>1 DEF Follows
  <2>3. h \in [0..(k + 1) -> X]
    <3>1. F[g[k]][k + 1] \in X BY <2>2
    <3>2. ASSUME NEW i \in 0..(k + 1), i # k + 1 PROVE g[i] \in X
      <4>1. i \in 0..k BY <3>2
      <4> QED BY <2>1, <4>1 DEF Follows
    <3> QED BY <3>1, <3>2
  <2>4. ASSUME NEW i \in 0..(k + 1)
        PROVE  h[i] = IF i = 0 THEN a ELSE F[h[i - 1]][i]
    <3>1. CASE i = k + 1
      <4>1. h[i] = F[g[k]][k + 1] /\ i - 1 = k /\ i # 0 /\ h[k] = g[k] BY <3>1
      <4> QED BY <3>1, <4>1
    <3>2. CASE i # k + 1
      <4>1. i \in 0..k /\ h[i] = g[i] BY <3>2
      <4>2. g[i] = IF i = 0 THEN a ELSE F[g[i - 1]][i] BY <2>1, <4>1 DEF Follows
      <4>3. i # 0 => h[i - 1] = g[i - 1] BY <4>1
      <4> QED BY <4>1, <4>2, <4>3
    <3> QED BY <3>1, <3>2
  <2>5. Follows(h, X, a, k + 1, F)
    <3> HIDE DEF h
    <3> QED BY <2>3, <2>4 DEF Follows
  <2> HIDE DEF h
  <2> QED BY <2>5
<1>3. n \in T
  <2> HIDE DEF T
  <2> QED BY <1>1, <1>2, NatSet
<1> QED BY <1>3

(* The entries of one kind, step by step.                                    *)
KindOf(g, index, id) ==
    /\ g \in [0..Len(index) -> Seq(Entry)] /\ Kind(index, id) = g[Len(index)] /\ g[0] = <<>>
    /\ \A n \in 1..Len(index) :
         g[n] = IF index[n].id = id THEN Append(g[n - 1], index[n]) ELSE g[n - 1]
LEMMA KindIs ==
    ASSUME NEW index \in Seq(Entry), NEW id
    PROVE  \E g : KindOf(g, index, id)
<1> DEFINE N == Len(index)
           Step(v, n) == IF index[n].id = id THEN Append(v, index[n]) ELSE v
           F == [v \in Seq(Entry) |-> [n \in Nat |-> IF n \in 1..N THEN Step(v, n) ELSE v]]
           Is(g) == g = [n \in 0..N |-> IF n = 0 THEN <<>> ELSE Step(g[n - 1], n)]
           s == CHOOSE g : Is(g)
<1>0. N \in Nat /\ \A n \in 1..N : index[n] \in Entry /\ n \in Nat
  BY LenProperties, ElementOfSeq
<1>12. ASSUME NEW t \in Seq(Entry), NEW n \in 1..N PROVE Step(t, n) \in Seq(Entry)
  <2> HIDE DEF N
  <2> QED BY <1>0
<1> HIDE DEF Step
<1>1. F \in [Seq(Entry) -> [Nat -> Seq(Entry)]]
  <2> HIDE DEF N
  <2> QED BY <1>12
<1>2. PICK g : Follows(g, Seq(Entry), <<>>, N, F)
  <2>1. <<>> \in Seq(Entry) BY EmptySeq
  <2> HIDE DEF F, N
  <2> QED BY <1>0, <1>1, <2>1, Recursion
<1>3. Is(g)
  <2>1. ASSUME NEW k \in 0..N
        PROVE  g[k] = IF k = 0 THEN <<>> ELSE Step(g[k - 1], k)
    <3>1. CASE k = 0 BY <1>2, <3>1 DEF Follows
    <3>2. CASE k # 0
      <4>1. k - 1 \in 0..N /\ k \in Nat /\ k \in 1..N BY <1>0, <3>2
      <4>2. g[k - 1] \in Seq(Entry)
        <5> HIDE DEF F, N
        <5> QED BY <1>2, <4>1 DEF Follows
      <4>3. g[k] = F[g[k - 1]][k]
        <5> HIDE DEF F, N
        <5> QED BY <1>2, <3>2 DEF Follows
      <4> HIDE DEF N
      <4> QED BY <3>2, <4>1, <4>2, <4>3
    <3> QED BY <3>1, <3>2
  <2>2. g = [k \in 0..N |-> g[k]]
    <3> HIDE DEF F, N
    <3> QED BY <1>2 DEF Follows
  <2> HIDE DEF N, F
  <2> QED BY <2>1, <2>2
<1>4. Is(s)
  <2> HIDE DEF Is
  <2> QED BY <1>3
<1>5. Kind(index, id) = s[N]
  BY DEF Kind, Step
<1> HIDE DEF s, N
<1>6. DOMAIN s = 0..N /\ s[0] = <<>>
  BY <1>0, <1>4
<1>7. \A n \in 1..N : s[n] = Step(s[n - 1], n)
  BY <1>0, <1>4
<1>8. \A n \in 0..N : s[n] \in Seq(Entry)
  <2> DEFINE T == {n \in Nat : n <= N => s[n] \in Seq(Entry)}
  <2>1. 0 \in T
    <3>1. <<>> \in Seq(Entry) BY EmptySeq
    <3> QED BY <1>6, <3>1
  <2>2. ASSUME NEW n \in Nat, n \in T PROVE n + 1 \in T
    <3>1. CASE n + 1 <= N
      <4>1. n + 1 \in 1..N /\ (n + 1) - 1 = n /\ s[n] \in Seq(Entry) BY <1>0, <2>2, <3>1
      <4>2. s[n + 1] = Step(s[n], n + 1) BY <1>7, <4>1
      <4>3. s[n + 1] \in Seq(Entry) BY <1>12, <4>1, <4>2
      <4> QED BY <4>3
    <3>2. CASE ~(n + 1 <= N) BY <3>2
    <3> QED BY <3>1, <3>2
  <2>3. \A n \in Nat : n \in T
    <3> HIDE DEF T
    <3> QED BY <2>1, <2>2, NatSet
  <2> QED BY <1>0, <2>3
<1>9. s \in [0..N -> Seq(Entry)]
  <2>1. s = [n \in 0..N |-> s[n]] BY <1>4, <1>6
  <2> QED BY <1>8, <2>1
<1>10. KindOf(s, index, id)
  BY <1>5, <1>6, <1>7, <1>9 DEF KindOf, N, Step
<1> QED BY <1>10

(* One entry more.                                                           *)
LEMMA KindAppend ==
    ASSUME NEW index \in Seq(Entry), NEW id, NEW e \in Entry
    PROVE  /\ Kind(index, id) \in Seq(Entry)
           /\ Kind(Append(index, e), id) =
                IF e.id = id THEN Append(Kind(index, id), e) ELSE Kind(index, id)
<1> DEFINE more == Append(index, e)
           N == Len(index)
<1>1. /\ more \in Seq(Entry) /\ N \in Nat /\ Len(more) = N + 1
      /\ \A i \in 1..N : more[i] = index[i]
      /\ more[N + 1] = e
  BY AppendProperties, LenProperties
<1>2. PICK g : KindOf(g, index, id) BY KindIs
<1> HIDE DEF more
<1>3. PICK h : KindOf(h, more, id) BY <1>1, KindIs
<1>4. /\ g \in [0..N -> Seq(Entry)] /\ Kind(index, id) = g[N] /\ g[0] = <<>>
      /\ \A n \in 1..N : g[n] = IF index[n].id = id THEN Append(g[n - 1], index[n]) ELSE g[n - 1]
  BY <1>2 DEF KindOf
<1>5. /\ Kind(more, id) = h[N + 1] /\ h[0] = <<>>
      /\ \A n \in 1..N + 1 : h[n] = IF more[n].id = id THEN Append(h[n - 1], more[n]) ELSE h[n - 1]
  BY <1>1, <1>3 DEF KindOf
<1> HIDE DEF N
<1>6. \A n \in 0..N : h[n] = g[n]
  <2> DEFINE T == {n \in Nat : n <= N => h[n] = g[n]}
  <2>1. 0 \in T BY <1>4, <1>5
  <2>2. ASSUME NEW n \in Nat, n \in T PROVE n + 1 \in T
    <3>1. CASE n + 1 <= N
      <4>1. n + 1 \in 1..N /\ n + 1 \in 1..N + 1 /\ (n + 1) - 1 = n /\ h[n] = g[n]
        BY <1>1, <2>2, <3>1
      <4>2. h[n + 1] = IF more[n + 1].id = id THEN Append(h[n], more[n + 1]) ELSE h[n]
        BY <1>5, <4>1
      <4>3. g[n + 1] = IF index[n + 1].id = id THEN Append(g[n], index[n + 1]) ELSE g[n]
        BY <1>4, <4>1
      <4>4. more[n + 1] = index[n + 1] BY <1>1, <4>1
      <4>5. h[n + 1] = g[n + 1] BY <4>1, <4>2, <4>3, <4>4, Zenon
      <4> QED BY <4>5
    <3>2. CASE ~(n + 1 <= N) BY <3>2
    <3> QED BY <3>1, <3>2
  <2>3. \A n \in Nat : n \in T
    <3> HIDE DEF T
    <3> QED BY <2>1, <2>2, NatSet
  <2> QED BY <1>1, <2>3
<1>7. N \in 0..N /\ N + 1 \in 1..N + 1 /\ (N + 1) - 1 = N BY <1>1
<1>8. Kind(index, id) \in Seq(Entry) BY <1>4, <1>7
<1>9. h[N + 1] = IF e.id = id THEN Append(h[N], e) ELSE h[N] BY <1>1, <1>5, <1>7
<1>10. Kind(more, id) = IF e.id = id THEN Append(Kind(index, id), e) ELSE Kind(index, id)
  BY <1>4, <1>5, <1>6, <1>7, <1>9
<1> QED BY <1>8, <1>10 DEF more

(* An empty index has no entry of any kind.                                  *)
LEMMA KindEmpty ==
    ASSUME NEW id
    PROVE  Kind(<<>>, id) = <<>>
<1>1. <<>> \in Seq(Entry) /\ Len(<<>>) = 0 BY EmptySeq
<1>2. PICK g : KindOf(g, <<>>, id) BY <1>1, KindIs
<1> QED BY <1>1, <1>2 DEF KindOf

(* The data of an entry, and of all that carry sound.                        *)
LEMMA DataIs ==
    ASSUME NEW words \in Seq(Word), NEW e \in Entry,
           MoviStart + e.at + 2 + e.size <= Len(words)
    PROVE  /\ DataOf(words, e) \in Seq(Word) /\ Len(DataOf(words, e)) = e.size
           /\ \A i \in 1..e.size : DataOf(words, e)[i] = words[MoviStart + e.at + 2 + i]
<1>0. MoviStart = 9 BY DEF MoviStart
<1>1. PICK m \in Nat, n \in Nat : m = MoviStart + e.at + 3 /\ n = e.size /\ m >= 1
  BY DEF Entry, MoviStart
<1>2. MoviStart + e.at + 2 + e.size = m + n - 1
  <2>1. PICK k \in Nat : k = e.at BY DEF Entry
  <2>2. m = k + 12 BY <1>0, <1>1, <2>1
  <2>3. MoviStart + k + 2 + n = m + n - 1 BY <1>0, <2>2
  <2> QED BY <1>1, <2>1, <2>3
<1>3. /\ DataOf(words, e) = SubSeq(words, m, m + n - 1)
      /\ m + n - 1 <= Len(words) /\ Len(words) \in Nat
  <2>1. Len(words) \in Nat BY LenProperties
  <2> QED BY <1>1, <1>2, <2>1 DEF DataOf
<1>4. \A i \in m..m + n - 1 : words[i] \in Word
  <2>1. \A i \in m..m + n - 1 : i \in 1..Len(words) BY <1>1, <1>3
  <2> QED BY <2>1, ElementOfSeq
<1> DEFINE u == SubSeq(words, m, m + n - 1)
           last == m + n - 1
<1>5. last \in Int /\ last - m + 1 = n /\ (IF m <= last THEN last - m + 1 ELSE 0) = n
  OBVIOUS
<1>6. /\ SubSeq(words, m, last) \in Seq(Word)
      /\ Len(SubSeq(words, m, last)) = IF m <= last THEN last - m + 1 ELSE 0
      /\ \A i \in 1..last - m + 1 : SubSeq(words, m, last)[i] = words[m + i - 1]
  <2>1. \A i \in m..last : words[i] \in Word BY <1>4
  <2> HIDE DEF last
  <2> QED BY <1>5, <2>1, SubSeqProperties
<1>7. u \in Seq(Word) /\ Len(u) = n /\ \A i \in 1..n : u[i] = words[m + i - 1]
  <2> HIDE DEF last
  <2> QED BY <1>5, <1>6 DEF last
<1> HIDE DEF u
<1>8. \A i \in 1..n : m + i - 1 = MoviStart + e.at + 2 + i
  BY <1>1 DEF MoviStart, Entry
<1> QED BY <1>1, <1>3, <1>7, <1>8 DEF u

(* The sound of a recording, built from the front of its index.              *)
Within(words, index) ==
    \A i \in 1..Len(index) : MoviStart + index[i].at + 2 + index[i].size <= Len(words)
TrackOf(g, words, index) ==
    /\ g \in [0..Len(index) -> Seq(Word)] /\ Track(words, index) = g[Len(index)] /\ g[0] = <<>>
    /\ \A n \in 1..Len(index) :
         g[n] = IF index[n].id = "01wb" THEN g[n - 1] \o DataOf(words, index[n]) ELSE g[n - 1]
LEMMA TrackIs ==
    ASSUME NEW words \in Seq(Word), NEW index \in Seq(Entry), Within(words, index)
    PROVE  \E g : TrackOf(g, words, index)
<1> DEFINE N == Len(index)
           Step(v, n) == IF index[n].id = "01wb" THEN v \o DataOf(words, index[n]) ELSE v
           F == [v \in Seq(Word) |-> [n \in Nat |-> IF n \in 1..N THEN Step(v, n) ELSE v]]
           Is(g) == g = [n \in 0..N |-> IF n = 0 THEN <<>> ELSE Step(g[n - 1], n)]
           s == CHOOSE g : Is(g)
<1>0. N \in Nat /\ \A n \in 1..N : index[n] \in Entry /\ n \in Nat
  BY LenProperties, ElementOfSeq
<1>11. \A n \in 1..N : DataOf(words, index[n]) \in Seq(Word)
  <2> HIDE DEF N
  <2>1. ASSUME NEW n \in 1..N PROVE DataOf(words, index[n]) \in Seq(Word)
    <3>1. index[n] \in Entry /\ MoviStart + index[n].at + 2 + index[n].size <= Len(words)
      BY <1>0 DEF Within, N
    <3> QED BY <3>1, DataIs
  <2> QED BY <2>1
<1>12. ASSUME NEW t \in Seq(Word), NEW n \in 1..N PROVE Step(t, n) \in Seq(Word)
  <2>1. DataOf(words, index[n]) \in Seq(Word) BY <1>11
  <2>2. Joins(t \o DataOf(words, index[n]), t, DataOf(words, index[n])) BY <2>1, Concat
  <2>3. t \o DataOf(words, index[n]) \in Seq(Word) BY <2>2 DEF Joins
  <2> QED BY <2>3
<1> HIDE DEF Step
<1>1. F \in [Seq(Word) -> [Nat -> Seq(Word)]]
  <2> HIDE DEF N
  <2> QED BY <1>12
<1>2. PICK g : Follows(g, Seq(Word), <<>>, N, F)
  <2>1. <<>> \in Seq(Word) BY EmptySeq
  <2> HIDE DEF F, N
  <2> QED BY <1>0, <1>1, <2>1, Recursion
<1>3. Is(g)
  <2>1. ASSUME NEW k \in 0..N
        PROVE  g[k] = IF k = 0 THEN <<>> ELSE Step(g[k - 1], k)
    <3>1. CASE k = 0 BY <1>2, <3>1 DEF Follows
    <3>2. CASE k # 0
      <4>1. k - 1 \in 0..N /\ k \in Nat /\ k \in 1..N BY <1>0, <3>2
      <4>2. g[k - 1] \in Seq(Word)
        <5> HIDE DEF F, N
        <5> QED BY <1>2, <4>1 DEF Follows
      <4>3. g[k] = F[g[k - 1]][k]
        <5> HIDE DEF F, N
        <5> QED BY <1>2, <3>2 DEF Follows
      <4> HIDE DEF N
      <4> QED BY <3>2, <4>1, <4>2, <4>3
    <3> QED BY <3>1, <3>2
  <2>2. g = [k \in 0..N |-> g[k]]
    <3> HIDE DEF F, N
    <3> QED BY <1>2 DEF Follows
  <2> HIDE DEF N, F
  <2> QED BY <2>1, <2>2
<1>4. Is(s)
  <2> HIDE DEF Is
  <2> QED BY <1>3
<1>5. Track(words, index) = s[N]
  BY DEF Track, Step
<1> HIDE DEF s, N
<1>6. DOMAIN s = 0..N /\ s[0] = <<>>
  BY <1>0, <1>4
<1>7. \A n \in 1..N : s[n] = Step(s[n - 1], n)
  BY <1>0, <1>4
<1>8. \A n \in 0..N : s[n] \in Seq(Word)
  <2> DEFINE T == {n \in Nat : n <= N => s[n] \in Seq(Word)}
  <2>1. 0 \in T
    <3>1. <<>> \in Seq(Word) BY EmptySeq
    <3> QED BY <1>6, <3>1
  <2>2. ASSUME NEW n \in Nat, n \in T PROVE n + 1 \in T
    <3>1. CASE n + 1 <= N
      <4>1. n + 1 \in 1..N /\ (n + 1) - 1 = n /\ s[n] \in Seq(Word) BY <1>0, <2>2, <3>1
      <4>2. s[n + 1] = Step(s[n], n + 1) BY <1>7, <4>1
      <4>3. s[n + 1] \in Seq(Word) BY <1>12, <4>1, <4>2
      <4> QED BY <4>3
    <3>2. CASE ~(n + 1 <= N) BY <3>2
    <3> QED BY <3>1, <3>2
  <2>3. \A n \in Nat : n \in T
    <3> HIDE DEF T
    <3> QED BY <2>1, <2>2, NatSet
  <2> QED BY <1>0, <2>3
<1>9. s \in [0..N -> Seq(Word)]
  <2>1. s = [n \in 0..N |-> s[n]] BY <1>4, <1>6
  <2> QED BY <1>8, <2>1
<1>10. TrackOf(s, words, index)
  BY <1>5, <1>6, <1>7, <1>9 DEF TrackOf, N, Step
<1> QED BY <1>10

(* The track depends on nothing but what the entries point at.               *)
SameData(words, new, index) ==
    \A i \in 1..Len(index) : DataOf(new, index[i]) = DataOf(words, index[i])
LEMMA TrackSame ==
    ASSUME NEW words \in Seq(Word), NEW new \in Seq(Word), NEW index \in Seq(Entry),
           Within(words, index), Within(new, index), SameData(words, new, index)
    PROVE  Track(words, index) \in Seq(Word) /\ Track(new, index) = Track(words, index)
<1>1. PICK g : TrackOf(g, words, index) BY TrackIs
<1>2. PICK h : TrackOf(h, new, index) BY TrackIs
<1> DEFINE N == Len(index)
<1>0. N \in Nat BY LenProperties
<1>3. /\ g \in [0..N -> Seq(Word)] /\ Track(words, index) = g[N] /\ g[0] = <<>>
      /\ \A n \in 1..N : g[n] = IF index[n].id = "01wb" THEN g[n - 1] \o DataOf(words, index[n])
                                ELSE g[n - 1]
  BY <1>1 DEF TrackOf
<1>4. /\ Track(new, index) = h[N] /\ h[0] = <<>>
      /\ \A n \in 1..N : h[n] = IF index[n].id = "01wb" THEN h[n - 1] \o DataOf(new, index[n])
                                ELSE h[n - 1]
  BY <1>2 DEF TrackOf
<1>5. \A n \in 1..N : DataOf(new, index[n]) = DataOf(words, index[n]) BY DEF SameData
<1> HIDE DEF N
<1>6. \A n \in 0..N : h[n] = g[n]
  <2> DEFINE T == {n \in Nat : n <= N => h[n] = g[n]}
  <2>1. 0 \in T BY <1>3, <1>4
  <2>2. ASSUME NEW n \in Nat, n \in T PROVE n + 1 \in T
    <3>1. CASE n + 1 <= N
      <4>1. n + 1 \in 1..N /\ (n + 1) - 1 = n /\ h[n] = g[n] BY <1>0, <2>2, <3>1
      <4> QED BY <1>3, <1>4, <1>5, <4>1
    <3>2. CASE ~(n + 1 <= N) BY <3>2
    <3> QED BY <3>1, <3>2
  <2>3. \A n \in Nat : n \in T
    <3> HIDE DEF T
    <3> QED BY <2>1, <2>2, NatSet
  <2> QED BY <1>0, <2>3
<1>7. N \in 0..N BY <1>0
<1> QED BY <1>3, <1>4, <1>6, <1>7

(* A new entry adds its data to the sound, if it is one of sound.            *)
LEMMA TrackAppend ==
    ASSUME NEW words \in Seq(Word), NEW index \in Seq(Entry), NEW e \in Entry,
           Within(words, Append(index, e)), Within(words, index)
    PROVE  Track(words, Append(index, e)) =
             IF e.id = "01wb" THEN Track(words, index) \o DataOf(words, e)
             ELSE Track(words, index)
<1> DEFINE more == Append(index, e)
           N == Len(index)
<1>1. /\ more \in Seq(Entry) /\ N \in Nat /\ Len(more) = N + 1
      /\ \A i \in 1..N : more[i] = index[i]
      /\ more[N + 1] = e
  BY AppendProperties, LenProperties
<1>2. PICK g : TrackOf(g, words, index) BY TrackIs
<1>8. Within(words, more) OBVIOUS
<1> HIDE DEF more
<1>3. PICK h : TrackOf(h, words, more) BY <1>1, <1>8, TrackIs
<1>4. /\ Track(words, index) = g[N] /\ g[0] = <<>>
      /\ \A n \in 1..N : g[n] = IF index[n].id = "01wb" THEN g[n - 1] \o DataOf(words, index[n])
                                ELSE g[n - 1]
  BY <1>2 DEF TrackOf
<1>5. /\ Track(words, more) = h[N + 1] /\ h[0] = <<>>
      /\ \A n \in 1..N + 1 : h[n] = IF more[n].id = "01wb" THEN h[n - 1] \o DataOf(words, more[n])
                                    ELSE h[n - 1]
  BY <1>1, <1>3 DEF TrackOf
<1> HIDE DEF N
<1>6. \A n \in 0..N : h[n] = g[n]
  <2> DEFINE T == {n \in Nat : n <= N => h[n] = g[n]}
  <2>1. 0 \in T BY <1>4, <1>5
  <2>2. ASSUME NEW n \in Nat, n \in T PROVE n + 1 \in T
    <3>1. CASE n + 1 <= N
      <4>1. n + 1 \in 1..N /\ n + 1 \in 1..N + 1 /\ (n + 1) - 1 = n /\ h[n] = g[n]
        BY <1>1, <2>2, <3>1
      <4> QED BY <1>1, <1>4, <1>5, <4>1
    <3>2. CASE ~(n + 1 <= N) BY <3>2
    <3> QED BY <3>1, <3>2
  <2>3. \A n \in Nat : n \in T
    <3> HIDE DEF T
    <3> QED BY <2>1, <2>2, NatSet
  <2> QED BY <1>1, <2>3
<1>7. N \in 0..N /\ N + 1 \in 1..N + 1 /\ (N + 1) - 1 = N BY <1>1
<1>9. h[N + 1] = IF e.id = "01wb" THEN h[N] \o DataOf(words, e) ELSE h[N] BY <1>1, <1>5, <1>7
<1>10. Track(words, more) = IF e.id = "01wb" THEN Track(words, index) \o DataOf(words, e)
                            ELSE Track(words, index)
  BY <1>4, <1>5, <1>6, <1>7, <1>9
<1> QED BY <1>10 DEF more

(* An empty index has no sound.                                              *)
LEMMA TrackEmpty ==
    ASSUME NEW words \in Seq(Word)
    PROVE  Track(words, <<>>) = <<>>
<1>1. <<>> \in Seq(Entry) /\ Len(<<>>) = 0 BY EmptySeq
<1>2. Within(words, <<>>) BY <1>1 DEF Within
<1>3. PICK g : TrackOf(g, words, <<>>) BY <1>1, <1>2, TrackIs
<1> QED BY <1>1, <1>3 DEF TrackOf
-----------------------------------------------------------------------------
(* The list of chunks, and the index that tiles it.                          *)
Behind(index) == IF index = <<>> THEN 1 ELSE After(index[Len(index)])
Framed(words, index, largest) ==
    /\ words[1] = Tag("RIFF") /\ words[MoviStart + 1] = Tag("movi")
    /\ Len(words) = MoviStart + Behind(index)
    /\ Tiles(words, index)
    /\ \A i \in 1..Len(index) :
         /\ index[i].at >= 1 /\ MoviStart + After(index[i]) <= Len(words)
         /\ index[i].size <= largest
LEMMA AfterIs ==
    ASSUME NEW e \in Entry
    PROVE  e.at \in Nat /\ e.size \in Nat /\ After(e) \in Nat /\ After(e) >= e.at + 2 + e.size
<1>1. e.at \in Nat /\ e.size \in Nat BY DEF Entry
<1> QED BY <1>1 DEF After, Padded

(* An entry whose chunk ends in the file has its words in the file.          *)
LEMMA InEntry ==
    ASSUME NEW e \in Entry, NEW len \in Nat, MoviStart + After(e) <= len
    PROVE  /\ MoviStart + e.at + 2 + e.size <= len
           /\ MoviStart + e.at + 1 \in 1..len /\ MoviStart + e.at + 2 \in 1..len
           /\ \A j \in 1..e.size : MoviStart + e.at + 2 + j \in 1..len
<1> DEFINE x == e.at
           y == e.size
           z == After(e)
<1>1. x \in Nat /\ y \in Nat /\ z \in Nat /\ z >= x + 2 + y BY AfterIs
<1>2. 9 + z <= len BY DEF MoviStart
<1> HIDE DEF x, y, z
<1>3. /\ 9 + x + 2 + y <= len /\ 9 + x + 1 \in 1..len /\ 9 + x + 2 \in 1..len
      /\ \A j \in 1..y : 9 + x + 2 + j \in 1..len
  BY <1>1, <1>2
<1> QED BY <1>3 DEF x, y, MoviStart

(* What a framed text consists of: a header, and chunks that touch.          *)
LEMMA FramedIs ==
    ASSUME NEW words \in Seq(Word), NEW index \in Seq(Entry), NEW largest,
           Framed(words, index, largest)
    PROVE  Within(words, index) /\ Len(words) >= MoviStart + 1 /\ Len(words) \in Nat
<1>1. Within(words, index)
  <2>1. ASSUME NEW i \in 1..Len(index)
        PROVE  MoviStart + index[i].at + 2 + index[i].size <= Len(words)
    <3>1. index[i] \in Entry BY ElementOfSeq
    <3>2. MoviStart + After(index[i]) <= Len(words) BY DEF Framed
    <3>3. Len(words) \in Nat BY LenProperties
    <3> QED BY <3>1, <3>2, <3>3, InEntry
  <2> QED BY <2>1 DEF Within
<1>2. Len(words) \in Nat BY LenProperties
<1>3. Len(words) >= MoviStart + 1
  <2>1. CASE index = <<>> BY <1>2, <2>1 DEF Framed, Behind, MoviStart
  <2>2. CASE index # <<>>
    <3>1. Len(index) \in 1..Len(index) BY <2>2, EmptySeq, LenProperties
    <3>2. index[Len(index)] \in Entry BY <3>1, ElementOfSeq
    <3>3. index[Len(index)].at >= 1 /\ Len(words) = MoviStart + After(index[Len(index)])
      BY <2>2, <3>1 DEF Framed, Behind
    <3> QED BY <3>2, <3>3, AfterIs DEF MoviStart
  <2> QED BY <2>1, <2>2
<1> QED BY <1>1, <1>2, <1>3

(* What a chunk of n words with the tag id does to the words.                *)
Follow(words, new, id, n) ==
    LET P == Len(words)
    IN  /\ Len(new) = P + 2 + Padded(n)
        /\ \A i \in 1..P : new[i] = words[i]
        /\ new[P + 1] = Tag(id) /\ new[P + 2] = Num(n)
LEMMA FramedGrows ==
    ASSUME NEW words \in Seq(Word), NEW new \in Seq(Word), NEW index \in Seq(Entry),
           NEW largest \in Nat, Framed(words, index, largest), NEW id \in {"00dc", "01wb"},
           NEW n \in Nat, Follow(words, new, id, n), NEW e,
           e = [id |-> id, at |-> Len(words) - MoviStart, size |-> n],
           NEW larger \in Nat, larger >= n, larger >= largest
    PROVE  /\ e \in Entry /\ Framed(new, Append(index, e), larger)
           /\ Within(words, index) /\ Within(new, Append(index, e)) /\ Within(new, index)
           /\ SameData(words, new, index)
<1> DEFINE more == Append(index, e)
           N == Len(index)
           P == Len(words)
           Q == Len(new)
<1>0. P \in Nat /\ N \in Nat /\ Q \in Nat /\ P >= MoviStart + 1 /\ Within(words, index)
  BY FramedIs, LenProperties
<1>1. e \in Entry /\ e.id = id /\ e.at = P - MoviStart /\ e.size = n
  <2>1. P - MoviStart \in Nat BY <1>0 DEF MoviStart
  <2> HIDE DEF P
  <2> QED BY <2>1 DEF Entry, P
<1>2. /\ more \in Seq(Entry) /\ Len(more) = N + 1
      /\ \A i \in 1..N : more[i] = index[i]
      /\ more[N + 1] = e /\ more # <<>>
  BY <1>1, AppendProperties
<1> HIDE DEF more
<1>3. /\ Q = P + 2 + Padded(n) /\ \A i \in 1..P : new[i] = words[i]
      /\ new[P + 1] = Tag(id) /\ new[P + 2] = Num(n)
  BY DEF Follow
<1> HIDE DEF N, P, Q
<1>4. Padded(n) \in Nat /\ Padded(n) >= n BY DEF Padded
<1>5. After(e) = P - MoviStart + 2 + Padded(n) BY <1>1 DEF After
<1>6. MoviStart + After(e) = Q BY <1>0, <1>3, <1>4, <1>5 DEF MoviStart
<1>7. Q >= P BY <1>0, <1>3, <1>4
<1>8. \A i \in 1..N : index[i] \in Entry /\ index[i].at >= 1 /\ MoviStart + After(index[i]) <= P
        /\ index[i].size <= largest
  <2>1. \A i \in 1..N : index[i] \in Entry BY ElementOfSeq DEF N
  <2> QED BY <2>1 DEF Framed, N, P
<1>9. MoviStart = 9 BY DEF MoviStart
<1>10. Within(new, index)
  <2>1. ASSUME NEW i \in 1..N PROVE MoviStart + index[i].at + 2 + index[i].size <= Q
    <3>1. index[i] \in Entry /\ After(index[i]) \in Nat BY <1>8, AfterIs
    <3>2. MoviStart + After(index[i]) <= P BY <1>8
    <3>3. MoviStart + After(index[i]) <= Q BY <1>0, <1>7, <1>9, <3>1, <3>2
    <3> QED BY <1>0, <3>1, <3>3, InEntry
  <2> QED BY <2>1 DEF Within, N, Q
<1>11. Within(new, more)
  <2>1. ASSUME NEW i \in 1..N + 1 PROVE MoviStart + more[i].at + 2 + more[i].size <= Q
    <3>1. CASE i \in 1..N
      <4>1. more[i] = index[i] BY <1>2, <3>1
      <4> QED BY <1>10, <3>1, <4>1 DEF Within, N, Q
    <3>2. CASE i = N + 1
      <4>1. more[i] = e BY <1>2, <3>2
      <4>2. After(e) \in Nat /\ After(e) >= e.at + 2 + e.size /\ e.at \in Nat /\ e.size \in Nat
        BY <1>1, AfterIs
      <4>3. MoviStart + e.at + 2 + e.size <= Q BY <1>0, <1>6, <1>9, <4>2
      <4> QED BY <4>1, <4>3
    <3>3. i \in 1..N \/ i = N + 1 BY <1>0
    <3> QED BY <3>1, <3>2, <3>3
  <2> QED BY <1>2, <2>1 DEF Within, Q
<1>12. SameData(words, new, index)
  <2>1. ASSUME NEW i \in 1..N PROVE DataOf(new, index[i]) = DataOf(words, index[i])
    <3> DEFINE x == index[i]
               old == DataOf(words, x)
               now1 == DataOf(new, x)
    <3>1. x \in Entry /\ x.at \in Nat /\ x.size \in Nat BY <1>8, AfterIs
    <3>2. MoviStart + x.at + 2 + x.size <= P BY <1>0 DEF Within, N, P
    <3>3. MoviStart + x.at + 2 + x.size <= Q BY <1>10 DEF Within, N, Q
    <3> HIDE DEF x
    <3>4. /\ old \in Seq(Word) /\ Len(old) = x.size
          /\ \A j \in 1..x.size : old[j] = words[MoviStart + x.at + 2 + j]
      BY <3>1, <3>2, DataIs DEF P
    <3>5. /\ now1 \in Seq(Word) /\ Len(now1) = x.size
          /\ \A j \in 1..x.size : now1[j] = new[MoviStart + x.at + 2 + j]
      BY <3>1, <3>3, DataIs DEF Q
    <3> HIDE DEF old, now1
    <3>6. ASSUME NEW j \in 1..x.size PROVE now1[j] = old[j]
      <4>2. MoviStart + After(x) <= P BY <1>8 DEF x
      <4>1. MoviStart + x.at + 2 + j \in 1..P BY <1>0, <3>1, <4>2, InEntry
      <4> QED BY <1>3, <3>4, <3>5, <4>1
    <3>7. now1 = old BY <3>4, <3>5, <3>6, SeqEqual
    <3> QED BY <3>7 DEF now1, old, x
  <2> QED BY <2>1 DEF SameData, N
<1>13. Tiles(new, more)
  <2>1. DOMAIN more = 1..N + 1 BY <1>2, LenProperties
  <2>2. DOMAIN index = 1..N BY LenProperties DEF N
  <2>3. ASSUME NEW i \in 1..N
        PROVE  /\ more[i].at = IF i = 1 THEN 1 ELSE After(more[i - 1])
               /\ new[MoviStart + more[i].at + 1] = Tag(more[i].id)
               /\ new[MoviStart + more[i].at + 2] = Num(more[i].size)
    <3>1. /\ index[i].at = IF i = 1 THEN 1 ELSE After(index[i - 1])
          /\ words[MoviStart + index[i].at + 1] = Tag(index[i].id)
          /\ words[MoviStart + index[i].at + 2] = Num(index[i].size)
      BY <2>2 DEF Framed, Tiles
    <3>2. more[i] = index[i] /\ (i # 1 => more[i - 1] = index[i - 1])
      <4>1. i # 1 => i - 1 \in 1..N BY <1>0
      <4> QED BY <1>2, <4>1
    <3>3. MoviStart + index[i].at + 1 \in 1..P /\ MoviStart + index[i].at + 2 \in 1..P
      BY <1>0, <1>8, InEntry
    <3> QED BY <1>3, <3>1, <3>2, <3>3
  <2>4. /\ e.at = IF N + 1 = 1 THEN 1 ELSE After(more[N])
        /\ new[MoviStart + e.at + 1] = Tag(e.id)
        /\ new[MoviStart + e.at + 2] = Num(e.size)
    <3>1. MoviStart + e.at = P BY <1>0, <1>1, <1>9
    <3>2. P = MoviStart + Behind(index) BY DEF Framed, P
    <3>3. CASE N = 0
      <4>1. index = <<>> BY <3>3, EmptySeq DEF N
      <4>2. P = MoviStart + 1 BY <3>2, <4>1 DEF Behind
      <4>3. e.at = 1 BY <1>1, <1>9, <4>2
      <4> QED BY <1>1, <1>3, <3>1, <3>3, <4>3
    <3>4. CASE N # 0
      <4>1. index # <<>> BY <3>4, EmptySeq DEF N
      <4>2. N \in 1..N BY <1>0, <3>4
      <4>3. P = MoviStart + After(index[N]) BY <3>2, <4>1 DEF Behind, N
      <4>4. After(index[N]) \in Nat BY <1>8, <4>2, AfterIs
      <4>5. e.at = After(index[N]) BY <1>1, <1>9, <4>3, <4>4
      <4>6. e.at = After(more[N]) BY <1>2, <4>2, <4>5
      <4>7. N + 1 # 1 BY <1>0, <3>4
      <4> QED BY <1>1, <1>3, <3>1, <4>6, <4>7
    <3> QED BY <3>3, <3>4
  <2>5. \A i \in 1..N + 1 : i \in 1..N \/ i = N + 1 BY <1>0
  <2>6. (N + 1) - 1 = N BY <1>0
  <2>7. ASSUME NEW i \in 1..N + 1
        PROVE  /\ more[i].at = IF i = 1 THEN 1 ELSE After(more[i - 1])
               /\ new[MoviStart + more[i].at + 1] = Tag(more[i].id)
               /\ new[MoviStart + more[i].at + 2] = Num(more[i].size)
    <3>1. CASE i \in 1..N BY <2>3, <3>1
    <3>2. CASE i = N + 1
      <4>1. more[i] = e /\ i - 1 = N BY <1>2, <2>6, <3>2
      <4> QED BY <2>4, <3>2, <4>1
    <3> QED BY <2>5, <3>1, <3>2
  <2> QED BY <2>1, <2>7 DEF Tiles
<1>14. \A i \in 1..N + 1 :
          /\ more[i].at >= 1 /\ MoviStart + After(more[i]) <= Q /\ more[i].size <= larger
  <2>1. ASSUME NEW i \in 1..N
        PROVE  more[i].at >= 1 /\ MoviStart + After(more[i]) <= Q /\ more[i].size <= larger
    <3>1. more[i] = index[i] BY <1>2
    <3>2. After(index[i]) \in Nat /\ index[i].size \in Nat BY <1>8, AfterIs
    <3>3. index[i].at >= 1 /\ MoviStart + After(index[i]) <= P /\ index[i].size <= largest BY <1>8
    <3>4. P <= Q BY <1>0, <1>7, <1>9
    <3>5. MoviStart + After(index[i]) <= Q
      BY <1>0, <1>7, <1>9, <3>2, <3>3, <3>4 DEF MoviStart
    <3>6. index[i].size <= larger BY <3>2, <3>3
    <3> QED BY <3>1, <3>3, <3>5, <3>6
  <2>2. e.at >= 1 /\ MoviStart + After(e) <= Q /\ e.size <= larger
    BY <1>0, <1>1, <1>6, <1>9
  <2>3. \A i \in 1..N + 1 : i \in 1..N \/ i = N + 1 BY <1>0
  <2> QED BY <1>2, <2>1, <2>2, <2>3
<1>15. new[1] = Tag("RIFF") /\ new[MoviStart + 1] = Tag("movi")
  <2>1. 1 \in 1..P /\ MoviStart + 1 \in 1..P BY <1>0, <1>9
  <2> QED BY <1>3, <2>1 DEF Framed
<1>16. Q = MoviStart + Behind(more)
  <2>1. Behind(more) = After(e) BY <1>2 DEF Behind
  <2> QED BY <1>6, <2>1
<1>17. Framed(new, more, larger)
  BY <1>2, <1>13, <1>14, <1>15, <1>16 DEF Framed, Q
<1> QED BY <1>0, <1>1, <1>10, <1>11, <1>12, <1>17 DEF more

(* The movie that is in the file, and counted: its pictures and its sound.   *)
ShotsOf(a) == Kind(a.index, "00dc")
SoundOf(a) == Track(Text(a.file), a.index)
Movie(a) ==
    /\ Avi(a)
    /\ ~a.err =>
         /\ Framed(Text(a.file), a.index, a.largest)
         /\ a.frames = Len(ShotsOf(a)) /\ a.samples = Len(SoundOf(a))
LEMMA MovieIs ==
    ASSUME NEW a, Movie(a), ~a.err
    PROVE  /\ ShotsOf(a) \in Seq(Entry) /\ SoundOf(a) \in Seq(Word)
           /\ Within(Text(a.file), a.index) /\ Position(a.file) >= MoviStart + 1
<1>1. /\ a.index \in Seq(Entry) /\ Text(a.file) \in Seq(Word)
      /\ Len(Text(a.file)) = Position(a.file) /\ Framed(Text(a.file), a.index, a.largest)
  BY AviIs DEF Movie
<1>2. Within(Text(a.file), a.index) /\ Len(Text(a.file)) >= MoviStart + 1
  BY <1>1, FramedIs
<1>3. ShotsOf(a) \in Seq(Entry)
  <2>1. [id |-> "00dc", at |-> 0, size |-> 0] \in Entry BY DEF Entry
  <2> QED BY <1>1, <2>1, KindAppend DEF ShotsOf
<1>4. SoundOf(a) \in Seq(Word)
  <2>1. PICK g : TrackOf(g, Text(a.file), a.index) BY <1>1, <1>2, TrackIs
  <2>2. Len(a.index) \in 0..Len(a.index) BY <1>1, LenProperties
  <2> QED BY <2>1, <2>2 DEF TrackOf, SoundOf
<1> QED BY <1>1, <1>2, <1>3, <1>4

(* A chunk of either kind in the movie.                                      *)
Added(a, b, id, data) ==
    /\ Avi(b) /\ b.frames = a.frames /\ b.samples = a.samples
    /\ ~b.err =>
         /\ ~a.err /\ Framed(Text(b.file), b.index, b.largest)
         /\ \E e \in Entry :
              /\ e.size = Len(data)
              /\ ShotsOf(b) = IF id = "00dc" THEN Append(ShotsOf(a), e) ELSE ShotsOf(a)
         /\ SoundOf(b) = IF id = "01wb" THEN SoundOf(a) \o data ELSE SoundOf(a)
LEMMA AddedIs ==
    ASSUME NEW a, Movie(a), NEW id \in {"00dc", "01wb"}, NEW data \in Seq(Word)
    PROVE  Added(a, Chunk(a, id, data), id, data)
<1> DEFINE b == Chunk(a, id, data)
           words == Text(a.file)
           new == Text(b.file)
           n == Len(data)
           e == [id |-> id, at |-> Position(a.file) - MoviStart, size |-> n]
<1>1. Avi(a) /\ (~a.err => Position(a.file) >= MoviStart)
  <2>1. Avi(a) BY DEF Movie
  <2>2. ~a.err => Position(a.file) >= MoviStart + 1 BY MovieIs
  <2>3. Position(a.file) \in Nat BY <2>1, AviIs
  <2> QED BY <2>1, <2>2, <2>3 DEF MoviStart
<1>2. Chunked(a, b, id, data) BY <1>1, ChunkIs
<1> HIDE DEF b
<1>3. CASE b.err
  BY <1>2, <1>3 DEF Added, Chunked, b
<1>4. CASE ~b.err
  <2>1. /\ Avi(b) /\ b.frames = a.frames /\ b.samples = a.samples /\ ~a.err
        /\ b.index = Append(a.index, e)
        /\ b.largest = IF n > a.largest THEN n ELSE a.largest
        /\ Position(b.file) = Position(a.file) + 2 + Padded(n)
        /\ \A i \in 1..Position(a.file) : new[i] = words[i]
        /\ new[Position(a.file) + 1] = Tag(id) /\ new[Position(a.file) + 2] = Num(n)
        /\ \A i \in 1..n : new[Position(a.file) + 2 + i] = data[i]
    BY <1>2, <1>4 DEF Chunked
  <2>2. /\ a.index \in Seq(Entry) /\ a.largest \in Nat /\ words \in Seq(Word)
        /\ Position(a.file) \in Nat /\ Len(words) = Position(a.file)
    BY <1>1, AviIs
  <2>3. b.largest \in Nat /\ new \in Seq(Word) /\ Len(new) = Position(b.file)
    BY <2>1, AviIs
  <2>4. Framed(words, a.index, a.largest) BY <2>1 DEF Movie
  <2>5. n \in Nat BY LenProperties
  <2>6. b.largest >= n /\ b.largest >= a.largest BY <2>1, <2>2, <2>5
  <2>14. e = [id |-> id, at |-> Len(words) - MoviStart, size |-> n] BY <2>2
  <2> HIDE DEF words, new, e, n
  <2>7. Follow(words, new, id, n) BY <2>1, <2>2, <2>3 DEF Follow
  <2>8. /\ e \in Entry /\ Framed(new, Append(a.index, e), b.largest)
        /\ Within(words, a.index) /\ Within(new, Append(a.index, e)) /\ Within(new, a.index)
        /\ SameData(words, new, a.index)
    BY <2>2, <2>3, <2>4, <2>5, <2>6, <2>7, <2>14, FramedGrows
  <2>9. Framed(new, b.index, b.largest) BY <2>1, <2>8
  <2>10. ShotsOf(b) = IF id = "00dc" THEN Append(ShotsOf(a), e) ELSE ShotsOf(a)
    <3>1. e.id = id BY DEF e
    <3>2. Kind(Append(a.index, e), "00dc") =
            IF e.id = "00dc" THEN Append(Kind(a.index, "00dc"), e) ELSE Kind(a.index, "00dc")
      BY <2>2, <2>8, KindAppend
    <3> QED BY <2>1, <3>1, <3>2 DEF ShotsOf
  <2>11. DataOf(new, e) = data
    <3>1. Len(a.index) \in Nat /\ Len(Append(a.index, e)) = Len(a.index) + 1
          /\ Append(a.index, e)[Len(a.index) + 1] = e
      BY <2>2, <2>8, AppendProperties, LenProperties
    <3>2. MoviStart + e.at + 2 + e.size <= Len(new)
      <4>1. Len(a.index) + 1 \in 1..Len(a.index) + 1 BY <3>1
      <4> QED BY <2>8, <3>1, <4>1 DEF Within
    <3>3. /\ DataOf(new, e) \in Seq(Word) /\ Len(DataOf(new, e)) = e.size
          /\ \A i \in 1..e.size : DataOf(new, e)[i] = new[MoviStart + e.at + 2 + i]
      BY <2>3, <2>8, <3>2, DataIs
    <3>4. e.size = n /\ MoviStart + e.at = Position(a.file)
      <4>1. e.at = Position(a.file) - MoviStart BY DEF e
      <4>2. MoviStart \in Nat BY DEF MoviStart
      <4>3. e.size = n BY DEF e
      <4> QED BY <2>2, <4>1, <4>2, <4>3
    <3>5. \A i \in 1..n : DataOf(new, e)[i] = data[i]
      BY <2>1, <3>3, <3>4
    <3>6. Len(DataOf(new, e)) = Len(data) BY <3>3, <3>4 DEF n
    <3> QED BY <3>3, <3>4, <3>5, <3>6, SeqEqual DEF n
  <2>12. SoundOf(b) = IF id = "01wb" THEN SoundOf(a) \o data ELSE SoundOf(a)
    <3>1. Track(new, a.index) = Track(words, a.index) BY <2>2, <2>3, <2>8, TrackSame
    <3>2. Track(new, Append(a.index, e)) =
            IF e.id = "01wb" THEN Track(new, a.index) \o DataOf(new, e) ELSE Track(new, a.index)
      BY <2>2, <2>3, <2>8, TrackAppend
    <3>3. e.id = id BY DEF e
    <3>4. SoundOf(b) = Track(new, Append(a.index, e)) /\ SoundOf(a) = Track(words, a.index)
      BY <2>1 DEF SoundOf, words, new
    <3> QED BY <2>11, <3>1, <3>2, <3>3, <3>4, Zenon
  <2>13. e.size = Len(data) BY DEF e, n
  <2>15. Framed(Text(b.file), b.index, b.largest) BY <2>9 DEF new
  <2>16. Added(a, b, id, data)
    BY <2>1, <2>8, <2>10, <2>12, <2>13, <2>15 DEF Added
  <2> QED BY <2>16 DEF b
<1>5. b.err \in BOOLEAN BY <1>2, AviIs DEF Chunked
<1> QED BY <1>3, <1>4, <1>5

(* A picture, or the repeat of one, is one more picture and no sound.        *)
Shot(a, c, data) ==
    /\ Movie(c)
    /\ ~c.err =>
         /\ ~a.err /\ SoundOf(c) = SoundOf(a)
         /\ Len(ShotsOf(c)) = Len(ShotsOf(a)) + 1
         /\ \A k \in 1..Len(ShotsOf(a)) : ShotsOf(c)[k] = ShotsOf(a)[k]
         /\ ShotsOf(c)[Len(ShotsOf(a)) + 1].size = Len(data)
LEMMA ShotIs ==
    ASSUME NEW a, Movie(a), NEW data \in Seq(Word)
    PROVE  Shot(a, Counted(Chunk(a, "00dc", data), 1), data)
<1> DEFINE b == Chunk(a, "00dc", data)
           c == Counted(b, 1)
<1>1. Added(a, b, "00dc", data) BY AddedIs
<1> HIDE DEF b
<1>2. /\ Avi(b) /\ b \in Avis /\ b.frames = a.frames /\ b.samples = a.samples /\ b.err \in BOOLEAN
      /\ b.frames \in Nat
  <2>1. Avi(b) /\ b.frames = a.frames /\ b.samples = a.samples BY <1>1 DEF Added
  <2> QED BY <2>1, AviIs DEF Avi
<1>3. CASE b.err
  <2>1. c = b BY <1>3 DEF Counted
  <2>2. Movie(c) BY <1>2, <1>3, <2>1 DEF Movie
  <2> QED BY <1>3, <2>1, <2>2 DEF Shot, b
<1>4. CASE ~b.err
  <2>1. c = [b EXCEPT !.frames = @ + 1] BY <1>4 DEF Counted
  <2>2. /\ c \in Avis /\ c.file = b.file /\ c.err = b.err /\ c.index = b.index
        /\ c.largest = b.largest /\ c.samples = b.samples /\ c.frames = b.frames + 1
    BY <1>2, <2>1 DEF Avis
  <2> HIDE DEF c
  <2>3. Avi(c) BY <1>2, <2>2 DEF Avi
  <2>4. /\ ~a.err /\ Framed(Text(c.file), c.index, c.largest) /\ SoundOf(c) = SoundOf(a)
        /\ \E e \in Entry : e.size = Len(data) /\ ShotsOf(c) = Append(ShotsOf(a), e)
    BY <1>1, <1>4, <2>2 DEF Added, ShotsOf, SoundOf
  <2>5. PICK e \in Entry : e.size = Len(data) /\ ShotsOf(c) = Append(ShotsOf(a), e)
    BY <2>4
  <2>6. ShotsOf(a) \in Seq(Entry) BY <2>4, MovieIs
  <2>7. /\ Len(ShotsOf(c)) = Len(ShotsOf(a)) + 1
        /\ \A k \in 1..Len(ShotsOf(a)) : ShotsOf(c)[k] = ShotsOf(a)[k]
        /\ ShotsOf(c)[Len(ShotsOf(a)) + 1] = e
    BY <2>5, <2>6, AppendProperties
  <2>8. a.frames = Len(ShotsOf(a)) /\ a.samples = Len(SoundOf(a)) BY <2>4 DEF Movie
  <2>9. c.frames = Len(ShotsOf(c)) /\ c.samples = Len(SoundOf(c))
    BY <1>2, <2>2, <2>4, <2>7, <2>8
  <2>10. Movie(c) BY <2>3, <2>4, <2>9 DEF Movie
  <2>11. Shot(a, c, data) BY <2>4, <2>5, <2>7, <2>10 DEF Shot
  <2> QED BY <2>11 DEF c, b
<1> QED BY <1>2, <1>3, <1>4

(* A slot of sound is put behind the sound, and is no picture.               *)
Sounds(a, c, data) ==
    /\ Movie(c)
    /\ ~c.err => ~a.err /\ SoundOf(c) = SoundOf(a) \o data /\ ShotsOf(c) = ShotsOf(a)
LEMMA SoundsIs ==
    ASSUME NEW a, Movie(a), NEW data \in Seq(Word)
    PROVE  Sounds(a, Audio(a, data), data)
<1> DEFINE b == Chunk(a, "01wb", data)
           c == Audio(a, data)
<1>1. Added(a, b, "01wb", data) BY AddedIs
<1>5. c = IF b.err THEN b ELSE [b EXCEPT !.samples = @ + Len(data)] BY DEF Audio
<1> HIDE DEF b, c
<1>2. /\ Avi(b) /\ b \in Avis /\ b.frames = a.frames /\ b.samples = a.samples /\ b.err \in BOOLEAN
      /\ b.samples \in Nat
  <2>1. Avi(b) /\ b.frames = a.frames /\ b.samples = a.samples BY <1>1 DEF Added
  <2> QED BY <2>1, AviIs DEF Avi
<1>3. CASE b.err
  <2>1. c = b BY <1>3, <1>5
  <2>2. Movie(c) BY <1>2, <1>3, <2>1 DEF Movie
  <2> QED BY <1>3, <2>1, <2>2 DEF Sounds, c
<1>4. CASE ~b.err
  <2> DEFINE n == Len(data)
  <2>0. n \in Nat BY LenProperties
  <2>1. c = [b EXCEPT !.samples = @ + n] BY <1>4, <1>5
  <2> HIDE DEF n
  <2>2. /\ c \in Avis /\ c.file = b.file /\ c.err = b.err /\ c.index = b.index
        /\ c.largest = b.largest /\ c.samples = b.samples + n /\ c.frames = b.frames
    BY <1>2, <2>0, <2>1 DEF Avis
  <2>3. Avi(c) BY <1>2, <2>2 DEF Avi
  <2>4. /\ ~a.err /\ Framed(Text(c.file), c.index, c.largest) /\ SoundOf(c) = SoundOf(a) \o data
        /\ ShotsOf(c) = ShotsOf(a)
    BY <1>1, <1>4, <2>2 DEF Added, ShotsOf, SoundOf
  <2>6. SoundOf(a) \in Seq(Word) BY <2>4, MovieIs
  <2>7. Joins(SoundOf(a) \o data, SoundOf(a), data) BY <2>6, Concat
  <2>8. a.frames = Len(ShotsOf(a)) /\ a.samples = Len(SoundOf(a)) BY <2>4 DEF Movie
  <2>9. Len(SoundOf(c)) = Len(SoundOf(a)) + n BY <2>4, <2>7 DEF Joins, n
  <2>10. c.frames = Len(ShotsOf(c)) /\ c.samples = Len(SoundOf(c))
    BY <1>2, <2>2, <2>4, <2>8, <2>9
  <2>11. Movie(c) BY <2>3, <2>4, <2>10 DEF Movie
  <2>12. Sounds(a, c, data) BY <2>4, <2>11 DEF Sounds
  <2> QED BY <2>12 DEF c
<1> QED BY <1>2, <1>3, <1>4

(* The header, in a file that may hold an old recording.                     *)
LEMMA NewAviIs ==
    ASSUME NEW old \in Seq(Word), NEW space \in Nat
    PROVE  /\ Movie(NewAvi(old, space))
           /\ ~NewAvi(old, space).err =>
                ShotsOf(NewAvi(old, space)) = <<>> /\ SoundOf(NewAvi(old, space)) = <<>>
<1> DEFINE f == NewFile(old, space)
           a == [file |-> f, index |-> <<>>, frames |-> 0, samples |-> 0, largest |-> 0,
                 err |-> FALSE]
           b == NewAvi(old, space)
<1>1. /\ f \in Files /\ f.flushed = 0 /\ f.buf = <<>> /\ f.disk = old /\ f.failed = FALSE
  <2>1. <<>> \in Seq(Word) BY EmptySeq
  <2> QED BY <2>1 DEF NewFile, Files
<1>2. File(f)
  <2>1. Len(old) \in Nat BY LenProperties
  <2> QED BY <1>1, <2>1 DEF File
<1>12. b = Put(a, Header) BY DEF NewAvi, Muxer
<1> HIDE DEF f, b
<1>3. a \in Avis /\ a.file = f /\ a.err = FALSE
  <2>1. <<>> \in Seq(Entry) BY EmptySeq
  <2> QED BY <1>1, <2>1 DEF Avis
<1>4. a.index = <<>> /\ a.frames = 0 /\ a.samples = 0 /\ a.largest = 0
  OBVIOUS
<1> HIDE DEF a
<1>5. Avi(a) BY <1>1, <1>2, <1>3 DEF Avi
<1>6. /\ Header \in Seq(Word) /\ Len(Header) = 10
      /\ Header[1] = Tag("RIFF") /\ Header[10] = Tag("movi")
  <2>1. /\ Tag("RIFF") \in Word /\ Tag("AVI ") \in Word /\ Tag("LIST") \in Word
        /\ Tag("movi") \in Word /\ Num(0) \in Word
    BY WordIs DEF Ids
  <2> DEFINE r == Tag("RIFF")
             v == Tag("AVI ")
             l == Tag("LIST")
             m == Tag("movi")
             z == Num(0)
  <2>2. Header = <<r, z, v, z, z, z, z, l, z, m>> BY DEF Header
  <2>3. r \in Word /\ v \in Word /\ l \in Word /\ m \in Word /\ z \in Word BY <2>1
  <2> HIDE DEF r, v, l, m, z
  <2>4. <<r, z, v, z, z, z, z, l, z, m>> \in Seq(Word) BY <2>3
  <2>5. Len(<<r, z, v, z, z, z, z, l, z, m>>) = 10 OBVIOUS
  <2>6. <<r, z, v, z, z, z, z, l, z, m>>[1] = r OBVIOUS
  <2>7. <<r, z, v, z, z, z, z, l, z, m>>[10] = m OBVIOUS
  <2> QED BY <2>2, <2>4, <2>5, <2>6, <2>7 DEF r, m
<1>7. Grows(a, b, Header) BY <1>5, <1>6, <1>12, PutIs
<1>8. Avi(b) /\ b.index = <<>> /\ b.frames = 0 /\ b.samples = 0 /\ b.largest = 0
  BY <1>4, <1>7 DEF Grows, Same
<1>9. b.err \in BOOLEAN BY <1>8, AviIs
<1>10. CASE ~b.err
  <2>1. Text(b.file) = Text(f) \o Header BY <1>3, <1>7, <1>10 DEF Grows, Settles
  <2>2. Text(f) = <<>>
    <3>1. Text(f) \in Seq(Word) /\ Len(Text(f)) = Position(f) BY <1>2, TextIs
    <3>2. Position(f) = 0 BY <1>1, EmptySeq DEF Position
    <3> QED BY <3>1, <3>2, EmptySeq
  <2>3. Text(b.file) = Header BY <1>6, <2>1, <2>2, ConcatEmptySeq
  <2>4. Len(<<>>) = 0 /\ <<>> \in Seq(Entry) BY EmptySeq
  <2>5. DOMAIN b.index = {} BY <1>8
  <2>6. Framed(Text(b.file), b.index, b.largest)
    <3>1. Tiles(Header, <<>>) BY DEF Tiles
    <3>2. 1 \in Nat /\ \A i \in 1..Len(<<>>) : FALSE BY <2>4
    <3>3. Behind(<<>>) = 1 BY DEF Behind
    <3>4. Framed(Header, <<>>, 0) BY <1>6, <3>1, <3>2, <3>3 DEF Framed, MoviStart
    <3> QED BY <1>8, <2>3, <3>4
  <2>7. ShotsOf(b) = <<>> BY <1>8, KindEmpty DEF ShotsOf
  <2>8. SoundOf(b) = <<>> BY <1>6, <1>8, <2>3, TrackEmpty DEF SoundOf
  <2>9. Len(ShotsOf(b)) = 0 /\ Len(SoundOf(b)) = 0 BY <2>4, <2>7, <2>8
  <2>10. Movie(b) BY <1>8, <2>6, <2>9 DEF Movie
  <2> QED BY <2>7, <2>8, <2>10 DEF b
<1>11. CASE b.err
  <2>1. Movie(b) BY <1>8, <1>11 DEF Movie
  <2> QED BY <1>11, <2>1 DEF b
<1> QED BY <1>9, <1>10, <1>11
-----------------------------------------------------------------------------
(* Rates: what is lost in the divisions.                                     *)
LEMMA Times ==
    ASSUME NEW m \in Int, NEW n \in Int, NEW p \in Nat, m <= n
    PROVE  m * p <= n * p
  OBVIOUS
LEMMA Divided ==
    ASSUME NEW n \in Nat, NEW d \in Nat \ {0}
    PROVE  n \div d \in Nat /\ (n \div d) * d <= n /\ n < (n \div d) * d + d
  OBVIOUS
LEMMA Less ==
    ASSUME NEW m \in Int, NEW n \in Int, NEW p \in Nat \ {0}, m * p < n * p
    PROVE  m < n
<1> SUFFICES ASSUME n <= m PROVE FALSE
  OBVIOUS
<1>1. n * p <= m * p BY Times
<1> QED BY <1>1
(* The division of C, which truncates, is less than one off.                 *)
LEMMA QuotientIs ==
    ASSUME NEW m \in Int, NEW n \in Nat \ {0}
    PROVE  /\ Quotient(m, n) \in Int /\ (m >= 0 => Quotient(m, n) \in Nat)
           /\ m - Quotient(m, n) * n < n /\ Quotient(m, n) * n - m < n
           /\ (m >= 0 => Quotient(m, n) * n <= m)
<1>1. CASE m >= 0
  <2>1. m \in Nat BY <1>1
  <2>2. m \div n \in Nat /\ (m \div n) * n <= m /\ m < (m \div n) * n + n BY <2>1, Divided
  <2>3. Quotient(m, n) = m \div n BY <1>1 DEF Quotient
  <2> DEFINE q == m \div n
  <2> HIDE DEF q
  <2>4. q \in Nat /\ q * n <= m /\ m < q * n + n BY <2>2 DEF q
  <2>5. m - q * n < n /\ q * n - m < n BY <2>4
  <2> QED BY <2>3, <2>4, <2>5 DEF q
<1>2. CASE ~(m >= 0)
  <2> DEFINE p == -m
             q == p \div n
  <2>1. p \in Nat BY <1>2
  <2>2. q \in Nat /\ q * n <= p /\ p < q * n + n BY <2>1, Divided
  <2>3. Quotient(m, n) = -q BY <1>2 DEF Quotient
  <2>4. m = -p OBVIOUS
  <2> HIDE DEF p, q
  <2>5. (-q) * n = -(q * n) BY <2>2
  <2>6. -q \in Int /\ m - (-q) * n < n /\ (-q) * n - m < n BY <2>1, <2>2, <2>4, <2>5
  <2> QED BY <1>2, <2>3, <2>6
<1> QED BY <1>1, <1>2

(* S ticks in a second, R samples, f frames of I ticks with m ticks over; the *)
(* sound began d ticks before the slot k, from where b samples of it had been *)
(* played.  Sample t of the slot is sample E + t of the track.               *)
LEMMA Apart ==
    ASSUME NEW S \in Nat \ {0}, NEW R \in Nat \ {0}, NEW f \in Nat \ {0}, f <= R,
           NEW I \in Nat, NEW m \in Nat, m < f, S = f * I + m,
           NEW k \in Nat, NEW t \in Nat, NEW d \in Int, NEW b \in Int,
           d * R - b * S < S, b * S - d * R < S,
           NEW E \in Nat, E * f <= k * R, k * R < E * f + f,
           NEW hx \in Nat, hx * R <= (b + t) * S, (b + t) * S < hx * R + R,
           NEW hy \in Nat, hy * R <= (E + t) * S, (E + t) * S < hy * R + R,
           NEW c \in Nat, c * R >= S,
           NEW K \in Nat, (E + t) * f < K * R + R,
           NEW q \in Nat, (K + 1) * m < q * f + f
    PROVE  /\ k * I - d + hx - hy <= 2 * c + q + 1
           /\ -(k * I - d + hx - hy) <= 2 * c + q + 1
<1> DEFINE apart == k * I - d + hx - hy
<1>1. apart \in Int /\ apart * R = (k * I) * R - d * R + hx * R - hy * R
  OBVIOUS
<1> HIDE DEF apart
<1>2. (b + t) * S = b * S + t * S /\ (E + t) * S = E * S + t * S
  OBVIOUS
<1>3. /\ apart * R < (k * I) * R - E * S + S + R
      /\ apart * R > (k * I) * R - E * S - S - R
  <2> DEFINE dR == d * R
             bS == b * S
             tS == t * S
             ES == E * S
             hxR == hx * R
             hyR == hy * R
             kIR == (k * I) * R
             aR == apart * R
  <2>1. /\ dR \in Int /\ bS \in Int /\ tS \in Int /\ ES \in Int /\ hxR \in Int /\ hyR \in Int
        /\ kIR \in Int /\ aR \in Int
    BY <1>1
  <2>2. /\ dR - bS < S /\ bS - dR < S
        /\ hxR <= bS + tS /\ bS + tS < hxR + R
        /\ hyR <= ES + tS /\ ES + tS < hyR + R
        /\ aR = kIR - dR + hxR - hyR
    BY <1>1, <1>2
  <2> HIDE DEF dR, bS, tS, ES, hxR, hyR, kIR, aR
  <2>3. aR < kIR - ES + S + R /\ aR > kIR - ES - S - R
    BY <2>1, <2>2
  <2> QED BY <2>3 DEF aR, kIR, ES
<1>4. E * S = (E * f) * I + E * m
  <2>1. E * S = E * (f * I + m) OBVIOUS
  <2>2. E * (f * I + m) = E * (f * I) + E * m OBVIOUS
  <2>3. E * (f * I) = (E * f) * I OBVIOUS
  <2> QED BY <2>1, <2>2, <2>3
<1>5. (k * I) * R = (k * R) * I
  OBVIOUS
<1>6. (E * f) * I <= (k * R) * I /\ (k * R) * I <= (E * f + f) * I
  <2>1. E * f \in Int /\ k * R \in Int /\ E * f + f \in Int /\ k * R <= E * f + f OBVIOUS
  <2> QED BY <2>1, Times
<1>7. (E * f + f) * I = (E * f) * I + f * I
  OBVIOUS
<1>8. E * m \in Nat /\ f * I \in Nat /\ f * I <= S
  <2>1. E * m \in Nat /\ f * I \in Nat OBVIOUS
  <2> HIDE DEF apart
  <2> QED BY <2>1
<1>9. c * R \in Nat /\ (2 * c + 1) * R = 2 * (c * R) + R
  OBVIOUS
<1>10. apart < 2 * c + 1
  <2> DEFINE x == (k * R) * I
             y == (E * f) * I
             z == E * m
             v == f * I
             w == c * R
             aR == apart * R
             ES == E * S
  <2>1. x \in Int /\ y \in Int /\ z \in Nat /\ v \in Nat /\ w \in Nat /\ aR \in Int /\ ES \in Int
    BY <1>1, <1>8, <1>9
  <2>2. /\ aR < x - ES + S + R /\ ES = y + z /\ x <= y + v /\ v <= S /\ w >= S
        /\ (2 * c + 1) * R = 2 * w + R
    BY <1>3, <1>4, <1>5, <1>6, <1>7, <1>8, <1>9
  <2>3. aR < 2 * w + R
    <3> HIDE DEF x, y, z, v, w, aR, ES
    <3> QED BY <2>1, <2>2
  <2>4. apart * R < (2 * c + 1) * R BY <2>2, <2>3
  <2>5. 2 * c + 1 \in Int OBVIOUS
  <2> HIDE DEF x, y, z, v, w, aR, ES
  <2> QED BY <1>1, <2>4, <2>5, Less
<1>11. k <= K + 1
  <2>1. (E + t) * f = E * f + t * f /\ t * f \in Nat /\ E * f \in Nat /\ k * R \in Nat
    OBVIOUS
  <2>2. k * R < K * R + R + f
    <3> DEFINE Ef == E * f
               tf == t * f
               kR == k * R
               KR == K * R
    <3>1. Ef + tf < KR + R /\ kR < Ef + f /\ Ef \in Nat /\ tf \in Nat /\ kR \in Nat /\ KR \in Nat
      BY <2>1
    <3>2. kR < KR + R + f
      <4> HIDE DEF Ef, tf, kR, KR
      <4> QED BY <3>1
    <3> QED BY <3>2
  <2>3. (K + 2) * R = K * R + R + R OBVIOUS
  <2>4. k * R < (K + 2) * R
    <3> DEFINE kR == k * R
               KR == K * R
               KR2 == (K + 2) * R
    <3>1. kR \in Nat /\ KR \in Nat /\ kR < KR + R + f /\ KR2 = KR + R + R BY <2>2, <2>3
    <3>2. kR < KR2
      <4> HIDE DEF kR, KR, KR2
      <4> QED BY <3>1
    <3> QED BY <3>2
  <2>5. k < K + 2 BY <2>4, Less
  <2> QED BY <2>5
<1>12. E * m < (q + 1) * R
  <2>1. k * m <= (K + 1) * m BY <1>11, Times
  <2>2. k * m < (q + 1) * f
    <3> DEFINE km == k * m
               Km == (K + 1) * m
               qf == q * f
    <3>1. km \in Nat /\ Km \in Nat /\ qf \in Nat /\ km <= Km /\ Km < qf + f BY <2>1
    <3>2. km < qf + f
      <4> HIDE DEF km, Km, qf
      <4> QED BY <3>1
    <3>3. (q + 1) * f = qf + f OBVIOUS
    <3> QED BY <3>2, <3>3
  <2>3. (E * f) * m <= (k * R) * m
    <3>1. E * f \in Int /\ k * R \in Int /\ E * f <= k * R OBVIOUS
    <3> QED BY <3>1, Times
  <2>4. (k * m) * R < ((q + 1) * f) * R
    <3> DEFINE km == k * m
               qf == (q + 1) * f
    <3>1. km \in Nat /\ qf \in Nat /\ km + 1 <= qf /\ km + 1 \in Int BY <2>2
    <3> HIDE DEF km, qf
    <3>2. (km + 1) * R <= qf * R BY <3>1, Times
    <3>3. (km + 1) * R = km * R + R /\ km * R \in Nat /\ qf * R \in Nat BY <3>1
    <3>4. km * R < qf * R BY <3>2, <3>3
    <3> QED BY <3>4 DEF km, qf
  <2>5. (E * f) * m = (E * m) * f /\ (k * R) * m = (k * m) * R
        /\ ((q + 1) * f) * R = ((q + 1) * R) * f
    OBVIOUS
  <2>6. (E * m) * f < ((q + 1) * R) * f
    <3> DEFINE x == (E * f) * m
               y == (k * R) * m
               z == ((q + 1) * f) * R
    <3>1. x \in Nat /\ y \in Nat /\ z \in Nat /\ x <= y /\ y < z BY <2>3, <2>4, <2>5
    <3>2. x < z
      <4> HIDE DEF x, y, z
      <4> QED BY <3>1
    <3> QED BY <2>5, <3>2
  <2>7. E * m \in Int /\ (q + 1) * R \in Int OBVIOUS
  <2> QED BY <2>6, <2>7, Less
<1>13. -apart < c + q + 2
  <2> DEFINE x == (k * R) * I
             y == (E * f) * I
             z == E * m
             w == c * R
             p == (q + 1) * R
             aR == apart * R
             ES == E * S
  <2>1. x \in Int /\ y \in Int /\ z \in Nat /\ w \in Nat /\ p \in Nat /\ aR \in Int /\ ES \in Int
    BY <1>1, <1>8, <1>9
  <2>2. aR > x - ES - S - R /\ ES = y + z /\ y <= x /\ w >= S /\ z < p
    BY <1>3, <1>4, <1>5, <1>6, <1>12
  <2>3. -aR < p + w + R
    <3> HIDE DEF x, y, z, w, p, aR, ES
    <3> QED BY <2>1, <2>2
  <2>4. (-apart) * R = -aR /\ (c + q + 2) * R = p + w + R
    BY <1>1
  <2>5. (-apart) * R < (c + q + 2) * R BY <2>3, <2>4
  <2>6. -apart \in Int /\ c + q + 2 \in Int BY <1>1
  <2> HIDE DEF x, y, z, w, p, aR, ES
  <2> QED BY <2>5, <2>6, Less
<1>14. apart <= 2 * c + q + 1 /\ -apart <= 2 * c + q + 1
  BY <1>1, <1>10, <1>13
<1> QED BY <1>14 DEF apart

(* A slot that the sound covers, of n samples, ends before the sound does.    *)
LEMMA Covers ==
    ASSUME NEW S \in Nat \ {0}, NEW R \in Nat \ {0}, NEW f \in Nat \ {0},
           NEW I \in Nat, NEW m \in Nat, m < f, S = f * I + m,
           NEW k \in Nat, NEW E \in Nat, E * f <= k * R, k * R < E * f + f,
           NEW F \in Nat, F * f <= (k + 1) * R,
           NEW d \in Nat, NEW b \in Nat, b * S <= d * R,
           NEW A \in Nat, NEW L \in Nat, L * R <= A * S,
           NEW c \in Nat, d + I + c < L
    PROVE  b + (F - E) - 1 < A
<1> DEFINE n == F - E - 1
<1>1. n \in Int OBVIOUS
<1>2. n * f < R
  <2>1. n * f = F * f - E * f - f /\ (k + 1) * R = k * R + R OBVIOUS
  <2>2. F * f \in Nat /\ E * f \in Nat /\ k * R \in Nat OBVIOUS
  <2> HIDE DEF n
  <2> QED BY <1>1, <2>1, <2>2
<1> HIDE DEF n
<1>3. (n * f) * S <= (R - 1) * S
  <2>1. n * f \in Int /\ R - 1 \in Int /\ n * f <= R - 1 BY <1>1, <1>2
  <2> QED BY <2>1, Times
<1>4. (d + I + 1) * R <= A * S
  <2>1. (d + I + 1) * R <= L * R
    <3>1. d + I + 1 \in Int /\ d + I + 1 <= L OBVIOUS
    <3> QED BY <3>1, Times
  <2>2. (d + I + 1) * R \in Int /\ L * R \in Int /\ A * S \in Int OBVIOUS
  <2> QED BY <2>1, <2>2
<1>5. ((d + I + 1) * R) * f <= (A * S) * f
  <2>1. (d + I + 1) * R \in Int /\ A * S \in Int OBVIOUS
  <2> QED BY <1>4, <2>1, Times
<1>6. (b * S) * f <= (d * R) * f
  <2>1. b * S \in Int /\ d * R \in Int OBVIOUS
  <2> QED BY <2>1, Times
<1>7. m * R <= f * R
  BY Times
<1>8. ((d + I + 1) * R) * f = (d * R) * f + (f * I) * R + f * R
  OBVIOUS
<1>9. (f * I) * R = S * R - m * R
  <2>1. f * I = S - m OBVIOUS
  <2>2. (S - m) * R = S * R - m * R OBVIOUS
  <2> QED BY <2>1, <2>2
<1>10. ((b + n) * S) * f = (b * S) * f + (n * f) * S
  BY <1>1
<1>11. (R - 1) * S = S * R - S
  OBVIOUS
<1>12. ((b + n) * S) * f < (A * S) * f
  <2> DEFINE x == ((b + n) * S) * f
             y == (A * S) * f
             u == (b * S) * f
             v == (n * f) * S
             w == (d * R) * f
             mR == m * R
             fR == f * R
             SR == S * R
  <2>1. /\ x \in Int /\ y \in Int /\ u \in Int /\ v \in Int /\ w \in Int /\ mR \in Int
        /\ fR \in Int /\ SR \in Int
    BY <1>1
  <2>2. /\ x = u + v /\ v <= SR - S /\ u <= w /\ w + (SR - mR) + fR <= y /\ mR <= fR
    BY <1>3, <1>5, <1>6, <1>7, <1>8, <1>9, <1>10, <1>11
  <2>3. x < y
    <3> HIDE DEF x, y, u, v, w, mR, fR, SR
    <3> QED BY <2>1, <2>2
  <2> QED BY <2>3
<1>13. (b + n) * S < A * S
  <2>1. (b + n) * S \in Int /\ A * S \in Int BY <1>1
  <2> QED BY <1>12, <2>1, Less
<1>14. b + n \in Int BY <1>1
<1>15. b + n < A BY <1>13, <1>14, Less
<1> QED BY <1>15 DEF n
-----------------------------------------------------------------------------
(* The samples of a slot.                                                    *)
Rated(r) == r.fps \in FpsMin..FpsMax /\ r.start \in Nat
Taps == [set : BOOLEAN, samples : Nat, started : BOOLEAN, start : Nat]
Plays == {None} \cup [from : Nat, to : Nat \cup {None}]
Tuned ==
    /\ tap \in Taps /\ played \in Plays
    /\ Tapped => played # None /\ tap.start = played.from
    /\ played # None =>
         \/ played.to = None /\ Tapped = (Active > 0) /\ tap.samples = Active
            /\ tap.start = played.from
         \/ played.to \in Nat /\ played.to <= now
LEMMA RatesAre ==
    ASSUME NEW r, Rated(r)
    PROVE  /\ r.fps \in Nat \ {0} /\ r.fps <= Rate /\ r.fps <= Second
           /\ Rate \in Nat \ {0} /\ Second \in Nat \ {0}
           /\ Interval(r) \in Nat \ {0} /\ Second % r.fps \in Nat /\ Second % r.fps < r.fps
           /\ Second = r.fps * Interval(r) + (Second % r.fps)
<1> DEFINE f == r.fps
<1>1. /\ Rate \in Nat \ {0} /\ Second \in Nat \ {0} /\ FpsMin \in Nat \ {0} /\ FpsMax \in Nat \ {0}
      /\ FpsMax <= Rate /\ FpsMax <= Second
  BY RecorderAssumption
<1>2. f \in FpsMin..FpsMax BY DEF Rated
<1> HIDE DEF f
<1>3. f \in Nat \ {0} /\ f <= Rate /\ f <= Second BY <1>1, <1>2
<1>4. /\ Second \div f \in Nat /\ Second % f \in Nat /\ Second % f < f
      /\ Second = f * (Second \div f) + (Second % f)
  BY <1>1, <1>3
<1>5. Second \div f # 0
  <2> DEFINE q == Second \div f
  <2>1. q = 0 => f * q = 0 BY <1>3
  <2> HIDE DEF q
  <2> QED BY <1>1, <1>3, <1>4, <2>1 DEF q
<1> QED BY <1>1, <1>3, <1>4, <1>5 DEF f, Interval

(* The sample at which a slot begins, by its two inequalities.               *)
LEMMA EdgeIs ==
    ASSUME NEW r, Rated(r), NEW k \in Nat
    PROVE  /\ Edge(r, k) \in Nat /\ Edge(r, k) * r.fps <= k * Rate
           /\ k * Rate < Edge(r, k) * r.fps + r.fps
<1>1. r.fps \in Nat \ {0} /\ Rate \in Nat BY RatesAre
<1>2. k * Rate \in Nat BY <1>1
<1> DEFINE f == r.fps
           n == k * Rate
<1> HIDE DEF f, n
<1>3. n \div f \in Nat /\ (n \div f) * f <= n /\ n < (n \div f) * f + f
  BY <1>1, <1>2, Divided DEF f, n
<1> QED BY <1>3 DEF f, n, Edge

(* The slots follow each other without a gap in the sound.                   *)
LEMMA EdgesRise ==
    ASSUME NEW r, Rated(r), NEW k \in Nat, NEW l \in Nat, k <= l
    PROVE  Edge(r, k) <= Edge(r, l)
<1> DEFINE E == Edge(r, k)
           F == Edge(r, l)
           f == r.fps
<1>1. f \in Nat \ {0} /\ Rate \in Nat BY RatesAre
<1>2. E \in Nat /\ E * f <= k * Rate BY EdgeIs
<1>3. F \in Nat /\ l * Rate < F * f + f BY EdgeIs
<1>4. k * Rate <= l * Rate BY <1>1, Times
<1> HIDE DEF E, F, f
<1>5. E * f < (F + 1) * f
  <2>1. (F + 1) * f = F * f + f BY <1>1, <1>3
  <2>2. E * f \in Nat /\ F * f \in Nat /\ k * Rate \in Nat /\ l * Rate \in Nat BY <1>1, <1>2, <1>3
  <2> DEFINE a == E * f
             b == F * f
             c == k * Rate
             d == l * Rate
  <2>3. a <= c /\ c <= d /\ d < b + f BY <1>2, <1>3, <1>4
  <2>4. a \in Nat /\ b \in Nat /\ c \in Nat /\ d \in Nat BY <2>2
  <2>5. a < b + f
    <3> HIDE DEF a, b, c, d
    <3> QED BY <1>1, <2>3, <2>4
  <2> QED BY <2>1, <2>5
<1>6. E < F + 1 BY <1>1, <1>2, <1>3, <1>5, Less
<1>7. E <= F BY <1>2, <1>3, <1>6
<1> QED BY <1>7 DEF E, F

(* The samples of a slot: each is silence or one of the tap.                 *)
Base(r, k) == Quotient((r.start + k * Interval(r) - tap.start) * Rate, Second)
LEMMA SlotSamplesIs ==
    ASSUME NEW r, Rated(r), NEW k \in Nat, tap \in Taps
    PROVE  /\ SlotSamples(r, k) \in Seq(Word)
           /\ Len(SlotSamples(r, k)) = Edge(r, k + 1) - Edge(r, k)
           /\ Len(SlotSamples(r, k)) \in Nat
           /\ Base(r, k) \in Int
           /\ \A i \in 1..Len(SlotSamples(r, k)) :
                SlotSamples(r, k)[i] =
                  IF Tapped /\ Base(r, k) + i - 1 \in 0..(tap.samples - 1)
                  THEN <<"pcm", Base(r, k) + i - 1>> ELSE Silence
<1> DEFINE n == Edge(r, k + 1) - Edge(r, k)
           base == Base(r, k)
           s == [i \in 1..n |-> IF Tapped /\ base + i - 1 \in 0..(tap.samples - 1)
                                THEN <<"pcm", base + i - 1>> ELSE Silence]
<1>1. n \in Nat
  <2>1. Edge(r, k) \in Nat /\ Edge(r, k + 1) \in Nat /\ Edge(r, k) <= Edge(r, k + 1)
    BY EdgeIs, EdgesRise
  <2> QED BY <2>1
<1>2. SlotSamples(r, k) = s BY DEF SlotSamples, Base
<1>3. base \in Int
  <2>1. /\ r.start \in Nat /\ Interval(r) \in Nat /\ Rate \in Nat /\ Second \in Nat \ {0}
        /\ tap.start \in Nat
    BY RatesAre DEF Rated, Taps
  <2>2. (r.start + k * Interval(r) - tap.start) * Rate \in Int
    <3>1. k * Interval(r) \in Nat BY <2>1
    <3>2. r.start + k * Interval(r) - tap.start \in Int BY <2>1, <3>1
    <3> QED BY <2>1, <3>2
  <2> QED BY <2>1, <2>2, QuotientIs DEF Base
<1> HIDE DEF n, base
<1>4. \A i \in 1..n : s[i] \in Word
  <2>1. ASSUME NEW i \in 1..n PROVE s[i] \in Word
    <3>1. base + i - 1 \in Int BY <1>1, <1>3
    <3>2. <<"pcm", base + i - 1>> \in Word /\ Silence \in Word BY <3>1, WordIs
    <3> QED BY <3>2
  <2> QED BY <2>1
<1>5. s \in Seq(Word) /\ Len(s) = n
  <2>1. s = [i \in 1..n |-> s[i]] OBVIOUS
  <2>2. s \in [1..n -> Word]
    <3> HIDE DEF s
    <3> QED BY <1>4, <2>1
  <2>3. DOMAIN s = 1..n OBVIOUS
  <2> HIDE DEF s
  <2> QED BY <1>1, <2>2, <2>3
<1>6. \A i \in 1..n : s[i] = IF Tapped /\ base + i - 1 \in 0..(tap.samples - 1)
                            THEN <<"pcm", base + i - 1>> ELSE Silence
  OBVIOUS
<1> HIDE DEF s
<1> QED BY <1>1, <1>2, <1>3, <1>5, <1>6 DEF n, base

(* A sample that is recorded stands where it was heard.                      *)
LEMMA SlotInPlace ==
    ASSUME NEW r, Rated(r), NEW k \in Nat, Tuned, Tapped, NEW t \in Nat, Base(r, k) + t \in Nat
    PROVE  /\ -Slack(r, Edge(r, k) + t) <= Heard(Base(r, k) + t) - Recorded(r, Edge(r, k) + t)
           /\ Heard(Base(r, k) + t) - Recorded(r, Edge(r, k) + t) <= Slack(r, Edge(r, k) + t)
<1> DEFINE S == Second
           R == Rate
           f == r.fps
           I == Interval(r)
           m == Second % r.fps
           g == tap.start
           d == r.start + k * I - g
           b == Base(r, k)
           E == Edge(r, k)
           x == b + t
           y == E + t
           hx == (x * S) \div R
           hy == (y * S) \div R
           c == SampleTicks
           K == (y * f) \div R
           q == ((K + 1) * m) \div f
<1>1. /\ S \in Nat \ {0} /\ R \in Nat \ {0} /\ f \in Nat \ {0} /\ f <= R /\ I \in Nat
      /\ m \in Nat /\ m < f /\ S = f * I + m
  BY RatesAre
<1>2. r.start \in Nat /\ g \in Nat /\ played # None /\ g = played.from
  BY DEF Rated, Tuned, Taps
<1>3. k * I \in Nat /\ d \in Int
  <2>1. k * I \in Nat BY <1>1
  <2> HIDE DEF I
  <2> QED BY <1>2, <2>1
<1>4. E \in Nat /\ E * f <= k * R /\ k * R < E * f + f BY EdgeIs
<1>5. b \in Int /\ d * R - b * S < S /\ b * S - d * R < S
  <2>1. d * R \in Int
    <3> HIDE DEF d
    <3> QED BY <1>1, <1>3
  <2>2. b = Quotient(d * R, S) BY DEF Base
  <2> HIDE DEF d, b, R, S
  <2> QED BY <1>1, <2>1, <2>2, QuotientIs
<1>6. x \in Nat /\ y \in Nat
  <2> HIDE DEF b, E
  <2> QED BY <1>4 DEF b
<1> HIDE DEF S, R, f, I, m, g, d, b, E
<1>7. x * S \in Nat /\ y * S \in Nat /\ y * f \in Nat
  <2> HIDE DEF x, y
  <2> QED BY <1>1, <1>6
<1>8. hx \in Nat /\ hx * R <= x * S /\ x * S < hx * R + R
  <2> DEFINE n == x * S
  <2> HIDE DEF n
  <2>1. n \div R \in Nat /\ (n \div R) * R <= n /\ n < (n \div R) * R + R
    BY <1>1, <1>7, Divided DEF n
  <2> QED BY <2>1 DEF n
<1>9. hy \in Nat /\ hy * R <= y * S /\ y * S < hy * R + R
  <2> DEFINE n == y * S
  <2> HIDE DEF n
  <2>1. n \div R \in Nat /\ (n \div R) * R <= n /\ n < (n \div R) * R + R
    BY <1>1, <1>7, Divided DEF n
  <2> QED BY <2>1 DEF n
<1>10. K \in Nat /\ K * R <= y * f /\ y * f < K * R + R
  <2> DEFINE n == y * f
  <2> HIDE DEF n
  <2>1. n \div R \in Nat /\ (n \div R) * R <= n /\ n < (n \div R) * R + R
    BY <1>1, <1>7, Divided DEF n
  <2> QED BY <2>1 DEF n
<1>11. c \in Nat /\ c * R >= S
  <2> DEFINE n == S + R - 1
  <2>1. n \in Nat BY <1>1
  <2>2. c = n \div R BY DEF SampleTicks, S, R
  <2> HIDE DEF n
  <2>3. n \div R \in Nat /\ n < (n \div R) * R + R BY <1>1, <2>1, Divided
  <2> HIDE DEF c
  <2>4. c \in Nat /\ S + R - 1 < c * R + R BY <2>2, <2>3 DEF n
  <2>5. c * R \in Nat BY <1>1, <2>4
  <2> QED BY <1>1, <2>4, <2>5
<1> HIDE DEF K
<1>12. q \in Nat /\ (K + 1) * m < q * f + f
  <2> DEFINE n == (K + 1) * m
  <2>1. n \in Nat BY <1>1, <1>10
  <2> HIDE DEF n
  <2>2. n \div f \in Nat /\ n < (n \div f) * f + f BY <1>1, <2>1, Divided
  <2> QED BY <2>2 DEF n
<1> HIDE DEF hx, hy, c, q
<1>13. /\ hx \in Nat /\ hx * R <= (b + t) * S /\ (b + t) * S < hx * R + R
       /\ hy \in Nat /\ hy * R <= (E + t) * S /\ (E + t) * S < hy * R + R
       /\ K \in Nat /\ (E + t) * f < K * R + R
  BY <1>8, <1>9, <1>10 DEF x, y
<1> HIDE DEF x, y
<1>14. /\ k * I - d + hx - hy <= 2 * c + q + 1
       /\ -(k * I - d + hx - hy) <= 2 * c + q + 1
  BY <1>1, <1>3, <1>4, <1>5, <1>11, <1>12, <1>13, Apart
<1>15. Heard(b + t) = g + hx BY <1>2 DEF Heard, hx, x, S, R
<1>16. Recorded(r, E + t) = r.start + hy BY DEF Recorded, hy, y, S, R
<1>17. Slack(r, E + t) = 2 * c + q + 1 BY DEF Slack, c, q, K, y, f, R, S, m
<1>18. d = r.start + k * I - g BY DEF d, I, g
<1>19. Heard(b + t) - Recorded(r, E + t) = k * I - d + hx - hy
  <2> DEFINE kI == k * I
  <2>1. kI \in Nat BY <1>3
  <2>2. d = r.start + kI - g BY <1>18
  <2> HIDE DEF kI
  <2>3. (g + hx) - (r.start + hy) = kI - d + hx - hy BY <1>2, <1>8, <1>9, <2>1, <2>2
  <2> QED BY <1>15, <1>16, <2>3 DEF kI
<1>20. /\ -Slack(r, E + t) <= Heard(b + t) - Recorded(r, E + t)
       /\ Heard(b + t) - Recorded(r, E + t) <= Slack(r, E + t)
  <2> DEFINE apart == k * I - d + hx - hy
  <2>1. apart \in Int
    <3> DEFINE kI == k * I
    <3>1. kI \in Int BY <1>3
    <3> HIDE DEF kI
    <3> QED BY <1>3, <1>8, <1>9, <3>1
  <2>2. 2 * c + q + 1 \in Nat BY <1>11, <1>12
  <2>3. apart <= 2 * c + q + 1 /\ -apart <= 2 * c + q + 1 BY <1>14
  <2> HIDE DEF apart
  <2>4. -(2 * c + q + 1) <= apart BY <2>1, <2>2, <2>3
  <2> QED BY <1>17, <1>19, <2>3, <2>4 DEF apart
<1> QED BY <1>20 DEF b, E

(* Every sample of a slot that is taken while the sound plays is recorded.   *)
LEMMA SlotWhole ==
    ASSUME NEW r, Rated(r), NEW k \in Nat, Tuned, now \in Nat, Active \in Nat,
           r.start + k * Interval(r) <= now, now < r.start + (k + 1) * Interval(r),
           Sounding(r, k), NEW i \in 1..Len(SlotSamples(r, k))
    PROVE  SlotSamples(r, k)[i] # Silence
<1> DEFINE S == Second
           R == Rate
           f == r.fps
           I == Interval(r)
           m == Second % r.fps
           g == tap.start
           from == r.start + k * I
           d == r.start + k * I - g
           b == Base(r, k)
           E == Edge(r, k)
           F == Edge(r, k + 1)
           L == SoundTicks
           c == S \div R
<1>1. /\ S \in Nat \ {0} /\ R \in Nat \ {0} /\ f \in Nat \ {0} /\ f <= R /\ I \in Nat
      /\ m \in Nat /\ m < f /\ S = f * I + m
  BY RatesAre
<1>2. r.start \in Nat /\ g \in Nat BY DEF Rated, Tuned, Taps
<1>3. k * I \in Nat /\ (k + 1) * I = k * I + I
  <2>1. I \in Nat BY <1>1
  <2> HIDE DEF I
  <2> QED BY <2>1
<1>4. from \in Nat
  <2> HIDE DEF I
  <2> QED BY <1>2, <1>3
<1>5. /\ played # None /\ played.from < from /\ from + I + c < played.from + L
      /\ played.to # None => from + I < played.to
  <2> HIDE DEF from, I, c, L
  <2>1. from = r.start + k * Interval(r) /\ I = Interval(r) /\ c = Second \div Rate
        /\ L = SoundTicks
    BY DEF from, I, c, L, S, R
  <2> QED BY <2>1 DEF Sounding
<1>6. now < from + I
  <2> DEFINE kI == k * I
  <2>1. now < r.start + (kI + I) /\ kI \in Nat /\ from = r.start + kI BY <1>3
  <2> HIDE DEF kI, I, from
  <2> QED BY <1>1, <1>2, <2>1
<1>7. played.to = None /\ Tapped = (Active > 0) /\ tap.samples = Active /\ g = played.from
  <2>1. CASE played.to = None
    <3>1. None \notin Nat BY NoneAssumption
    <3> QED BY <1>5, <2>1, <3>1 DEF Tuned
  <2>2. CASE played.to # None
    <3>1. played.to \in Nat /\ played.to <= now BY <1>5, <2>2 DEF Tuned
    <3>2. from + I < played.to BY <1>5, <2>2
    <3> HIDE DEF from, I
    <3> QED BY <1>1, <1>4, <1>6, <3>1, <3>2
  <2> QED BY <2>1, <2>2
<1>19. b = Quotient(d * R, S) BY DEF Base
<1>20. d = from - g
  <2> DEFINE kI == k * I
  <2>1. kI \in Nat BY <1>3
  <2> HIDE DEF kI, g
  <2>2. r.start + kI - g = (r.start + kI) - g BY <1>2, <2>1
  <2> QED BY <2>2 DEF kI
<1> HIDE DEF I, f, m, S, R, L, g, from
<1>8. /\ E \in Nat /\ E * f <= k * R /\ k * R < E * f + f
      /\ F \in Nat /\ F * f <= (k + 1) * R
  <2>1. E \in Nat /\ E * f <= k * R /\ k * R < E * f + f BY EdgeIs DEF f, R
  <2>2. k + 1 \in Nat OBVIOUS
  <2>3. F \in Nat /\ F * f <= (k + 1) * R BY <2>2, EdgeIs DEF f, R
  <2> QED BY <2>1, <2>3
<1>9. Active * S \in Nat /\ L \in Nat /\ L * R <= Active * S
  <2>1. Active * S \in Nat BY <1>1
  <2> DEFINE n == Active * S
  <2>2. L = n \div R BY DEF L, SoundTicks, S, R
  <2> HIDE DEF n
  <2>3. n \div R \in Nat /\ (n \div R) * R <= n BY <1>1, <2>1, Divided DEF n
  <2> QED BY <2>1, <2>2, <2>3 DEF n
<1>10. c \in Nat
  BY <1>1
<1>11. d \in Nat /\ d + I + c < L
  <2> HIDE DEF c
  <2>1. g < from /\ from + I + c < g + L BY <1>5, <1>7
  <2> HIDE DEF d
  <2> QED BY <1>1, <1>2, <1>4, <1>9, <1>10, <1>20, <2>1
<1> HIDE DEF c
<1>12. b \in Nat /\ b * S <= d * R
  <2>1. d * R \in Nat BY <1>1, <1>11
  <2>3. d * R \in Int /\ d * R >= 0 BY <2>1
  <2> HIDE DEF d, b
  <2> QED BY <1>1, <1>19, <2>3, QuotientIs
<1> HIDE DEF d, b, E, F
<1>13. b + (F - E) - 1 < Active
  BY <1>1, <1>8, <1>9, <1>10, <1>11, <1>12, Covers
<1>14. /\ Len(SlotSamples(r, k)) = F - E
       /\ SlotSamples(r, k)[i] = IF Tapped /\ b + i - 1 \in 0..(tap.samples - 1)
                                 THEN <<"pcm", b + i - 1>> ELSE Silence
  <2>1. tap \in Taps BY DEF Tuned
  <2> QED BY <2>1, SlotSamplesIs DEF b, E, F
<1>15. b + i - 1 \in 0..(Active - 1) /\ Active > 0
  BY <1>8, <1>12, <1>13, <1>14
<1>16. SlotSamples(r, k)[i] = <<"pcm", b + i - 1>> BY <1>7, <1>14, <1>15
<1>17. b + i - 1 \in Nat BY <1>15
<1>18. <<"pcm", b + i - 1>> # <<"pcm", -1>>
  <2> DEFINE x == b + i - 1
  <2>1. x \in Nat BY <1>17
  <2> HIDE DEF x
  <2>2. x # -1 BY <2>1
  <2>3. <<"pcm", x>>[2] = x /\ <<"pcm", -1>>[2] = -1 OBVIOUS
  <2> QED BY <2>2, <2>3 DEF x
<1> QED BY <1>16, <1>18 DEF Silence
-----------------------------------------------------------------------------
(* What a recording holds once v pictures and the sound of n slots are in it. *)
Holds(a, r, v, n) ==
    /\ Movie(a)
    /\ ~a.err =>
         /\ Len(ShotsOf(a)) = v /\ Len(SoundOf(a)) = Edge(r, n)
         /\ InPlace(r, SoundOf(a))
         /\ \A k \in 1..Len(ShotsOf(a)) :
              k <= n /\ ShotsOf(a)[k].size > 0 => Whole(r, k - 1, SoundOf(a))
LEMMA HoldsShot ==
    ASSUME NEW r, NEW n \in Nat, NEW a, Holds(a, r, n, n), NEW data, NEW c, Shot(a, c, data)
    PROVE  Holds(c, r, n + 1, n)
<1>1. CASE c.err
  BY <1>1 DEF Shot, Holds
<1>2. CASE ~c.err
  <2>1. /\ Movie(c) /\ ~a.err /\ SoundOf(c) = SoundOf(a)
        /\ Len(ShotsOf(c)) = Len(ShotsOf(a)) + 1
        /\ \A k \in 1..Len(ShotsOf(a)) : ShotsOf(c)[k] = ShotsOf(a)[k]
    BY <1>2 DEF Shot
  <2>2. /\ Len(ShotsOf(a)) = n /\ Len(SoundOf(a)) = Edge(r, n) /\ InPlace(r, SoundOf(a))
        /\ \A k \in 1..Len(ShotsOf(a)) :
             k <= n /\ ShotsOf(a)[k].size > 0 => Whole(r, k - 1, SoundOf(a))
    BY <2>1 DEF Holds
  <2>3. Len(ShotsOf(c)) = n + 1 BY <2>1, <2>2
  <2>4. ASSUME NEW k \in 1..Len(ShotsOf(c)), k <= n, ShotsOf(c)[k].size > 0
        PROVE  Whole(r, k - 1, SoundOf(c))
    <3>1. k \in 1..n BY <2>3, <2>4
    <3>2. k \in 1..Len(ShotsOf(a)) /\ ShotsOf(c)[k] = ShotsOf(a)[k] BY <2>1, <2>2, <3>1
    <3>3. ShotsOf(a)[k].size > 0 BY <2>4, <3>2
    <3> QED BY <2>1, <2>2, <2>4, <3>2, <3>3
  <2> QED BY <2>1, <2>2, <2>3, <2>4 DEF Holds
<1>3. c.err \in BOOLEAN
  <2>1. Movie(c) BY DEF Shot
  <2>2. Avi(c) BY <2>1 DEF Movie
  <2> QED BY <2>2, AviIs
<1> QED BY <1>1, <1>2, <1>3

(* The sound of one more slot.                                               *)
LEMMA TrackGrows ==
    ASSUME NEW r, Rated(r), NEW n \in Nat, Tuned, NEW track \in Seq(Word),
           Len(track) = Edge(r, n), InPlace(r, track), NEW more,
           Joins(more, track, SlotSamples(r, n))
    PROVE  /\ Len(more) = Edge(r, n + 1) /\ InPlace(r, more)
           /\ \A k \in 0..n - 1 : Whole(r, k, track) => Whole(r, k, more)
           /\ (Sounding(r, n) => \A i \in 1..Len(SlotSamples(r, n)) : SlotSamples(r, n)[i] # Silence)
                => Whole(r, n, more)
<1> DEFINE s == SlotSamples(r, n)
           E == Edge(r, n)
           F == Edge(r, n + 1)
           b == Base(r, n)
<1>1. tap \in Taps BY DEF Tuned
<1>2. /\ Len(s) = F - E /\ Len(s) \in Nat /\ b \in Int
      /\ \A i \in 1..Len(s) :
           s[i] = IF Tapped /\ b + i - 1 \in 0..(tap.samples - 1) THEN <<"pcm", b + i - 1>>
                  ELSE Silence
  BY <1>1, SlotSamplesIs
<1>3. E \in Nat /\ F \in Nat
  <2>1. n + 1 \in Nat OBVIOUS
  <2> QED BY <2>1, EdgeIs
<1>4. /\ more \in Seq(Word) /\ Len(more) = Len(track) + Len(s)
      /\ \A i \in 1..Len(track) : more[i] = track[i]
      /\ \A i \in 1..Len(s) : more[Len(track) + i] = s[i]
  BY DEF Joins
<1>15. /\ Len(track) = E /\ \A j \in DOMAIN track :
             track[j] # Silence =>
               /\ played # None
               /\ -Slack(r, j - 1) <= Heard(track[j][2]) - Recorded(r, j - 1)
               /\ Heard(track[j][2]) - Recorded(r, j - 1) <= Slack(r, j - 1)
  BY DEF InPlace
<1>16. DOMAIN track = 1..E /\ DOMAIN more = 1..Len(more)
  BY <1>4, <1>15, LenProperties
<1>17. ASSUME NEW t \in Nat, Tapped, b + t \in Nat
       PROVE  /\ played # None
              /\ -Slack(r, E + t) <= Heard(b + t) - Recorded(r, E + t)
              /\ Heard(b + t) - Recorded(r, E + t) <= Slack(r, E + t)
  BY <1>17, SlotInPlace DEF Tuned
<1> HIDE DEF s, E, F, b
<1>5. Len(more) = F BY <1>2, <1>3, <1>4, <1>15
<1>6. ASSUME NEW j \in 1..F, more[j] # Silence
      PROVE  /\ played # None
             /\ -Slack(r, j - 1) <= Heard(more[j][2]) - Recorded(r, j - 1)
             /\ Heard(more[j][2]) - Recorded(r, j - 1) <= Slack(r, j - 1)
  <2>1. CASE j <= E
    <3>1. j \in 1..E BY <2>1
    <3>2. more[j] = track[j] BY <1>4, <1>15, <3>1
    <3> QED BY <1>6, <1>15, <1>16, <3>1, <3>2
  <2>2. CASE j > E
    <3>1. j - E \in 1..Len(s) /\ E + (j - E) = j BY <1>2, <1>3, <2>2
    <3>2. PICK i \in 1..Len(s) : i = j - E BY <3>1
    <3>3. more[j] = s[i] BY <1>4, <1>15, <3>1, <3>2
    <3>4. Tapped /\ b + i - 1 \in 0..(tap.samples - 1) /\ s[i] = <<"pcm", b + i - 1>>
      BY <1>2, <1>6, <3>3
    <3>5. i \in Nat /\ i >= 1 BY <1>2
    <3>6. PICK t \in Nat : t = i - 1 BY <3>5
    <3>7. b + t \in Nat /\ b + t = b + i - 1 /\ E + t = j - 1
      BY <1>2, <1>3, <3>2, <3>4, <3>5, <3>6
    <3>8. more[j][2] = b + t BY <3>3, <3>4, <3>7
    <3> QED BY <1>17, <3>4, <3>7, <3>8
  <2> QED BY <1>3, <2>1, <2>2
<1>7. InPlace(r, more)
  <2>1. DOMAIN more = 1..F BY <1>5, <1>16
  <2> QED BY <1>6, <2>1 DEF InPlace
<1>8. ASSUME NEW k \in 0..n - 1, Whole(r, k, track) PROVE Whole(r, k, more)
  <2>1. ASSUME Sounding(r, k), NEW j \in (Edge(r, k) + 1)..Edge(r, k + 1)
        PROVE  more[j] # Silence
    <3>1. k \in Nat /\ k + 1 \in Nat /\ k + 1 <= n OBVIOUS
    <3>2. Edge(r, k) \in Nat /\ Edge(r, k + 1) \in Nat /\ Edge(r, k + 1) <= E
      BY <3>1, EdgeIs, EdgesRise DEF E
    <3>3. j \in 1..E BY <1>3, <3>2
    <3>4. track[j] # Silence BY <1>8, <2>1 DEF Whole
    <3> QED BY <1>4, <1>15, <3>3, <3>4
  <2> QED BY <2>1 DEF Whole
<1>9. ASSUME Sounding(r, n) => \A i \in 1..Len(s) : s[i] # Silence PROVE Whole(r, n, more)
  <2>1. ASSUME Sounding(r, n), NEW j \in (E + 1)..F PROVE more[j] # Silence
    <3>1. j - E \in 1..Len(s) /\ E + (j - E) = j BY <1>2, <1>3, <2>1
    <3>2. more[j] = s[j - E] BY <1>4, <1>15, <3>1
    <3> QED BY <1>9, <2>1, <3>1, <3>2
  <2> QED BY <2>1 DEF Whole, E, F
<1> QED BY <1>5, <1>7, <1>8, <1>9 DEF s, F

(* The sound of a slot, which may be empty, is put behind what there is.     *)
LEMMA SlotSounds ==
    ASSUME NEW r, Rated(r), NEW n \in Nat, tap \in Taps, NEW a, Movie(a)
    PROVE  Sounds(a, AudioSlot(a, r, n), SlotSamples(r, n))
<1> DEFINE s == SlotSamples(r, n)
           c == AudioSlot(a, r, n)
<1>1. s \in Seq(Word) /\ Len(s) \in Nat BY SlotSamplesIs
<1>2. CASE s = <<>>
  <2>1. c = a BY <1>2 DEF AudioSlot
  <2>2. ~a.err => SoundOf(a) = SoundOf(a) \o s
    <3>1. ~a.err => SoundOf(a) \in Seq(Word) BY MovieIs
    <3> QED BY <1>2, <3>1, ConcatEmptySeq
  <2> HIDE DEF s, c
  <2> QED BY <2>1, <2>2 DEF Sounds, s, c
<1>3. CASE s # <<>>
  <2>1. c = Audio(a, s) BY <1>3 DEF AudioSlot
  <2> HIDE DEF s, c
  <2>2. Sounds(a, c, s) BY <1>1, <2>1, SoundsIs
  <2> QED BY <2>2 DEF s, c
<1> QED BY <1>2, <1>3

(* The sound of a slot keeps the picture of it in step with the sound.        *)
LEMMA HoldsSlot ==
    ASSUME NEW r, Rated(r), NEW n \in Nat, Tuned, now \in Nat, NEW a, Holds(a, r, n + 1, n),
           ~a.err /\ ShotsOf(a)[n + 1].size > 0 =>
             r.start + n * Interval(r) <= now /\ now < r.start + (n + 1) * Interval(r)
    PROVE  Holds(AudioSlot(a, r, n), r, n + 1, n + 1)
<1> DEFINE s == SlotSamples(r, n)
           c == AudioSlot(a, r, n)
<1>1. s \in Seq(Word) /\ Len(s) \in Nat
  <2>1. tap \in Taps BY DEF Tuned
  <2> QED BY <2>1, SlotSamplesIs
<1>2. Movie(a) /\ Avi(a) /\ a.err \in BOOLEAN
  <2>1. Movie(a) BY DEF Holds
  <2>2. Avi(a) BY <2>1 DEF Movie
  <2> QED BY <2>1, <2>2, AviIs
<1>3. Sounds(a, c, s)
  <2>1. tap \in Taps BY DEF Tuned
  <2> QED BY <1>2, <2>1, SlotSounds
<1> HIDE DEF s, c
<1>4. CASE c.err
  <2>1. Holds(c, r, n + 1, n + 1) BY <1>3, <1>4 DEF Sounds, Holds
  <2> QED BY <2>1 DEF c
<1>5. CASE ~c.err
  <2>1. Movie(c) /\ ~a.err /\ SoundOf(c) = SoundOf(a) \o s /\ ShotsOf(c) = ShotsOf(a)
    BY <1>3, <1>5 DEF Sounds
  <2>2. /\ Len(ShotsOf(a)) = n + 1 /\ Len(SoundOf(a)) = Edge(r, n) /\ InPlace(r, SoundOf(a))
        /\ \A k \in 1..Len(ShotsOf(a)) :
             k <= n /\ ShotsOf(a)[k].size > 0 => Whole(r, k - 1, SoundOf(a))
    BY <2>1 DEF Holds
  <2>3. SoundOf(a) \in Seq(Word) BY <1>2, <2>1, MovieIs
  <2>4. Joins(SoundOf(a) \o s, SoundOf(a), s) BY <1>1, <2>3, Concat
  <2>5. Joins(SoundOf(c), SoundOf(a), SlotSamples(r, n)) BY <2>1, <2>4 DEF s
  <2>6. /\ Len(SoundOf(c)) = Edge(r, n + 1) /\ InPlace(r, SoundOf(c))
        /\ \A k \in 0..n - 1 : Whole(r, k, SoundOf(a)) => Whole(r, k, SoundOf(c))
        /\ (Sounding(r, n) => \A i \in 1..Len(SlotSamples(r, n)) : SlotSamples(r, n)[i] # Silence)
             => Whole(r, n, SoundOf(c))
    BY <2>2, <2>3, <2>5, TrackGrows
  <2>7. ASSUME NEW k \in 1..Len(ShotsOf(c)), k <= n + 1, ShotsOf(c)[k].size > 0
        PROVE  Whole(r, k - 1, SoundOf(c))
    <3>1. k \in 1..Len(ShotsOf(a)) /\ ShotsOf(a)[k].size > 0 BY <2>1, <2>7
    <3>2. CASE k <= n
      <4>1. Whole(r, k - 1, SoundOf(a)) BY <2>2, <3>1, <3>2
      <4>2. k - 1 \in 0..n - 1 BY <3>2
      <4> QED BY <2>6, <4>1, <4>2
    <3>3. CASE k = n + 1
      <4>1. /\ r.start + n * Interval(r) <= now /\ now < r.start + (n + 1) * Interval(r)
        BY <2>1, <3>1, <3>3
      <4>2. Active \in Nat BY RecorderAssumption
      <4>3. ASSUME Sounding(r, n), NEW i \in 1..Len(SlotSamples(r, n))
            PROVE  SlotSamples(r, n)[i] # Silence
        BY <4>1, <4>2, <4>3, SlotWhole
      <4>4. k - 1 = n BY <3>3
      <4> QED BY <2>6, <4>3, <4>4
    <3>4. k <= n \/ k = n + 1 BY <2>7
    <3> QED BY <3>2, <3>3, <3>4
  <2>8. Len(ShotsOf(c)) = n + 1 BY <2>1, <2>2
  <2>9. Holds(c, r, n + 1, n + 1) BY <2>1, <2>6, <2>7, <2>8 DEF Holds
  <2> QED BY <2>9 DEF c
<1>6. c.err \in BOOLEAN
  <2>1. Avi(c) BY <1>3 DEF Sounds, Movie
  <2> QED BY <2>1, AviIs
<1> QED BY <1>4, <1>5, <1>6
-----------------------------------------------------------------------------
(* A slot without a new picture repeats the last one.                         *)
LEMMA DupHolds ==
    ASSUME NEW r, Rated(r), NEW n \in Nat, Tuned, now \in Nat, NEW a, Holds(a, r, n, n)
    PROVE  Holds(AudioSlot(VideoDup(a), r, n), r, n + 1, n + 1)
<1> DEFINE c == VideoDup(a)
<1>1. Len(<<>>) = 0 /\ <<>> \in Seq(Word) BY EmptySeq
<1>2. Movie(a) BY DEF Holds
<1>3. Shot(a, c, <<>>) BY <1>1, <1>2, ShotIs DEF VideoDup
<1> HIDE DEF c
<1>4. Holds(c, r, n + 1, n) BY <1>3, HoldsShot
<1>5. ~(~c.err /\ ShotsOf(c)[n + 1].size > 0)
  <2>1. SUFFICES ASSUME ~c.err PROVE ShotsOf(c)[n + 1].size = 0 OBVIOUS
  <2>2. ~a.err BY <1>3, <2>1 DEF Shot
  <2>3. Len(ShotsOf(a)) = n BY <2>2 DEF Holds
  <2> QED BY <1>1, <1>3, <2>1, <2>3 DEF Shot
<1>6. Holds(AudioSlot(c, r, n), r, n + 1, n + 1) BY <1>4, <1>5, HoldsSlot
<1> QED BY <1>6 DEF c

(* An idle slot, a repeat and its sound, keeps the recording in order.       *)
LEMMA SlotMovie ==
    ASSUME NEW r, Rated(r), NEW n \in Nat, tap \in Taps, NEW a, Movie(a)
    PROVE  AudioSlot(VideoDup(a), r, n) \in Avis /\ Movie(AudioSlot(VideoDup(a), r, n))
<1> DEFINE c == VideoDup(a)
<1>1. <<>> \in Seq(Word) BY EmptySeq
<1>2. Shot(a, c, <<>>) BY <1>1, ShotIs DEF VideoDup
<1> HIDE DEF c
<1>3. Movie(c) BY <1>2 DEF Shot
<1>4. Sounds(c, AudioSlot(c, r, n), SlotSamples(r, n)) BY <1>3, SlotSounds
<1>5. Movie(AudioSlot(c, r, n)) BY <1>4 DEF Sounds
<1>6. AudioSlot(c, r, n) \in Avis BY <1>5 DEF Movie, Avi
<1> QED BY <1>5, <1>6 DEF c

(* However many slots have passed, each gets its picture and its sound.      *)
LEMMA IdleIs ==
    ASSUME NEW r, Rated(r), r.frames \in Nat, Tuned, now \in Nat, NEW a,
           Holds(a, r, r.frames, r.frames), NEW slot \in Nat, r.frames <= slot
    PROVE  Holds(Idle(a, r, slot), r, slot, slot)
<1> DEFINE B == r.frames
           N == slot - B
           X == {x \in Avis : Movie(x)}
           Step(x, n) == AudioSlot(VideoDup(x), r, n - 1)
           F == [x \in X |-> [n \in Nat |-> IF n \in 1..N THEN Step(x, B + n) ELSE x]]
           Is(g) == g = [k \in B..slot |-> IF k = B THEN a ELSE Step(g[k - 1], k)]
           s == CHOOSE g : Is(g)
<1>0. N \in Nat /\ B \in Nat /\ slot = B + N OBVIOUS
<1>1. tap \in Taps BY DEF Tuned
<1>2. a \in X
  <2>1. Movie(a) BY DEF Holds
  <2> QED BY <2>1 DEF Movie, Avi
<1>5. Idle(a, r, slot) = s[slot] BY DEF Idle
<1> HIDE DEF B, N
<1>3. ASSUME NEW x \in X, NEW n \in Nat, n >= 1 PROVE Step(x, n) \in X
  <2>1. n - 1 \in Nat BY <1>3
  <2>2. Movie(x) OBVIOUS
  <2> QED BY <1>1, <2>1, <2>2, SlotMovie
<1>4. ASSUME NEW n \in Nat, NEW x, Holds(x, r, n, n)
      PROVE  Holds(Step(x, n + 1), r, n + 1, n + 1)
  <2>1. (n + 1) - 1 = n OBVIOUS
  <2> QED BY <1>4, <2>1, DupHolds
<1> HIDE DEF Step, X
<1>6. F \in [X -> [Nat -> X]]
  <2>1. ASSUME NEW x \in X, NEW n \in 1..N PROVE Step(x, B + n) \in X
    <3>1. B + n \in Nat /\ B + n >= 1 BY <1>0
    <3> QED BY <1>3, <3>1
  <2> QED BY <2>1
<1>7. PICK g : Follows(g, X, a, N, F)
  <2> HIDE DEF F
  <2> QED BY <1>0, <1>2, <1>6, Recursion
<1> DEFINE h == [k \in B..slot |-> g[k - B]]
<1>8. Is(h)
  <2>1. ASSUME NEW k \in B..slot
        PROVE  h[k] = IF k = B THEN a ELSE Step(h[k - 1], k)
    <3>1. h[k] = g[k - B] OBVIOUS
    <3>2. k - B \in 0..N BY <1>0
    <3>3. CASE k = B
      <4>1. k - B = 0 BY <1>0, <3>3
      <4>2. g[0] = a
        <5> HIDE DEF F
        <5> QED BY <1>7, <3>2, <4>1 DEF Follows
      <4> QED BY <3>1, <3>3, <4>1, <4>2
    <3>4. CASE k # B
      <4>1. PICK j \in 1..N : j = k - B BY <1>0, <3>4
      <4>2. /\ j \in Nat /\ j - 1 \in 0..N /\ j # 0 /\ B + j = k /\ k - 1 \in B..slot
            /\ (k - 1) - B = j - 1 /\ j \in 0..N
        BY <1>0, <4>1
      <4>3. g[j - 1] \in X /\ g[j] = F[g[j - 1]][j]
        <5> HIDE DEF F
        <5> QED BY <1>7, <4>2 DEF Follows
      <4>4. F[g[j - 1]][j] = Step(g[j - 1], B + j)
        <5> DEFINE x == g[j - 1]
        <5>1. x \in X BY <4>3
        <5> HIDE DEF x
        <5>2. F[x][j] = Step(x, B + j) BY <4>1, <4>2, <5>1
        <5> QED BY <5>2 DEF x
      <4>5. h[k - 1] = g[j - 1] BY <4>2
      <4>6. h[k] = g[j] BY <3>1, <4>1
      <4> HIDE DEF h, F
      <4> QED BY <3>4, <4>2, <4>3, <4>4, <4>5, <4>6
    <3> QED BY <3>3, <3>4
  <2>2. h = [k \in B..slot |-> h[k]] OBVIOUS
  <2> HIDE DEF h, F
  <2> QED BY <2>1, <2>2
<1>9. Is(s)
  <2> HIDE DEF Is, h
  <2> QED BY <1>8
<1> HIDE DEF s, F, h
<1>10. \A n \in 0..N : Holds(s[B + n], r, B + n, B + n)
  <2> DEFINE T == {n \in Nat : n <= N => Holds(s[B + n], r, B + n, B + n)}
  <2>1. 0 \in T
    <3>1. B \in B..slot /\ B + 0 = B BY <1>0
    <3>2. s[B] = a BY <1>9, <3>1
    <3>3. Holds(a, r, B, B) BY DEF B
    <3> QED BY <3>1, <3>2, <3>3
  <2>2. ASSUME NEW n \in Nat, n \in T PROVE n + 1 \in T
    <3>1. CASE n + 1 <= N
      <4>1. Holds(s[B + n], r, B + n, B + n) BY <1>0, <2>2, <3>1
      <4>2. PICK k \in Nat : k = B + n BY <1>0
      <4>3. k + 1 \in B..slot /\ k + 1 # B /\ (k + 1) - 1 = k /\ B + (n + 1) = k + 1
        BY <1>0, <3>1, <4>2
      <4>4. s[k + 1] = Step(s[k], k + 1) BY <1>9, <4>3
      <4>5. Holds(Step(s[k], k + 1), r, k + 1, k + 1) BY <1>4, <4>1, <4>2
      <4> QED BY <4>3, <4>4, <4>5
    <3>2. CASE ~(n + 1 <= N) BY <3>2
    <3> QED BY <3>1, <3>2
  <2>3. \A n \in Nat : n \in T
    <3> HIDE DEF T
    <3> QED BY <2>1, <2>2, NatSet
  <2> QED BY <1>0, <2>3
<1>11. Holds(s[slot], r, slot, slot)
  <2>1. N \in 0..N /\ B + N = slot BY <1>0
  <2> QED BY <1>10, <2>1
<1> QED BY <1>5, <1>11

(* A picture is stored in the slot of the clock.                              *)
LEMMA SlotIs ==
    ASSUME NEW r, Rated(r), now \in Nat, r.start <= now
    PROVE  /\ Slot(r) \in Nat
           /\ r.start + Slot(r) * Interval(r) <= now
           /\ now < r.start + (Slot(r) + 1) * Interval(r)
<1> DEFINE I == Interval(r)
           d == now - r.start
           k == Slot(r)
<1>1. I \in Nat \ {0} /\ r.start \in Nat BY RatesAre DEF Rated
<1>2. d \in Nat BY <1>1
<1>3. k = d \div I BY DEF Slot
<1> HIDE DEF I, k
<1>4. d \div I \in Nat /\ (d \div I) * I <= d /\ d < (d \div I) * I + I
  <2> HIDE DEF d
  <2> QED BY <1>1, <1>2, Divided
<1>5. k \in Nat /\ k * I <= d /\ d < k * I + I BY <1>3, <1>4
<1>6. (k + 1) * I = k * I + I /\ k * I \in Nat BY <1>1, <1>5
<1> DEFINE x == k * I
<1>7. x \in Nat /\ x <= d /\ d < x + I BY <1>5, <1>6
<1> HIDE DEF x
<1>8. r.start + x <= now /\ now < r.start + (x + I) BY <1>1, <1>7
<1> QED BY <1>5, <1>6, <1>8 DEF x, k, I

(* The data of a picture is words of its own.                                *)
LEMMA JpegIs ==
    ASSUME NEW p \in Pictures
    PROVE  Jpeg(p) \in Seq(Word)
<1>1. JpegLength[p] \in Nat BY RecorderAssumption
<1>2. <<"jpeg", p>> \in Word BY WordIs
<1> DEFINE n == JpegLength[p]
           w == <<"jpeg", p>>
<1>3. n \in Nat /\ w \in Word BY <1>1, <1>2
<1>4. Jpeg(p) = [i \in 1..n |-> w] BY DEF Jpeg
<1> HIDE DEF n, w
<1> QED BY <1>3, <1>4

(* Idle slots, the picture and its sound leave a recording that is in place. *)
Stored(a, r, p) == AudioSlot(Video(Idle(a, r, Slot(r)), p), r, Slot(r))
LEMMA StoredHolds ==
    ASSUME NEW r, Rated(r), r.frames \in Nat, Tuned, now \in Nat, r.start <= now, NEW a,
           Holds(a, r, r.frames, r.frames), r.frames <= Slot(r), NEW p \in Pictures
    PROVE  Holds(Stored(a, r, p), r, Slot(r) + 1, Slot(r) + 1)
<1> DEFINE n == Slot(r)
           x == Idle(a, r, n)
           c == Video(x, p)
<1>1. /\ n \in Nat /\ r.start + n * Interval(r) <= now
      /\ now < r.start + (n + 1) * Interval(r)
  BY SlotIs
<1>6. r.frames <= n OBVIOUS
<1>7. Stored(a, r, p) = AudioSlot(c, r, n) BY DEF Stored
<1> HIDE DEF n
<1>2. Holds(x, r, n, n) BY <1>1, <1>6, IdleIs
<1>3. Movie(x) BY <1>2 DEF Holds
<1>4. Shot(x, c, Jpeg(p)) BY <1>3, JpegIs, ShotIs DEF Video
<1> HIDE DEF x, c
<1>5. Holds(c, r, n + 1, n) BY <1>1, <1>2, <1>4, HoldsShot
<1>8. Holds(AudioSlot(c, r, n), r, n + 1, n + 1) BY <1>1, <1>5, HoldsSlot
<1> QED BY <1>7, <1>8 DEF n
-----------------------------------------------------------------------------
(* The words of the index.                                                    *)
IndexWords(index) ==
    <<Tag("idx1"), Num(Len(index))>> \o [i \in DOMAIN index |-> <<"entry", index[i]>>]
LEMMA IndexWordsIs ==
    ASSUME NEW index \in Seq(Entry)
    PROVE  LET words == IndexWords(index)
           IN  /\ words \in Seq(Word) /\ Len(words) = Len(index) + 2
               /\ words[1] = Tag("idx1") /\ words[2] = Num(Len(index))
               /\ \A i \in 1..Len(index) : words[2 + i] = <<"entry", index[i]>>
<1> DEFINE n == Len(index)
           head == <<Tag("idx1"), Num(n)>>
           tail == [i \in DOMAIN index |-> <<"entry", index[i]>>]
           words == IndexWords(index)
<1>1. n \in Nat /\ DOMAIN index = 1..n /\ \A i \in 1..n : index[i] \in Entry
  BY LenProperties, ElementOfSeq
<1>6. words = head \o tail BY DEF IndexWords
<1> HIDE DEF n
<1>2. head \in Seq(Word) /\ Len(head) = 2 /\ head[1] = Tag("idx1") /\ head[2] = Num(n)
  <2>1. Tag("idx1") \in Word /\ Num(n) \in Word BY <1>1, WordIs DEF Ids
  <2> DEFINE t == Tag("idx1")
             m == Num(n)
  <2>2. t \in Word /\ m \in Word BY <2>1
  <2> HIDE DEF t, m
  <2>3. <<t, m>> \in Seq(Word) /\ Len(<<t, m>>) = 2 /\ <<t, m>>[1] = t /\ <<t, m>>[2] = m
    BY <2>2
  <2> QED BY <2>3 DEF t, m
<1>3. tail \in Seq(Word) /\ Len(tail) = n /\ \A i \in 1..n : tail[i] = <<"entry", index[i]>>
  <2>1. \A i \in 1..n : <<"entry", index[i]>> \in Word BY <1>1, WordIs
  <2>2. tail = [i \in 1..n |-> <<"entry", index[i]>>] BY <1>1
  <2> HIDE DEF tail
  <2>3. tail \in [1..n -> Word] BY <2>1, <2>2
  <2> QED BY <1>1, <2>2, <2>3
<1> HIDE DEF head, tail, words
<1>4. Joins(words, head, tail) BY <1>2, <1>3, <1>6, Concat
<1>5. /\ words \in Seq(Word) /\ Len(words) = n + 2
      /\ words[1] = Tag("idx1") /\ words[2] = Num(n)
      /\ \A i \in 1..n : words[2 + i] = <<"entry", index[i]>>
  <2>1. /\ words \in Seq(Word) /\ Len(words) = 2 + n
        /\ \A i \in 1..2 : words[i] = head[i]
        /\ \A i \in 1..n : words[2 + i] = tail[i]
    BY <1>2, <1>3, <1>4 DEF Joins
  <2>2. words[1] = head[1] /\ words[2] = head[2] BY <2>1
  <2> QED BY <1>1, <1>2, <1>3, <2>1, <2>2
<1> QED BY <1>5 DEF n, words

(* What the six patches leave of the file.                                    *)
Fields == {RiffSize + 1, TotalFrames + 1, VideoLength + 1, VideoBuffer + 1, AudioLength + 1, MoviSize + 1}
Filled(b, c, movi) ==
    LET new == Text(c.file)
    IN  /\ c.file.buf = <<>> /\ Position(c.file) = Position(b.file)
        /\ new[RiffSize + 1] = Num(Position(b.file) - 2) /\ new[MoviSize + 1] = Num(movi - MoviStart)
        /\ new[TotalFrames + 1] = Num(b.frames) /\ new[VideoLength + 1] = Num(b.frames)
        /\ new[VideoBuffer + 1] = Num(b.largest) /\ new[AudioLength + 1] = Num(b.samples)
        /\ \A i \in 1..Position(b.file) : i \notin Fields => new[i] = Text(b.file)[i]
LEMMA PatchedIs ==
    ASSUME NEW b, Avi(b), ~b.err => Position(b.file) >= MoviStart + 1, NEW movi \in Nat,
           movi >= MoviStart
    PROVE  /\ Avi(Patched(b, movi)) /\ Same(b, Patched(b, movi))
           /\ ~Patched(b, movi).err => ~b.err /\ Filled(b, Patched(b, movi), movi)
<1> DEFINE P == Position(b.file)
           riff == Patch(b, RiffSize, P - 2)
           list == Patch(riff, MoviSize, movi - MoviStart)
           total == Patch(list, TotalFrames, b.frames)
           video == Patch(total, VideoLength, b.frames)
           buffer == Patch(video, VideoBuffer, b.largest)
           audio == Patch(buffer, AudioLength, b.samples)
<1>1. Patched(b, movi) = audio BY DEF Patched
<1>2. P \in Nat /\ b.frames \in Nat /\ b.largest \in Nat /\ b.samples \in Nat /\ b.err \in BOOLEAN
  BY AviIs
<1>3. CASE b.err
  <2>1. riff = b BY <1>3 DEF Patch
  <2>2. list = b BY <1>3, <2>1 DEF Patch
  <2>3. total = b BY <1>3, <2>2 DEF Patch
  <2>4. video = b BY <1>3, <2>3 DEF Patch
  <2>5. buffer = b BY <1>3, <2>4 DEF Patch
  <2>6. audio = b BY <1>3, <2>5 DEF Patch
  <2> QED BY <1>1, <1>3, <2>6 DEF Same
<1>4. CASE ~b.err
  <2>1. P >= 10 /\ P - 2 \in Nat /\ movi - MoviStart \in Nat BY <1>2, <1>4 DEF MoviStart
  <2>2. /\ RiffSize \in Nat /\ MoviSize \in Nat /\ TotalFrames \in Nat /\ VideoLength \in Nat
        /\ VideoBuffer \in Nat /\ AudioLength \in Nat
        /\ RiffSize < P /\ MoviSize < P /\ TotalFrames < P /\ VideoLength < P /\ VideoBuffer < P
        /\ AudioLength < P
    BY <1>2, <2>1 DEF RiffSize, MoviSize, TotalFrames, VideoLength, VideoBuffer, AudioLength
  <2> DEFINE n1 == P - 2
             n2 == movi - MoviStart
  <2>13. n1 \in Nat /\ n2 \in Nat BY <2>1
  <2>14. riff = Patch(b, RiffSize, n1) /\ list = Patch(riff, MoviSize, n2) OBVIOUS
  <2>15. P = Position(b.file) OBVIOUS
  <2> HIDE DEF P, n1, n2, riff, list, total, video, buffer, audio
  <2>3. Patched1(b, riff, RiffSize, Num(n1)) BY <2>2, <2>13, <2>14, <2>15, PatchIs
  <2>4. Avi(riff) /\ (~riff.err => Position(riff.file) = P) /\ Same(b, riff)
    BY <2>3, <2>15 DEF Patched1, Patches
  <2>5. Patched1(riff, list, MoviSize, Num(n2)) BY <2>2, <2>4, <2>13, <2>14, PatchIs
  <2>6. Avi(list) /\ (~list.err => Position(list.file) = P) /\ Same(b, list)
    BY <2>4, <2>5 DEF Patched1, Patches, Same
  <2>7. Patched1(list, total, TotalFrames, Num(b.frames)) BY <1>2, <2>2, <2>6, PatchIs DEF total
  <2>8. Avi(total) /\ (~total.err => Position(total.file) = P) /\ Same(b, total)
    BY <2>6, <2>7 DEF Patched1, Patches, Same
  <2>9. Patched1(total, video, VideoLength, Num(b.frames)) BY <1>2, <2>2, <2>8, PatchIs DEF video
  <2>10. Avi(video) /\ (~video.err => Position(video.file) = P) /\ Same(b, video)
    BY <2>8, <2>9 DEF Patched1, Patches, Same
  <2>11. Patched1(video, buffer, VideoBuffer, Num(b.largest))
    BY <1>2, <2>2, <2>10, PatchIs DEF buffer
  <2>12. Avi(buffer) /\ (~buffer.err => Position(buffer.file) = P) /\ Same(b, buffer)
    BY <2>10, <2>11 DEF Patched1, Patches, Same
  <2>16. Patched1(buffer, audio, AudioLength, Num(b.samples))
    BY <1>2, <2>2, <2>12, PatchIs DEF audio
  <2>17. Avi(audio) /\ Same(b, audio) BY <2>12, <2>16 DEF Patched1, Same
  <2>18. ASSUME ~audio.err PROVE Filled(b, audio, movi)
    <3>1. ~buffer.err /\ Patches(buffer.file, audio.file, AudioLength, Num(b.samples))
      BY <2>16, <2>18 DEF Patched1
    <3>2. ~video.err /\ Patches(video.file, buffer.file, VideoBuffer, Num(b.largest))
      BY <2>11, <3>1 DEF Patched1
    <3>3. ~total.err /\ Patches(total.file, video.file, VideoLength, Num(b.frames))
      BY <2>9, <3>2 DEF Patched1
    <3>4. ~list.err /\ Patches(list.file, total.file, TotalFrames, Num(b.frames))
      BY <2>7, <3>3 DEF Patched1
    <3>5. ~riff.err /\ Patches(riff.file, list.file, MoviSize, Num(n2))
      BY <2>5, <3>4 DEF Patched1
    <3>6. Patches(b.file, riff.file, RiffSize, Num(n1)) BY <2>3, <3>5 DEF Patched1
    <3> DEFINE t0 == Text(b.file)
               t1 == Text(riff.file)
               t2 == Text(list.file)
               t3 == Text(total.file)
               t4 == Text(video.file)
               t5 == Text(buffer.file)
               t6 == Text(audio.file)
    <3>7. audio.file.buf = <<>> /\ Position(audio.file) = P
      BY <2>12, <3>1 DEF Patches
    <3>8. /\ \A i \in 1..P : t1[i] = IF i = RiffSize + 1 THEN Num(n1) ELSE t0[i]
          /\ \A i \in 1..P : t2[i] = IF i = MoviSize + 1 THEN Num(n2) ELSE t1[i]
          /\ \A i \in 1..P : t3[i] = IF i = TotalFrames + 1 THEN Num(b.frames) ELSE t2[i]
          /\ \A i \in 1..P : t4[i] = IF i = VideoLength + 1 THEN Num(b.frames) ELSE t3[i]
          /\ \A i \in 1..P : t5[i] = IF i = VideoBuffer + 1 THEN Num(b.largest) ELSE t4[i]
          /\ \A i \in 1..P : t6[i] = IF i = AudioLength + 1 THEN Num(b.samples) ELSE t5[i]
      BY <2>15, <2>4, <2>6, <2>8, <2>10, <2>12, <3>1, <3>2, <3>3, <3>4, <3>5, <3>6 DEF Patches
    <3> DEFINE w1 == Num(n1)
               w2 == Num(n2)
               w3 == Num(b.frames)
               w5 == Num(b.largest)
               w6 == Num(b.samples)
    <3> HIDE DEF t0, t1, t2, t3, t4, t5, t6
    <3>9. /\ \A i \in 1..P : t1[i] = IF i = 2 THEN w1 ELSE t0[i]
          /\ \A i \in 1..P : t2[i] = IF i = 9 THEN w2 ELSE t1[i]
          /\ \A i \in 1..P : t3[i] = IF i = 4 THEN w3 ELSE t2[i]
          /\ \A i \in 1..P : t4[i] = IF i = 5 THEN w3 ELSE t3[i]
          /\ \A i \in 1..P : t5[i] = IF i = 6 THEN w5 ELSE t4[i]
          /\ \A i \in 1..P : t6[i] = IF i = 7 THEN w6 ELSE t5[i]
      BY <3>8 DEF RiffSize, MoviSize, TotalFrames, VideoLength, VideoBuffer, AudioLength
    <3> HIDE DEF w1, w2, w3, w5, w6
    <3>10. /\ 2 \in 1..P /\ 4 \in 1..P /\ 5 \in 1..P /\ 6 \in 1..P /\ 7 \in 1..P /\ 9 \in 1..P
      BY <1>2, <2>1
    <3>11. /\ t6[2] = w1 /\ t6[9] = w2 /\ t6[4] = w3 /\ t6[5] = w3 /\ t6[6] = w5 /\ t6[7] = w6
      BY <3>9, <3>10
    <3>12. \A i \in 1..P : i \notin {2, 4, 5, 6, 7, 9} => t6[i] = t0[i]
      BY <3>9
    <3>13. Fields = {2, 4, 5, 6, 7, 9}
      BY DEF Fields, RiffSize, MoviSize, TotalFrames, VideoLength, VideoBuffer, AudioLength
    <3>14. /\ RiffSize + 1 = 2 /\ TotalFrames + 1 = 4 /\ VideoLength + 1 = 5 /\ VideoBuffer + 1 = 6
           /\ AudioLength + 1 = 7 /\ MoviSize + 1 = 9
      BY DEF RiffSize, MoviSize, TotalFrames, VideoLength, VideoBuffer, AudioLength
    <3>15. /\ t6[RiffSize + 1] = w1 /\ t6[MoviSize + 1] = w2 /\ t6[TotalFrames + 1] = w3
           /\ t6[VideoLength + 1] = w3 /\ t6[VideoBuffer + 1] = w5 /\ t6[AudioLength + 1] = w6
           /\ \A i \in 1..P : i \notin Fields => t6[i] = t0[i]
      BY <3>11, <3>12, <3>13, <3>14
    <3> QED
      BY <2>15, <3>7, <3>15 DEF Filled, t0, t6, w1, w2, w3, w5, w6, n1, n2
  <2> QED BY <1>1, <1>4, <2>17, <2>18
<1> QED BY <1>2, <1>3, <1>4

(* What a player reads, and what there was to write.                          *)
Reads(d, a) ==
    LET W == Position(a.file)
        M == Len(a.index)
    IN  /\ d \in Seq(Word) /\ Len(d) >= W + 2 + M
        /\ d[RiffSize + 1] = Num(W + M) /\ d[MoviSize + 1] = Num(W - MoviStart)
        /\ d[TotalFrames + 1] = Num(a.frames) /\ d[VideoLength + 1] = Num(a.frames)
        /\ d[VideoBuffer + 1] = Num(a.largest) /\ d[AudioLength + 1] = Num(a.samples)
        /\ d[W + 1] = Tag("idx1") /\ d[W + 2] = Num(M)
        /\ \A i \in 1..M : d[W + 2 + i] = <<"entry", a.index[i]>>
        /\ \A i \in 1..W : i \notin Fields => d[i] = Text(a.file)[i]
LEMMA ClosedIs ==
    ASSUME NEW a, Movie(a)
    PROVE  LET c == Closed(a)
           IN  /\ c.err \in BOOLEAN /\ c.frames = a.frames
               /\ a.err => c.err
               /\ ~c.err /\ c.frames > 0 => ~a.err /\ Reads(c.file.disk, a)
<1> DEFINE c == Closed(a)
           W == Position(a.file)
           M == Len(a.index)
           b == Indexed(a)
           g == Patched(b, W)
           written == IF ~a.err /\ a.frames > 0 THEN g ELSE a
<1>1. /\ Avi(a) /\ a.frames \in Nat /\ a.index \in Seq(Entry) /\ W \in Nat /\ a.err \in BOOLEAN
      /\ M \in Nat
  <2>1. Avi(a) BY DEF Movie
  <2> QED BY <2>1, AviIs, LenProperties
<1>2. Grows(a, b, IndexWords(a.index))
  <2>1. IndexWords(a.index) \in Seq(Word) BY <1>1, IndexWordsIs
  <2>2. b = Put(a, IndexWords(a.index)) BY DEF Indexed, IndexWords
  <2> HIDE DEF b
  <2> QED BY <1>1, <2>1, <2>2, PutIs
<1>3. c = [written EXCEPT !.file = Flush(@)] BY DEF Closed
<1>4. ~a.err => W >= MoviStart + 1 BY MovieIs
<1> HIDE DEF c, W, M, b
<1>5. Avi(b) /\ Same(a, b) BY <1>2 DEF Grows
<1>6. ASSUME ~a.err
      PROVE  Avi(g) /\ Same(b, g) /\ (~g.err => ~b.err /\ Filled(b, g, W))
  <2>1. W >= MoviStart /\ MoviStart \in Nat BY <1>1, <1>4, <1>6 DEF MoviStart
  <2>2. ~b.err => Position(b.file) >= MoviStart + 1
    <3>1. ASSUME ~b.err PROVE Position(b.file) >= W
      <4> DEFINE n == Len(IndexWords(a.index))
      <4>1. n \in Nat BY <1>1, IndexWordsIs
      <4>2. Position(b.file) = W + n BY <1>2, <3>1 DEF Grows, Settles, W
      <4> HIDE DEF n
      <4> QED BY <1>1, <4>1, <4>2
    <3>2. Position(b.file) \in Nat BY <1>5, AviIs
    <3> QED BY <1>1, <1>4, <1>6, <3>1, <3>2 DEF MoviStart
  <2> QED BY <1>1, <1>5, <2>1, <2>2, PatchedIs
<1> HIDE DEF g
<1>7. Avi(written) /\ written.frames = a.frames /\ (a.err => written.err)
  <2>1. CASE ~a.err /\ a.frames > 0
    <3>1. written = g BY <2>1
    <3> QED BY <1>5, <1>6, <2>1, <3>1 DEF Same
  <2>2. CASE ~(~a.err /\ a.frames > 0)
    <3>1. written = a BY <2>2
    <3> QED BY <1>1, <3>1
  <2> QED BY <2>1, <2>2
<1>8. ~a.err /\ a.frames > 0 => written = g OBVIOUS
<1> HIDE DEF written
<1>9. written.err \in BOOLEAN /\ written \in Avis /\ File(written.file)
  BY <1>7, AviIs DEF Avi
<1> DEFINE h == Flush(written.file)
<1>10. c = [written EXCEPT !.file = h] BY <1>3
<1>11. h \in Files BY <1>9, FlushIs DEF File
<1> HIDE DEF h
<1>12. c.err = written.err /\ c.frames = written.frames /\ c.file = h
  BY <1>9, <1>10, <1>11 DEF Avis
<1>13. ASSUME ~c.err, c.frames > 0 PROVE ~a.err /\ Reads(c.file.disk, a)
  <2>1. ~a.err /\ a.frames > 0 /\ written = g /\ ~g.err BY <1>7, <1>8, <1>12, <1>13
  <2>2. ~b.err /\ Filled(b, g, W) BY <1>6, <2>1
  <2>3. g.file.buf = <<>> /\ Position(g.file) = Position(b.file) BY <2>2 DEF Filled
  <2>4. h = g.file BY <2>1, <2>3 DEF Flush, h
  <2>5. c.file.disk = g.file.disk BY <1>12, <2>4
  <2> DEFINE d == g.file.disk
             x == Text(g.file)
             y == Text(b.file)
             z == Text(a.file)
             words == IndexWords(a.index)
  <2>6. /\ d \in Seq(Word) /\ Len(d) \in Nat /\ Position(g.file) <= Len(d)
        /\ \A i \in 1..Position(g.file) : x[i] = d[i]
    <3>1. File(g.file) BY <1>9, <2>1
    <3>2. Len(<<>>) = 0 BY EmptySeq
    <3>3. g.file.flushed \in Nat /\ g.file.disk \in Seq(Word) BY <3>1 DEF File, Files
    <3>4. Position(g.file) = g.file.flushed BY <2>3, <3>2, <3>3 DEF Position
    <3>5. g.file.flushed <= Len(g.file.disk) BY <3>1 DEF File
    <3>6. \A i \in 1..Position(g.file) : Text(g.file)[i] = g.file.disk[i]
      BY <3>1, <3>4, TextIs
    <3> QED BY <3>3, <3>4, <3>5, <3>6, LenProperties
  <2>7. /\ words \in Seq(Word) /\ Len(words) = M + 2
        /\ words[1] = Tag("idx1") /\ words[2] = Num(M)
        /\ \A i \in 1..M : words[2 + i] = <<"entry", a.index[i]>>
    BY <1>1, IndexWordsIs DEF M
  <2>8. z \in Seq(Word) /\ Len(z) = W BY <1>1, AviIs DEF W
  <2> HIDE DEF words
  <2>9. y = z \o words /\ Position(b.file) = W + Len(words)
    BY <1>2, <2>2 DEF Grows, Settles, words, W
  <2>10. Joins(y, z, words) BY <2>7, <2>8, <2>9, Concat
  <2> DEFINE Q == Position(b.file)
  <2>11. Q = W + (M + 2) /\ Q \in Nat BY <1>1, <2>7, <2>9
  <2>12. /\ \A i \in 1..W : y[i] = z[i]
         /\ \A i \in 1..M + 2 : y[W + i] = words[i]
    BY <2>7, <2>8, <2>10 DEF Joins
  <2>13. /\ x[RiffSize + 1] = Num(Q - 2) /\ x[MoviSize + 1] = Num(W - MoviStart)
         /\ x[TotalFrames + 1] = Num(b.frames) /\ x[VideoLength + 1] = Num(b.frames)
         /\ x[VideoBuffer + 1] = Num(b.largest) /\ x[AudioLength + 1] = Num(b.samples)
         /\ \A i \in 1..Q : i \notin Fields => x[i] = y[i]
    BY <2>2 DEF Filled
  <2>14. b.frames = a.frames /\ b.largest = a.largest /\ b.samples = a.samples
    BY <1>5 DEF Same
  <2>15. W >= 10 BY <1>4, <2>1 DEF MoviStart
  <2>20. \A i \in 1..Q : x[i] = d[i] BY <2>3, <2>6
  <2> HIDE DEF x, y, z, d, Q
  <2>16. \A i \in 1..W : i \notin Fields => d[i] = z[i]
    <3>1. ASSUME NEW i \in 1..W PROVE i \in 1..Q BY <1>1, <2>11
    <3> QED BY <2>12, <2>13, <2>20, <3>1
  <2>17. \A i \in 1..M + 2 : d[W + i] = words[i]
    <3>1. ASSUME NEW i \in 1..M + 2 PROVE d[W + i] = words[i]
      <4>1. W + i \in 1..Q BY <1>1, <2>11
      <4>2. W + i \notin Fields
        <5>1. Fields = {2, 4, 5, 6, 7, 9}
          BY DEF Fields, RiffSize, MoviSize, TotalFrames, VideoLength, VideoBuffer, AudioLength
        <5>2. W + i > 10 BY <1>1, <2>15
        <5> QED BY <1>1, <5>1, <5>2
      <4> QED BY <2>12, <2>13, <2>20, <4>1, <4>2
    <3> QED BY <3>1
  <2>18. /\ d[RiffSize + 1] = Num(W + M) /\ d[MoviSize + 1] = Num(W - MoviStart)
         /\ d[TotalFrames + 1] = Num(a.frames) /\ d[VideoLength + 1] = Num(a.frames)
         /\ d[VideoBuffer + 1] = Num(a.largest) /\ d[AudioLength + 1] = Num(a.samples)
    <3>1. \A i \in Fields : i \in 1..Q
      <4>1. Fields = {2, 4, 5, 6, 7, 9}
        BY DEF Fields, RiffSize, MoviSize, TotalFrames, VideoLength, VideoBuffer, AudioLength
      <4> QED BY <1>1, <2>11, <2>15, <4>1
    <3>2. \A i \in Fields : x[i] = d[i] BY <2>20, <3>1
    <3>3. Q - 2 = W + M BY <1>1, <2>11
    <3> QED BY <2>13, <2>14, <3>2, <3>3 DEF Fields
  <2>19. /\ d[W + 1] = Tag("idx1") /\ d[W + 2] = Num(M)
         /\ \A i \in 1..M : d[W + 2 + i] = <<"entry", a.index[i]>>
    <3>1. 1 \in 1..M + 2 /\ 2 \in 1..M + 2 BY <1>1
    <3>2. ASSUME NEW i \in 1..M PROVE d[W + 2 + i] = <<"entry", a.index[i]>>
      <4>1. PICK k \in 1..M + 2 : k = 2 + i BY <1>1
      <4>2. d[W + k] = words[k] BY <2>17
      <4>3. W + k = W + 2 + i BY <1>1, <4>1
      <4> QED BY <2>7, <4>1, <4>2, <4>3
    <3> QED BY <2>7, <2>17, <3>1, <3>2
  <2>21. d \in Seq(Word) /\ Len(d) >= W + 2 + M
    <3>1. Len(d) >= Q /\ Len(d) \in Nat /\ d \in Seq(Word) BY <2>3, <2>6, <2>11 DEF d, Q
    <3> QED BY <1>1, <2>11, <3>1
  <2>22. Reads(d, a) BY <2>16, <2>18, <2>19, <2>21 DEF Reads, z, W, M
  <2> QED BY <2>1, <2>5, <2>22 DEF d
<1> QED BY <1>7, <1>9, <1>12, <1>13 DEF c
-----------------------------------------------------------------------------
(* The file that is read back is the movie that was written.                  *)
IndexIn(d) == MoviStart + d[MoviSize + 1][2]
EntriesIn(d) == [i \in 1..d[IndexIn(d) + 2][2] |-> d[IndexIn(d) + 2 + i][2]]
EndIn(d) == d[RiffSize + 1][2] + 2
PlaysBack(d, a) ==
    /\ d[1] = Tag("RIFF") /\ d[MoviStart + 1] = Tag("movi")
    /\ IndexIn(d) + 2 <= Len(d) /\ d[IndexIn(d) + 1] = Tag("idx1")
    /\ EntriesIn(d) = a.index /\ EndIn(d) = IndexIn(d) + 2 + Len(a.index) /\ EndIn(d) <= Len(d)
    /\ Tiles(d, a.index) /\ a.index # <<>>
    /\ MoviStart + After(a.index[Len(a.index)]) = IndexIn(d)
    /\ d[TotalFrames + 1] = Num(a.frames) /\ d[VideoLength + 1] = Num(a.frames)
    /\ \A i \in 1..Len(a.index) : a.index[i].size <= d[VideoBuffer + 1][2]
    /\ a.frames = Len(ShotsOf(a)) /\ a.samples = Len(SoundOf(a))
    /\ Track(d, a.index) = SoundOf(a) /\ d[AudioLength + 1] = Num(a.samples)
LEMMA ReadIs ==
    ASSUME NEW a, Movie(a), ~a.err, a.frames > 0, NEW d, Reads(d, a)
    PROVE  PlaysBack(d, a)
<1> DEFINE W == Position(a.file)
           M == Len(a.index)
           z == Text(a.file)
           index == a.index
<1>1. /\ Avi(a) /\ index \in Seq(Entry) /\ W \in Nat /\ M \in Nat /\ a.frames \in Nat
      /\ a.samples \in Nat /\ a.largest \in Nat /\ z \in Seq(Word) /\ Len(z) = W
  <2>1. Avi(a) BY DEF Movie
  <2> QED BY <2>1, AviIs, LenProperties
<1>2. /\ Framed(z, index, a.largest) /\ a.frames = Len(ShotsOf(a)) /\ a.samples = Len(SoundOf(a))
      /\ W >= MoviStart + 1
  BY MovieIs DEF Movie
<1>3. /\ d \in Seq(Word) /\ Len(d) >= W + 2 + M
      /\ d[RiffSize + 1] = Num(W + M) /\ d[MoviSize + 1] = Num(W - MoviStart)
      /\ d[TotalFrames + 1] = Num(a.frames) /\ d[VideoLength + 1] = Num(a.frames)
      /\ d[VideoBuffer + 1] = Num(a.largest) /\ d[AudioLength + 1] = Num(a.samples)
      /\ d[W + 1] = Tag("idx1") /\ d[W + 2] = Num(M)
      /\ \A i \in 1..M : d[W + 2 + i] = <<"entry", index[i]>>
      /\ \A i \in 1..W : i \notin Fields => d[i] = z[i]
  BY DEF Reads
<1>4. Len(d) \in Nat BY <1>3, LenProperties
<1>5. index # <<>>
  <2>1. ShotsOf(a) # <<>> BY <1>1, <1>2, EmptySeq
  <2> QED BY <2>1, KindEmpty DEF ShotsOf
<1>6. DOMAIN index = 1..M /\ M >= 1
  <2>1. M # 0 BY <1>1, <1>5, EmptySeq
  <2> QED BY <1>1, <2>1, LenProperties
<1>7. /\ z[1] = Tag("RIFF") /\ z[MoviStart + 1] = Tag("movi")
      /\ W = MoviStart + Behind(index) /\ Tiles(z, index)
      /\ \A i \in 1..M : /\ index[i].at >= 1 /\ MoviStart + After(index[i]) <= W
                         /\ index[i].size <= a.largest
  BY <1>1, <1>2 DEF Framed
<1>8. Within(z, index) BY <1>1, <1>2, FramedIs
<1> HIDE DEF W, M, z, index
<1>9. W \in Nat /\ W >= 10 /\ \A i \in 10..W : d[i] = z[i]
  <2>1. Fields = {2, 4, 5, 6, 7, 9}
    BY DEF Fields, RiffSize, MoviSize, TotalFrames, VideoLength, VideoBuffer, AudioLength
  <2>2. W >= 10 BY <1>2 DEF MoviStart
  <2>3. \A i \in 10..W : i \in 1..W /\ i \notin Fields BY <1>1, <2>1
  <2> QED BY <1>1, <1>3, <2>2, <2>3
<1>10. d[1] = Tag("RIFF") /\ d[MoviStart + 1] = Tag("movi")
  <2>1. Fields = {2, 4, 5, 6, 7, 9}
    BY DEF Fields, RiffSize, MoviSize, TotalFrames, VideoLength, VideoBuffer, AudioLength
  <2>2. 1 \in 1..W /\ 1 \notin Fields BY <1>1, <1>9, <2>1
  <2>3. MoviStart + 1 \in 10..W BY <1>1, <1>9 DEF MoviStart
  <2> QED BY <1>3, <1>7, <1>9, <2>2, <2>3
<1>11. ASSUME NEW i \in 1..M
       PROVE  /\ index[i] \in Entry /\ index[i].at >= 1
              /\ MoviStart + index[i].at + 2 + index[i].size <= Len(d)
              /\ MoviStart + index[i].at + 1 \in 10..W /\ MoviStart + index[i].at + 2 \in 10..W
              /\ \A j \in 1..index[i].size : MoviStart + index[i].at + 2 + j \in 10..W
  <2> DEFINE x == index[i]
  <2>1. x \in Entry /\ x.at >= 1 /\ MoviStart + After(x) <= W
    BY <1>1, <1>7, ElementOfSeq DEF M, index
  <2> HIDE DEF x
  <2>2. x.at \in Nat /\ x.size \in Nat BY <2>1, AfterIs
  <2>3. /\ MoviStart + x.at + 2 + x.size <= W
        /\ MoviStart + x.at + 1 \in 1..W /\ MoviStart + x.at + 2 \in 1..W
        /\ \A j \in 1..x.size : MoviStart + x.at + 2 + j \in 1..W
    BY <1>1, <2>1, InEntry
  <2>4. MoviStart + x.at + 2 + x.size <= Len(d) BY <1>1, <1>3, <1>4, <2>2, <2>3 DEF MoviStart
  <2>5. ASSUME NEW j \in 1..x.size PROVE MoviStart + x.at + 2 + j \in 10..W
    <3>1. MoviStart + x.at + 2 + j \in 1..W BY <2>3
    <3>2. MoviStart + x.at + 2 + j >= 10 BY <2>1, <2>2 DEF MoviStart
    <3> QED BY <1>1, <3>1, <3>2
  <2>6. MoviStart + x.at + 1 \in 10..W /\ MoviStart + x.at + 2 \in 10..W
    BY <1>1, <2>1, <2>2, <2>3 DEF MoviStart
  <2> QED BY <2>1, <2>4, <2>5, <2>6 DEF x
<1>12. Tiles(d, index)
  <2>1. ASSUME NEW i \in DOMAIN index
        PROVE  /\ index[i].at = IF i = 1 THEN 1 ELSE After(index[i - 1])
               /\ d[MoviStart + index[i].at + 1] = Tag(index[i].id)
               /\ d[MoviStart + index[i].at + 2] = Num(index[i].size)
    <3>1. /\ index[i].at = IF i = 1 THEN 1 ELSE After(index[i - 1])
          /\ z[MoviStart + index[i].at + 1] = Tag(index[i].id)
          /\ z[MoviStart + index[i].at + 2] = Num(index[i].size)
      BY <1>7 DEF Tiles
    <3>2. MoviStart + index[i].at + 1 \in 10..W /\ MoviStart + index[i].at + 2 \in 10..W
      BY <1>6, <1>11
    <3> QED BY <1>9, <3>1, <3>2
  <2> QED BY <2>1 DEF Tiles
<1>13. Within(d, index) BY <1>11 DEF Within, M, index
<1>14. SameData(z, d, index)
  <2>1. ASSUME NEW i \in 1..M PROVE DataOf(d, index[i]) = DataOf(z, index[i])
    <3> DEFINE x == index[i]
               old == DataOf(z, x)
               new == DataOf(d, x)
    <3>1. x \in Entry BY <1>11
    <3>2. MoviStart + x.at + 2 + x.size <= Len(z) BY <1>8 DEF Within, M, index
    <3>3. MoviStart + x.at + 2 + x.size <= Len(d) BY <1>11
    <3>7. \A j \in 1..x.size : MoviStart + x.at + 2 + j \in 10..W BY <1>11
    <3> HIDE DEF x
    <3>4. /\ old \in Seq(Word) /\ Len(old) = x.size
          /\ \A j \in 1..x.size : old[j] = z[MoviStart + x.at + 2 + j]
      BY <1>1, <3>1, <3>2, DataIs
    <3>5. /\ new \in Seq(Word) /\ Len(new) = x.size
          /\ \A j \in 1..x.size : new[j] = d[MoviStart + x.at + 2 + j]
      BY <1>3, <3>1, <3>3, DataIs
    <3> HIDE DEF old, new
    <3>6. ASSUME NEW j \in 1..x.size PROVE new[j] = old[j]
      BY <1>9, <3>4, <3>5, <3>7
    <3>8. new = old BY <3>4, <3>5, <3>6, SeqEqual
    <3> QED BY <3>8 DEF new, old, x
  <2> QED BY <2>1 DEF SameData, M, index
<1>15. Track(d, index) = Track(z, index)
  BY <1>1, <1>3, <1>8, <1>13, <1>14, TrackSame
<1>16. IndexIn(d) = W
  <2>1. d[MoviSize + 1][2] = W - MoviStart BY <1>3 DEF Num
  <2>2. MoviStart + (W - MoviStart) = W BY <1>1 DEF MoviStart
  <2> QED BY <2>1, <2>2 DEF IndexIn
<1>17. EntriesIn(d) = index
  <2>1. d[W + 2][2] = M BY <1>3 DEF Num
  <2>2. EntriesIn(d) = [i \in 1..M |-> d[W + 2 + i][2]] BY <1>16, <2>1 DEF EntriesIn
  <2>3. \A i \in 1..M : d[W + 2 + i][2] = index[i] BY <1>3
  <2>4. index = [i \in 1..M |-> index[i]] BY <1>1, <1>6
  <2> QED BY <2>2, <2>3, <2>4
<1>18. EndIn(d) = W + 2 + M /\ W + 2 + M <= Len(d) /\ W + 2 <= Len(d)
  <2>1. EndIn(d) = (W + M) + 2 BY <1>3 DEF Num, EndIn
  <2> QED BY <1>1, <1>3, <1>4, <2>1
<1>19. MoviStart + After(index[M]) = W
  <2>1. Behind(index) = After(index[M]) BY <1>5 DEF Behind, M, index
  <2> QED BY <1>7, <2>1
<1>20. \A i \in 1..M : index[i].size <= d[VideoBuffer + 1][2]
  <2>1. d[VideoBuffer + 1][2] = a.largest BY <1>3 DEF Num
  <2> QED BY <1>7, <2>1
<1> QED
  BY <1>2, <1>3, <1>5, <1>10, <1>12, <1>15, <1>16, <1>17, <1>18, <1>19, <1>20
     DEF PlaysBack, SoundOf, z, index, M
-----------------------------------------------------------------------------
(* What is in the file stays in step with the sound while that goes on.       *)
Late(r, n) == r.start <= now /\ (n > 0 => r.start + (n - 1) * Interval(r) <= now)
PlaysOn ==
    \/ played' = played
    \/ played = None /\ played' # None /\ played'.from = now
    \/ played # None /\ played.to = None /\ played' # None /\ played'.from = played.from
LEMMA InPlaceOn ==
    ASSUME NEW r, NEW track, InPlace(r, track), PlaysOn
    PROVE  InPlace(r, track)'
<1>1. ASSUME NEW j \in DOMAIN track, track[j] # Silence
      PROVE  /\ played' # None /\ played'.from = played.from
             /\ -Slack(r, j - 1) <= Heard(track[j][2]) - Recorded(r, j - 1)
             /\ Heard(track[j][2]) - Recorded(r, j - 1) <= Slack(r, j - 1)
  <2>1. /\ played # None
        /\ -Slack(r, j - 1) <= Heard(track[j][2]) - Recorded(r, j - 1)
        /\ Heard(track[j][2]) - Recorded(r, j - 1) <= Slack(r, j - 1)
    BY <1>1 DEF InPlace
  <2> QED BY <2>1 DEF PlaysOn
<1>2. ASSUME NEW j \in DOMAIN track, track[j] # Silence
      PROVE  /\ played' # None
             /\ -Slack(r, j - 1) <= Heard(track[j][2])' - Recorded(r, j - 1)
             /\ Heard(track[j][2])' - Recorded(r, j - 1) <= Slack(r, j - 1)
  <2>1. Heard(track[j][2])' = Heard(track[j][2]) BY <1>1, <1>2 DEF Heard
  <2> QED BY <1>1, <1>2, <2>1
<1> QED BY <1>2 DEF InPlace

(* A slot in which the sound still plays after a step played it before.      *)
LEMMA SoundingOn ==
    ASSUME NEW r, Rated(r), NEW n \in Nat, now \in Nat, Late(r, n), PlaysOn, NEW k \in 0..n - 1,
           Sounding(r, k)'
    PROVE  Sounding(r, k)
<1> DEFINE from == r.start + k * Interval(r)
           to == from + Interval(r)
<1>1. /\ played' # None /\ played'.from < from
      /\ to + Second \div Rate < played'.from + SoundTicks
      /\ played'.to # None => to < played'.to
  BY DEF Sounding
<1>2. CASE played' = played
  BY <1>1, <1>2 DEF Sounding
<1>3. CASE played = None /\ played' # None /\ played'.from = now
  <2> DEFINE I == Interval(r)
             last == n - 1
  <2>1. I \in Nat /\ r.start \in Nat BY RatesAre DEF Rated
  <2>2. k \in Nat /\ last \in Nat /\ k <= last /\ n > 0 OBVIOUS
  <2>3. r.start + last * I <= now BY <2>2 DEF Late
  <2>4. from = r.start + k * I OBVIOUS
  <2> HIDE DEF I, last, from, to
  <2>5. k * I <= last * I /\ k * I \in Nat /\ last * I \in Nat BY <2>1, <2>2, Times
  <2> DEFINE x == k * I
             y == last * I
  <2>6. x <= y /\ x \in Nat /\ y \in Nat /\ from = r.start + x /\ r.start + y <= now
    BY <2>3, <2>4, <2>5
  <2> HIDE DEF x, y
  <2>7. from <= now /\ from \in Nat BY <2>1, <2>6
  <2>8. now < from BY <1>1, <1>3
  <2> QED BY <2>7, <2>8
<1>4. CASE played # None /\ played.to = None /\ played' # None /\ played'.from = played.from
  <2>1. played # None /\ played.from < from /\ to + Second \div Rate < played.from + SoundTicks
    BY <1>1, <1>4
  <2>2. played.to # None => to < played.to BY <1>4
  <2> QED BY <2>1, <2>2 DEF Sounding
<1> QED BY <1>2, <1>3, <1>4 DEF PlaysOn

(* What a recording holds it still holds when the sound goes on or ends.     *)
LEMMA HoldsOn ==
    ASSUME NEW r, Rated(r), NEW n \in Nat, now \in Nat, Late(r, n), PlaysOn, NEW a,
           Holds(a, r, n, n)
    PROVE  Holds(a, r, n, n)'
<1>1. Movie(a) BY DEF Holds
<1>2. ASSUME ~a.err
      PROVE  /\ Len(ShotsOf(a)) = n /\ Len(SoundOf(a)) = Edge(r, n)
             /\ InPlace(r, SoundOf(a))'
             /\ \A k \in 1..Len(ShotsOf(a)) :
                  k <= n /\ ShotsOf(a)[k].size > 0 => Whole(r, k - 1, SoundOf(a))'
  <2>1. /\ Len(ShotsOf(a)) = n /\ Len(SoundOf(a)) = Edge(r, n)
        /\ InPlace(r, SoundOf(a))
        /\ \A k \in 1..Len(ShotsOf(a)) :
             k <= n /\ ShotsOf(a)[k].size > 0 => Whole(r, k - 1, SoundOf(a))
    BY <1>2 DEF Holds
  <2>2. InPlace(r, SoundOf(a))' BY <2>1, InPlaceOn
  <2>3. ASSUME NEW k \in 1..Len(ShotsOf(a)), k <= n, ShotsOf(a)[k].size > 0
        PROVE  Whole(r, k - 1, SoundOf(a))'
    <3>1. Whole(r, k - 1, SoundOf(a)) BY <2>1, <2>3
    <3>2. k - 1 \in 0..n - 1 BY <2>3
    <3>3. Sounding(r, k - 1)' => Sounding(r, k - 1) BY <3>2, SoundingOn
    <3> QED BY <3>1, <3>3 DEF Whole
  <2> QED BY <2>1, <2>2, <2>3
<1>3. Movie(a)' BY <1>1
<1> QED BY <1>2, <1>3 DEF Holds
-----------------------------------------------------------------------------
(* The room on the volume is nothing to what has been recorded.               *)
LEMMA HoldsRoom ==
    ASSUME NEW a, NEW r, NEW n \in Nat, Holds(a, r, n, n), NEW left \in Nat
    PROVE  Holds([a EXCEPT !.file.room = left], r, n, n)
<1> DEFINE b == [a EXCEPT !.file.room = left]
<1>1. Movie(a) BY DEF Holds
<1>2. Avi(a) BY <1>1 DEF Movie
<1>3. /\ Avi(b) /\ Same(a, b) /\ b.err = a.err
      /\ Text(b.file) = Text(a.file) /\ Position(b.file) = Position(a.file)
  BY <1>2, RoomIs
<1> HIDE DEF b
<1>4. ShotsOf(b) = ShotsOf(a) /\ SoundOf(b) = SoundOf(a) BY <1>3 DEF Same, ShotsOf, SoundOf
<1>5. Movie(b) BY <1>1, <1>3, <1>4 DEF Movie, Same
<1>6. Holds(b, r, n, n) BY <1>3, <1>4, <1>5 DEF Holds
<1> QED BY <1>6 DEF b

(* A recording begins with nothing in it.                                     *)
LEMMA NewHolds ==
    ASSUME NEW r, Rated(r), NEW old \in Seq(Word), NEW left \in Nat, ~NewAvi(old, left).err
    PROVE  Holds(NewAvi(old, left), r, 0, 0)
<1> DEFINE a == NewAvi(old, left)
<1>1. Movie(a) /\ ShotsOf(a) = <<>> /\ SoundOf(a) = <<>> BY NewAviIs
<1> HIDE DEF a
<1>2. Len(<<>>) = 0 /\ DOMAIN <<>> = {} BY EmptySeq
<1>3. Edge(r, 0) = 0
  <2>1. r.fps \in Nat \ {0} /\ Rate \in Nat BY RatesAre
  <2>2. 0 * Rate = 0 /\ 0 \div r.fps = 0 BY <2>1
  <2> QED BY <2>2 DEF Edge
<1>4. InPlace(r, <<>>) BY <1>2 DEF InPlace
<1>5. Holds(a, r, 0, 0) BY <1>1, <1>2, <1>3, <1>4 DEF Holds
<1> QED BY <1>5 DEF a

(* A file that was closed well.                                               *)
Final(d, r) ==
    /\ Rated(r) /\ r.frames \in Nat /\ Late(r, r.frames)
    /\ \E a : Holds(a, r, r.frames, r.frames) /\ ~a.err /\ a.frames > 0 /\ Reads(d, a)
LEMMA FinalOn ==
    ASSUME NEW r, NEW d, Final(d, r), now \in Nat, now' \in Nat, now <= now', PlaysOn
    PROVE  Final(d, r)'
<1>1. PICK a : Holds(a, r, r.frames, r.frames) /\ ~a.err /\ a.frames > 0 /\ Reads(d, a)
  BY DEF Final
<1>2. Rated(r) /\ r.frames \in Nat /\ Late(r, r.frames) BY DEF Final
<1>3. Holds(a, r, r.frames, r.frames)' BY <1>1, <1>2, HoldsOn
<1>4. Late(r, r.frames)'
  <2> DEFINE x == (r.frames - 1) * Interval(r)
  <2>1. r.start \in Nat /\ Interval(r) \in Nat BY <1>2, RatesAre DEF Rated
  <2>2. x \in Int BY <1>2, <2>1
  <2>3. r.start <= now /\ (r.frames > 0 => r.start + x <= now) BY <1>2 DEF Late
  <2> HIDE DEF x
  <2>4. r.start <= now' /\ (r.frames > 0 => r.start + x <= now') BY <2>1, <2>2, <2>3
  <2> QED BY <2>4 DEF Late, x
<1> QED BY <1>1, <1>2, <1>3, <1>4 DEF Final, Rated
(* rec_stop: a session that ends clean leaves a finished recording.          *)
LEMMA CloseIs ==
    ASSUME NEW a, Movie(a), NEW r, Rated(r), r.frames \in Nat, Late(r, r.frames),
           ~a.err => Holds(a, r, r.frames, r.frames), NEW why, Close(a, r, why)
    PROVE  /\ rec' = [r EXCEPT !.armed = FALSE, !.running = FALSE, !.done = TRUE]
           /\ Clean' => saved'.rec = r /\ Final(disk', r)
<1> DEFINE c == Closed(a)
<1>1. /\ disk' = c.file.disk
      /\ saved' = [clean |-> ~c.err /\ c.frames > 0, why |-> why, rec |-> r, frames |-> c.frames]
      /\ rec' = [r EXCEPT !.armed = FALSE, !.running = FALSE, !.done = TRUE]
  BY DEF Close
<1>2. /\ c.err \in BOOLEAN /\ c.frames = a.frames
      /\ ~c.err /\ c.frames > 0 => ~a.err /\ Reads(c.file.disk, a)
  BY ClosedIs
<1> HIDE DEF c
<1>3. ASSUME Clean' PROVE saved'.rec = r /\ Final(disk', r)
  <2>1. ~c.err /\ c.frames > 0
    <3>1. saved'.clean = (~c.err /\ c.frames > 0) BY <1>1
    <3>2. saved'.clean BY <1>3 DEF Clean
    <3> QED BY <3>1, <3>2
  <2>2. saved'.rec = r BY <1>1
  <2>3. ~a.err /\ a.frames > 0 /\ Reads(disk', a) BY <1>1, <1>2, <2>1
  <2>4. Holds(a, r, r.frames, r.frames) BY <2>3
  <2>5. Final(disk', r) BY <2>3, <2>4 DEF Final
  <2> QED BY <2>2, <2>5
<1> QED BY <1>1, <1>3

(* A file that was closed well is one a player can play, in step.             *)
LEMMA FinalPlays ==
    ASSUME NEW r, Final(disk, r), saved.rec = r
    PROVE  Playable /\ SoundInPlace
<1>1. PICK a : Holds(a, r, r.frames, r.frames) /\ ~a.err /\ a.frames > 0 /\ Reads(disk, a)
  BY DEF Final
<1>2. Movie(a) BY <1>1 DEF Holds
<1> DEFINE index == a.index
<1>3. PlaysBack(disk, a) BY <1>1, <1>2, ReadIs
<1>4. Entries = index /\ IndexAt = IndexIn(disk) /\ End = EndIn(disk)
  BY <1>3 DEF PlaysBack, Entries, IndexAt, End, EntriesIn, IndexIn, EndIn
<1>5. /\ Len(ShotsOf(a)) = r.frames /\ Len(SoundOf(a)) = Edge(r, r.frames)
      /\ InPlace(r, SoundOf(a))
      /\ \A k \in 1..Len(ShotsOf(a)) :
           k <= r.frames /\ ShotsOf(a)[k].size > 0 => Whole(r, k - 1, SoundOf(a))
  BY <1>1 DEF Holds
<1>6. /\ Kind(index, "00dc") = ShotsOf(a) /\ Track(disk, index) = SoundOf(a)
      /\ a.frames = Len(ShotsOf(a)) /\ a.samples = Len(SoundOf(a))
  BY <1>3 DEF PlaysBack, ShotsOf
<1>7. Playable
  <2>1. DOMAIN index = 1..Len(index)
    <3>1. index \in Seq(Entry) BY <1>2, AviIs DEF Movie
    <3> QED BY <3>1, LenProperties
  <2>2. /\ disk[1] = Tag("RIFF") /\ disk[MoviStart + 1] = Tag("movi")
        /\ IndexIn(disk) + 2 <= Len(disk) /\ disk[IndexIn(disk) + 1] = Tag("idx1")
        /\ EndIn(disk) = IndexIn(disk) + 2 + Len(index) /\ EndIn(disk) <= Len(disk)
        /\ Tiles(disk, index)
        /\ MoviStart + After(index[Len(index)]) = IndexIn(disk)
        /\ disk[TotalFrames + 1] = Num(a.frames) /\ disk[VideoLength + 1] = Num(a.frames)
        /\ \A i \in 1..Len(index) : index[i].size <= disk[VideoBuffer + 1][2]
        /\ disk[AudioLength + 1] = Num(a.samples)
    BY <1>3 DEF PlaysBack
  <2> HIDE DEF index
  <2> QED BY <1>4, <1>5, <1>6, <2>1, <2>2 DEF Playable
<1>8. SoundInPlace
  <2>1. DOMAIN ShotsOf(a) = 1..r.frames
    <3>1. ShotsOf(a) \in Seq(Entry) BY <1>1, <1>2, MovieIs
    <3> QED BY <1>5, <3>1, LenProperties
  <2>2. \A k \in DOMAIN ShotsOf(a) : ShotsOf(a)[k].size > 0 => Whole(r, k - 1, SoundOf(a))
    <3>1. ASSUME NEW k \in 1..r.frames PROVE k <= r.frames
      <4>1. r.frames \in Nat BY DEF Final
      <4> QED BY <4>1
    <3> QED BY <1>5, <2>1, <3>1
  <2>3. /\ InPlace(saved.rec, Track(disk, Entries))
        /\ \A k \in DOMAIN Kind(Entries, "00dc") :
             Kind(Entries, "00dc")[k].size > 0 => Whole(saved.rec, k - 1, Track(disk, Entries))
    <3> HIDE DEF index
    <3> QED BY <1>4, <1>5, <1>6, <2>2
  <2> QED BY <2>3 DEF SoundInPlace
<1> QED BY <1>7, <1>8
-----------------------------------------------------------------------------
(* One picture, and one step.                                                 *)
Recs == [armed : BOOLEAN, running : BOOLEAN, done : BOOLEAN, fps : FpsMin..FpsMax,
         start : Nat, frames : Nat]
LEMMA RecIs ==
    ASSUME NEW r \in Recs, NEW n \in Nat
    PROVE  /\ Rated(r) /\ r.frames \in Nat /\ [r EXCEPT !.frames = n] \in Recs
           /\ [r EXCEPT !.frames = n].fps = r.fps /\ [r EXCEPT !.frames = n].start = r.start
           /\ [r EXCEPT !.frames = n].frames = n
           /\ [r EXCEPT !.frames = n].running = r.running
           /\ [r EXCEPT !.frames = n].done = r.done
  BY DEF Recs, Rated
LEMMA HoldsSame ==
    ASSUME NEW r, NEW s, r.fps = s.fps, r.start = s.start, NEW a, NEW v, NEW n,
           Holds(a, r, v, n)
    PROVE  Holds(a, s, v, n)
<1>1. \A k : Edge(s, k) = Edge(r, k) BY DEF Edge
<1>2. Interval(s) = Interval(r) BY DEF Interval
<1>3. \A j : Slack(s, j) = Slack(r, j) BY DEF Slack
<1>4. \A j : Recorded(s, j) = Recorded(r, j) BY DEF Recorded
<1>5. \A k : Sounding(s, k) = Sounding(r, k) BY <1>2 DEF Sounding
<1>6. ASSUME NEW track, InPlace(r, track) PROVE InPlace(s, track)
  BY <1>3, <1>4, <1>6 DEF InPlace
<1>7. ASSUME NEW k, NEW track, Whole(r, k, track) PROVE Whole(s, k, track)
  BY <1>1, <1>5, <1>7 DEF Whole
<1> QED BY <1>1, <1>6, <1>7 DEF Holds

(* cap_session_frame goes on with one picture more, or closes the recording. *)
Goes == /\ rec' \in Recs /\ rec'.running /\ ~rec'.done
        /\ Late(rec', rec'.frames) /\ Holds(avi', rec', rec'.frames, rec'.frames)
        /\ saved' = saved
Ends1(r) == /\ rec' = [r EXCEPT !.armed = FALSE, !.running = FALSE, !.done = TRUE]
            /\ Clean' => saved'.rec = r /\ Final(disk', r)
LEMMA StoreIs ==
    ASSUME NEW r \in Recs, r.running, ~r.done, Tuned, now \in Nat, Late(r, r.frames), NEW a,
           Holds(a, r, r.frames, r.frames), NEW p \in Pictures, Store(a, r, p)
    PROVE  Goes \/ Ends1(r)
<1> DEFINE slot == Slot(r)
           stored == Stored(a, r, p)
<1>1. Rated(r) /\ r.frames \in Nat
  <2>1. 0 \in Nat OBVIOUS
  <2> QED BY <2>1, RecIs
<1>2. Movie(a) BY DEF Holds
<1>3. \/ slot < r.frames /\ rec' = r /\ avi' = a /\ saved' = saved
      \/ Close(a, r, "limit")
      \/ slot >= r.frames /\ stored.err /\ Close(stored, r, "write")
      \/ /\ slot >= r.frames /\ rec' = [r EXCEPT !.frames = slot + 1] /\ avi' = stored
         /\ saved' = saved
  <2>1. slot \in Nat BY <1>1, SlotIs DEF Late
  <2>2. slot < r.frames \/ slot >= r.frames BY <1>1, <2>1
  <2> QED BY <2>2 DEF Store, Stored
<1>4. CASE slot < r.frames /\ rec' = r /\ avi' = a /\ saved' = saved
  BY <1>4 DEF Goes
<1>5. CASE Close(a, r, "limit")
  BY <1>1, <1>2, <1>5, CloseIs DEF Ends1
<1>6. ASSUME slot >= r.frames
      PROVE  /\ slot \in Nat /\ Holds(stored, r, slot + 1, slot + 1)
             /\ r.start + slot * Interval(r) <= now
  <2>1. r.start <= now BY DEF Late
  <2>2. slot \in Nat /\ r.start + slot * Interval(r) <= now BY <1>1, <2>1, SlotIs
  <2>3. r.frames <= Slot(r) BY <1>1, <1>6, <2>2
  <2> QED BY <1>1, <2>1, <2>2, <2>3, StoredHolds
<1> HIDE DEF slot, stored
<1>7. CASE slot >= r.frames /\ stored.err /\ Close(stored, r, "write")
  <2>1. Movie(stored) BY <1>6, <1>7 DEF Holds
  <2> QED BY <1>1, <1>7, <2>1, CloseIs DEF Ends1
<1>8. CASE /\ slot >= r.frames /\ rec' = [r EXCEPT !.frames = slot + 1] /\ avi' = stored
           /\ saved' = saved
  <2> DEFINE n == slot + 1
  <2>1. n \in Nat /\ n - 1 = slot BY <1>6, <1>8
  <2>7. rec' = [r EXCEPT !.frames = n] BY <1>8
  <2>8. Holds(stored, r, n, n) BY <1>6, <1>8
  <2>9. r.start + (n - 1) * Interval(r) <= now BY <1>6, <1>8, <2>1
  <2> HIDE DEF n
  <2>2. /\ rec' \in Recs /\ rec'.fps = r.fps /\ rec'.start = r.start /\ rec'.frames = n
        /\ rec'.running = r.running /\ rec'.done = r.done
    BY <2>1, <2>7, RecIs
  <2>3. Holds(avi', rec', n, n)
    <3>1. PICK s : s = rec' OBVIOUS
    <3>2. r.fps = s.fps /\ r.start = s.start BY <2>2, <3>1
    <3>3. Holds(stored, s, n, n) BY <2>8, <3>2, HoldsSame
    <3>4. avi' = stored BY <1>8
    <3> QED BY <3>1, <3>3, <3>4
  <2>4. Late(rec', n)
    <3>1. r.start <= now BY DEF Late
    <3>2. Interval(rec') = Interval(r) BY <2>2 DEF Interval
    <3> QED BY <2>2, <2>9, <3>1, <3>2 DEF Late
  <2> QED BY <1>8, <2>2, <2>3, <2>4 DEF Goes
<1> QED BY <1>3, <1>4, <1>5, <1>7, <1>8
-----------------------------------------------------------------------------
(* The inductive invariant.  What has been recorded is in step with the sound *)
(* as far as it has been played; the sound is played once, from a clock that  *)
(* is not behind any slot; and a file that was closed well is that movie.     *)
Played ==
    /\ now \in Nat /\ Tuned
    /\ sound = "ready" => played = None
    /\ sound = "running" => played # None /\ played.to = None
    /\ sound # "running" => played = None \/ played.to # None
    /\ stage = "boot" => played = None
Taken ==
    /\ room \in Nat /\ rec \in Recs
    /\ stage = "boot" => ~rec.running /\ rec.frames = 0
    /\ Late(rec, rec.frames)
    /\ ~rec.running /\ ~rec.done => disk = OldFile
    /\ rec.running => ~rec.done /\ Holds(avi, rec, rec.frames, rec.frames)
    /\ saved # None => rec.done
    /\ Clean => Final(disk, saved.rec)
IInv == Played /\ Taken

(* The invariant holds before anything is armed.                             *)
LEMMA InitInv == Init => IInv
<1> SUFFICES ASSUME Init PROVE IInv OBVIOUS
<1>1. tap = [set |-> FALSE, samples |-> 0, started |-> FALSE, start |-> 0]
  BY DEF Init, Untapped
<1>2. Played
  <2>1. tap \in Taps BY <1>1 DEF Taps
  <2>2. ~Tapped BY <1>1 DEF Tapped
  <2>3. now = 0 /\ played = None /\ sound = "none" BY DEF Init
  <2> QED BY <2>1, <2>2, <2>3 DEF Played, Tuned, Plays
<1>3. rec \in Recs /\ ~rec.running /\ rec.start = 0 /\ rec.frames = 0
  <2>1. FpsMin \in FpsMin..FpsMax BY RecorderAssumption
  <2>2. rec = [armed |-> FALSE, running |-> FALSE, done |-> FALSE, fps |-> FpsMin,
               start |-> 0, frames |-> 0]
    BY DEF Init, Unarmed
  <2> QED BY <2>1, <2>2 DEF Recs
<1>4. now = 0 /\ saved = None /\ disk = OldFile /\ room \in Nat
  BY RecorderAssumption DEF Init
<1>5. Late(rec, rec.frames) BY <1>3, <1>4 DEF Late
<1>6. Taken BY <1>3, <1>4, <1>5 DEF Taken, Clean
<1> QED BY <1>2, <1>6 DEF IInv

(* A step that leaves the recording alone keeps what was recorded in step.    *)
LEMMA TakenOn ==
    ASSUME IInv, Played', now <= now', PlaysOn, room' \in Nat,
           rec' = rec, avi' = avi, disk' = disk, saved' = saved,
           stage' = "boot" => stage = "boot"
    PROVE  Taken'
<1>1. PICK r : r = rec OBVIOUS
<1>2. PICK a : a = avi OBVIOUS
<1>3. PICK d : d = disk OBVIOUS
<1>4. PICK s : s = saved OBVIOUS
<1>5. now \in Nat /\ now' \in Nat BY DEF IInv, Played
<1>6. Rated(r) /\ r.frames \in Nat
  <2>1. rec \in Recs /\ 0 \in Nat BY DEF IInv, Taken
  <2> QED BY <1>1, <2>1, RecIs
<1>7. Late(r, r.frames) BY <1>1 DEF IInv, Taken
<1>8. Late(r, r.frames)'
  <2> DEFINE x == (r.frames - 1) * Interval(r)
  <2>1. r.start \in Nat /\ Interval(r) \in Nat BY <1>6, RatesAre DEF Rated
  <2>2. x \in Int BY <1>6, <2>1
  <2>3. r.start <= now /\ (r.frames > 0 => r.start + x <= now) BY <1>7 DEF Late
  <2> HIDE DEF x
  <2>4. r.start <= now' /\ (r.frames > 0 => r.start + x <= now') BY <1>5, <2>1, <2>2, <2>3
  <2> QED BY <2>4 DEF Late, x
<1>9. ASSUME rec.running PROVE ~rec.done /\ Holds(a, r, r.frames, r.frames)'
  <2>1. ~rec.done /\ Holds(a, r, r.frames, r.frames) BY <1>1, <1>2, <1>9 DEF IInv, Taken
  <2> QED BY <1>5, <1>6, <1>7, <2>1, HoldsOn
<1>10. ASSUME Clean PROVE Final(d, s.rec)'
  <2>1. Final(d, s.rec) BY <1>3, <1>4, <1>10 DEF IInv, Taken
  <2> QED BY <1>5, <2>1, FinalOn
<1>11. Clean' = Clean BY DEF Clean
<1>12. (rec.running => Holds(avi, rec, rec.frames, rec.frames)') BY <1>1, <1>2, <1>9
<1>13. (Clean => Final(disk, saved.rec)') BY <1>3, <1>4, <1>10
<1>14. Late(rec, rec.frames)' BY <1>1, <1>8
<1> QED BY <1>9, <1>11, <1>12, <1>13, <1>14 DEF IInv, Taken
-----------------------------------------------------------------------------
(* The sound starts once, and is cut once.                                    *)
LEMMA StartIs ==
    ASSUME Played, played = None, HdaStart(now), now' = now, stage' # "boot"
    PROVE  Played' /\ PlaysOn
<1>1. tap \in Taps /\ now \in Nat BY DEF Played, Tuned
<1>2. tap' = [tap EXCEPT !.set = TRUE, !.samples = Active, !.started = TRUE, !.start = now]
  BY DEF HdaStart
<1>3. Active \in Nat BY RecorderAssumption
<1>4. /\ tap' \in Taps /\ tap'.set = TRUE /\ tap'.samples = Active /\ tap'.started = TRUE
      /\ tap'.start = now
  BY <1>1, <1>2, <1>3 DEF Taps
<1>5. played' = [from |-> now, to |-> None] /\ sound' = "running" BY DEF HdaStart
<1>6. played' \in Plays /\ played' # None /\ played'.from = now /\ played'.to = None
  <2>1. played' \in [from : Nat, to : Nat \cup {None}] BY <1>1, <1>5
  <2> QED BY <1>5, <2>1, NoneAssumption DEF Plays
<1>7. Tapped' = (Active > 0) BY <1>4 DEF Tapped
<1>8. Tuned' BY <1>4, <1>6, <1>7 DEF Tuned
<1>9. Played' BY <1>1, <1>5, <1>6, <1>8 DEF Played
<1>10. PlaysOn BY <1>6 DEF PlaysOn
<1> QED BY <1>9, <1>10

(* hda_play_cut and the end of the stream put an end to the sound.           *)
LEMMA CutIs ==
    ASSUME Played, NEW at, HdaCut(at), at \in Nat, now' \in Nat, at <= now', now <= now',
           stage' # "boot"
    PROVE  Played' /\ PlaysOn
<1>1. now \in Nat /\ Tuned BY DEF Played
<1>2. tap' = Untapped /\ sound' = "none" BY DEF HdaCut
<1>3. tap' \in Taps /\ ~Tapped'
  <2>1. tap' = [set |-> FALSE, samples |-> 0, started |-> FALSE, start |-> 0]
    BY <1>2 DEF Untapped
  <2>2. tap'.set = FALSE BY <2>1
  <2> QED BY <2>1, <2>2 DEF Taps, Tapped
<1>4. CASE sound = "running"
  <2>1. played # None /\ played.to = None BY <1>4 DEF Played
  <2>2. played \in [from : Nat, to : Nat \cup {None}] BY <1>1, <2>1 DEF Tuned, Plays
  <2>3. played' = [played EXCEPT !.to = at] BY <1>4 DEF HdaCut
  <2>4. /\ played' \in [from : Nat, to : Nat \cup {None}] /\ played'.from = played.from
        /\ played'.to = at
    BY <2>2, <2>3
  <2>5. played' # None /\ at # None BY <2>4, NoneAssumption
  <2>6. Tuned' BY <1>3, <2>4, <2>5 DEF Tuned, Plays
  <2>7. Played' BY <1>2, <2>4, <2>5, <2>6 DEF Played
  <2> QED BY <2>1, <2>4, <2>5, <2>7 DEF PlaysOn
<1>5. CASE sound # "running"
  <2>1. played' = played BY <1>5 DEF HdaCut
  <2>2. played = None \/ played.to # None BY <1>5 DEF Played
  <2>3. played # None => played.to \in Nat /\ played.to <= now
    BY <1>1, <2>2 DEF Tuned
  <2>4. played # None => played.to \in Nat /\ played.to <= now' BY <1>1, <2>3
  <2>5. Tuned' BY <1>1, <1>3, <2>1, <2>4 DEF Tuned
  <2>6. Played' BY <1>2, <2>1, <2>2, <2>5 DEF Played
  <2> QED BY <2>1, <2>6 DEF PlaysOn
<1> QED BY <1>4, <1>5

(* How long the sound lasts, in ticks.                                       *)
LEMMA TicksAre == Active \in Nat /\ SoundTicks \in Nat
<1>1. Active \in Nat /\ Second \in Nat /\ Rate \in Nat \ {0} BY RecorderAssumption
<1> DEFINE n == Active * Second
<1>2. n \in Nat BY <1>1
<1>3. SoundTicks = n \div Rate BY DEF SoundTicks
<1> HIDE DEF n
<1>4. n \div Rate \in Nat BY <1>1, <1>2, Divided
<1> QED BY <1>1, <1>3, <1>4

(* The steps that are about the sound and the clock.                          *)
LEMMA ArmStep == ASSUME IInv, Arm PROVE IInv'
<1>1. stage = "boot" /\ ~rec.running /\ rec \in Recs BY DEF Arm, IInv, Taken
<1>2. PICK asked \in RatesAsked : rec' = [rec EXCEPT !.armed = TRUE, !.fps = AskedFps(asked)]
  BY DEF Arm
<1>3. AskedFps(asked) \in FpsMin..FpsMax
  <2>1. asked \in Int /\ FpsMin \in Nat /\ FpsMax \in Nat /\ FpsMin <= FpsMax
    BY RecorderAssumption
  <2> QED BY <2>1 DEF AskedFps
<1>4. /\ rec' \in Recs /\ rec'.running = rec.running /\ rec'.done = rec.done
      /\ rec'.start = rec.start /\ rec'.frames = rec.frames
  <2> DEFINE fps == AskedFps(asked)
  <2>1. fps \in FpsMin..FpsMax BY <1>3
  <2>2. rec' = [rec EXCEPT !.armed = TRUE, !.fps = fps] BY <1>2
  <2> HIDE DEF fps
  <2> QED BY <1>1, <2>1, <2>2 DEF Recs
<1>5. rec.frames = 0 /\ rec.start <= now BY <1>1 DEF IInv, Taken, Late
<1>6. UNCHANGED <<now, stage, room, avi, disk, sound, tap, played, saved>> BY DEF Arm
<1>7. Played'
  <2>1. Tuned' = Tuned BY <1>6 DEF Tuned, Tapped
  <2> QED BY <1>6, <2>1 DEF IInv, Played
<1>8. Late(rec, rec.frames)' BY <1>4, <1>5, <1>6 DEF Late
<1>9. Clean' => Final(disk, saved.rec)'
  <2>1. SUFFICES ASSUME Clean' PROVE Final(disk, saved.rec)' OBVIOUS
  <2>2. Clean BY <1>6, <2>1 DEF Clean
  <2>3. PICK d : d = disk OBVIOUS
  <2>4. PICK s : s = saved OBVIOUS
  <2>5. Final(d, s.rec) /\ now \in Nat BY <2>2, <2>3, <2>4 DEF IInv, Taken, Played
  <2>6. Final(d, s.rec)' BY <1>6, <2>5, FinalOn DEF PlaysOn
  <2> QED BY <1>6, <2>3, <2>4, <2>6
<1>10. Taken' BY <1>1, <1>4, <1>5, <1>6, <1>8, <1>9 DEF IInv, Taken
<1> QED BY <1>7, <1>10 DEF IInv

(* One lemma for each action of the recorder.                                *)
LEMMA ShowEggStep == ASSUME IInv, ShowEgg PROVE IInv'
<1>1. /\ stage = "boot" /\ stage' = "egg" /\ now' = now
      /\ UNCHANGED <<room, rec, avi, disk, saved>>
  BY DEF ShowEgg
<1>2. Played /\ played = None /\ now \in Nat /\ room \in Nat BY <1>1 DEF IInv, Played, Taken
<1>3. Played' /\ PlaysOn
  <2>1. CASE HdaStart(now) BY <1>1, <1>2, <2>1, StartIs
  <2>2. CASE UNCHANGED <<sound, tap, played>>
    <3>1. Tuned' = Tuned BY <1>1, <2>2 DEF Tuned, Tapped
    <3> QED BY <1>1, <1>2, <2>2, <3>1 DEF Played, PlaysOn
  <2> QED BY <2>1, <2>2 DEF ShowEgg
<1>4. Taken' BY <1>1, <1>2, <1>3, TakenOn
<1> QED BY <1>3, <1>4 DEF IInv

LEMMA PrepareSoundStep == ASSUME IInv, PrepareSound PROVE IInv'
<1>1. /\ stage = "boot" /\ stage' = "menu" /\ now' = now
      /\ UNCHANGED <<room, rec, avi, disk, saved, played>>
  BY DEF PrepareSound
<1>2. Played /\ played = None /\ now \in Nat /\ room \in Nat /\ Tuned
  BY <1>1 DEF IInv, Played, Taken
<1>3. Played'
  <2>1. CASE HdaPrepare
    <3>1. sound' = "ready" /\ tap' = [Untapped EXCEPT !.set = TRUE, !.samples = Active]
      BY <2>1 DEF HdaPrepare
    <3>2. Active \in Nat BY TicksAre
    <3>3. tap' = [set |-> TRUE, samples |-> Active, started |-> FALSE, start |-> 0]
      BY <3>1 DEF Untapped
    <3>4. tap' \in Taps /\ tap'.started = FALSE BY <3>2, <3>3 DEF Taps
    <3>5. ~Tapped' BY <3>4 DEF Tapped
    <3>6. Tuned' BY <1>1, <1>2, <3>4, <3>5 DEF Tuned, Plays
    <3> QED BY <1>1, <1>2, <3>1, <3>6 DEF Played
  <2>2. CASE UNCHANGED <<sound, tap>>
    <3>1. Tuned' = Tuned BY <1>1, <2>2 DEF Tuned, Tapped
    <3> QED BY <1>1, <1>2, <2>2, <3>1 DEF Played
  <2> QED BY <2>1, <2>2 DEF PrepareSound
<1>4. Taken' BY <1>1, <1>2, <1>3, TakenOn DEF PlaysOn
<1> QED BY <1>3, <1>4 DEF IInv

LEMMA EndEggStep == ASSUME IInv, EndEgg PROVE IInv'
<1>1. /\ stage' = "menu" /\ now' = Drained /\ HdaCut(Drained)
      /\ UNCHANGED <<room, rec, avi, disk, saved>>
  BY DEF EndEgg
<1>2. Played /\ now \in Nat /\ room \in Nat /\ tap \in Taps BY DEF IInv, Played, Taken, Tuned
<1>3. Drained \in Nat /\ now <= Drained
  <2>1. tap.start \in Nat BY <1>2 DEF Taps
  <2> QED BY <1>2, <2>1, TicksAre DEF Drained
<1>4. Played' /\ PlaysOn BY <1>1, <1>2, <1>3, CutIs
<1>5. Taken' BY <1>1, <1>2, <1>3, <1>4, TakenOn
<1> QED BY <1>4, <1>5 DEF IInv

LEMMA StartSoundStep == ASSUME IInv, StartSound PROVE IInv'
<1>1. /\ stage = "menu" /\ stage' = stage /\ now' = now /\ HdaStart(now) /\ sound = "ready"
      /\ UNCHANGED <<room, rec, avi, disk, saved>>
  BY DEF StartSound
<1>2. Played /\ played = None /\ now \in Nat /\ room \in Nat BY <1>1 DEF IInv, Played, Taken
<1>3. Played' /\ PlaysOn BY <1>1, <1>2, StartIs
<1>4. Taken' BY <1>1, <1>2, <1>3, TakenOn
<1> QED BY <1>3, <1>4 DEF IInv

LEMMA PollSoundStep == ASSUME IInv, PollSound PROVE IInv'
<1>1. /\ stage = "menu" /\ stage' = stage /\ now' = now /\ HdaCut(now)
      /\ UNCHANGED <<room, rec, avi, disk, saved>>
  BY DEF PollSound
<1>2. Played /\ now \in Nat /\ room \in Nat BY DEF IInv, Played, Taken
<1>3. Played' /\ PlaysOn BY <1>1, <1>2, CutIs
<1>4. Taken' BY <1>1, <1>2, <1>3, TakenOn
<1> QED BY <1>3, <1>4 DEF IInv

LEMMA LeaveMenuStep == ASSUME IInv, LeaveMenu PROVE IInv'
<1>1. /\ stage' = "left" /\ now' = now /\ HdaCut(now)
      /\ UNCHANGED <<room, rec, avi, disk, saved>>
  BY DEF LeaveMenu
<1>2. Played /\ now \in Nat /\ room \in Nat BY DEF IInv, Played, Taken
<1>3. Played' /\ PlaysOn BY <1>1, <1>2, CutIs
<1>4. Taken' BY <1>1, <1>2, <1>3, TakenOn
<1> QED BY <1>3, <1>4 DEF IInv

LEMMA AutobootStep == ASSUME IInv, Autoboot PROVE IInv'
<1>1. /\ stage' = "left" /\ now' = now + SoundTicks /\ sound = "ready" /\ sound' = "none"
      /\ tap' = Untapped /\ played' = [from |-> now, to |-> now + SoundTicks]
      /\ UNCHANGED <<room, rec, avi, disk, saved>>
  BY DEF Autoboot
<1>2. Played /\ played = None /\ now \in Nat /\ room \in Nat BY <1>1 DEF IInv, Played, Taken
<1>3. now' \in Nat /\ now <= now' BY <1>1, <1>2, TicksAre
<1>4. tap' \in Taps /\ ~Tapped'
  <2>1. tap' = [set |-> FALSE, samples |-> 0, started |-> FALSE, start |-> 0]
    BY <1>1 DEF Untapped
  <2>2. tap'.set = FALSE BY <2>1
  <2> QED BY <2>1, <2>2 DEF Taps, Tapped
<1>5. /\ played' \in [from : Nat, to : Nat \cup {None}] /\ played'.from = now /\ played'.to = now'
      /\ played' # None /\ played'.to # None
  <2>1. played' = [from |-> now, to |-> now'] BY <1>1
  <2>2. /\ played' \in [from : Nat, to : Nat \cup {None}] /\ played'.from = now
        /\ played'.to = now'
    BY <1>2, <1>3, <2>1
  <2> QED BY <1>3, <2>2, NoneAssumption
<1>6. Tuned' BY <1>3, <1>4, <1>5 DEF Tuned, Plays
<1>7. Played' BY <1>1, <1>3, <1>5, <1>6 DEF Played
<1>8. PlaysOn BY <1>2, <1>5 DEF PlaysOn
<1>9. Taken' BY <1>1, <1>2, <1>3, <1>7, <1>8, TakenOn
<1> QED BY <1>7, <1>9 DEF IInv

(* A step of the clock or of the volume.                                     *)
LEMMA QuietStep ==
    ASSUME IInv, Tick \/ VolumeGone \/ UNCHANGED vars
    PROVE  IInv'
<1>1. /\ stage' = stage /\ UNCHANGED <<rec, avi, disk, saved, sound, tap, played>>
      /\ now' \in {now, now + 1} /\ room' \in {room, 0}
  BY DEF Tick, VolumeGone, vars
<1>2. Played /\ now \in Nat /\ room \in Nat /\ Tuned BY DEF IInv, Played, Taken
<1>3. now' \in Nat /\ now <= now' /\ room' \in Nat BY <1>1, <1>2
<1>4. Tuned'
  <2>1. played # None /\ played.to # None => played.to \in Nat /\ played.to <= now
    BY <1>2 DEF Tuned
  <2>2. played # None /\ played.to # None => played.to \in Nat /\ played.to <= now'
    BY <1>2, <1>3, <2>1
  <2>3. Tapped' = Tapped BY <1>1 DEF Tapped
  <2> QED BY <1>1, <1>2, <2>2, <2>3 DEF Tuned
<1>5. Played' BY <1>1, <1>2, <1>3, <1>4 DEF Played
<1>6. Taken' BY <1>1, <1>3, <1>5, TakenOn DEF PlaysOn
<1> QED BY <1>5, <1>6 DEF IInv
-----------------------------------------------------------------------------
(* The steps that are about the recording.                                    *)
LEMMA StopIs ==
    ASSUME NEW r \in Recs
    PROVE  LET s == [r EXCEPT !.armed = FALSE, !.running = FALSE, !.done = TRUE]
           IN  /\ s \in Recs /\ ~s.running /\ s.done
               /\ s.fps = r.fps /\ s.start = r.start /\ s.frames = r.frames
  BY DEF Recs
LEMMA LateSame ==
    ASSUME NEW r, NEW s, r.fps = s.fps, r.start = s.start, r.frames = s.frames,
           Late(r, r.frames), now' = now
    PROVE  Late(s, s.frames)'
<1>1. Interval(s) = Interval(r) BY DEF Interval
<1> QED BY <1>1 DEF Late

(* The sound a step leaves alone.                                            *)
LEMMA PlayedSame ==
    ASSUME Played, UNCHANGED <<now, sound, tap, played>>, stage' = "boot" => stage = "boot"
    PROVE  Played' /\ PlaysOn
<1>1. Tuned' = Tuned BY DEF Tuned, Tapped
<1> QED BY <1>1 DEF Played, PlaysOn

(* A step that closes the recording keeps the invariant.                     *)
LEMMA EndsStep ==
    ASSUME IInv, UNCHANGED <<now, sound, tap, played, room>>, stage' # "boot",
           NEW r \in Recs, Late(r, r.frames), Ends1(r)
    PROVE  IInv'
<1>1. Played /\ now \in Nat /\ room \in Nat BY DEF IInv, Played, Taken
<1>2. Played' /\ PlaysOn BY <1>1, PlayedSame
<1>3. /\ rec' = [r EXCEPT !.armed = FALSE, !.running = FALSE, !.done = TRUE]
      /\ Clean' => saved'.rec = r /\ Final(disk', r)
  BY DEF Ends1
<1>4. /\ rec' \in Recs /\ ~rec'.running /\ rec'.done
      /\ rec'.fps = r.fps /\ rec'.start = r.start /\ rec'.frames = r.frames
  BY <1>3, StopIs
<1>5. Late(rec, rec.frames)'
  <2>1. PICK s : s = rec' OBVIOUS
  <2>2. Late(s, s.frames)' BY <1>4, <2>1, LateSame
  <2> QED BY <2>1, <2>2
<1>6. Clean' => Final(disk, saved.rec)'
  <2>1. SUFFICES ASSUME Clean' PROVE Final(disk, saved.rec)' OBVIOUS
  <2>2. PICK d : d = disk' OBVIOUS
  <2>3. Final(d, r) /\ saved'.rec = r BY <1>3, <2>1, <2>2
  <2>4. Final(d, r)' BY <1>1, <1>2, <2>3, FinalOn
  <2> QED BY <2>2, <2>3, <2>4
<1>7. Taken' BY <1>1, <1>4, <1>5, <1>6 DEF Taken
<1> QED BY <1>2, <1>7 DEF IInv

(* A step after which the recording goes on keeps the invariant.             *)
LEMMA GoesStep ==
    ASSUME IInv, UNCHANGED <<now, sound, tap, played, room>>, stage' # "boot", ~rec.done, Goes
    PROVE  IInv'
<1>1. Played /\ now \in Nat /\ room \in Nat /\ ~Clean BY DEF IInv, Played, Taken, Clean
<1>2. Played' /\ PlaysOn BY <1>1, PlayedSame
<1>3. PICK s : s = rec' OBVIOUS
<1>4. PICK a : a = avi' OBVIOUS
<1>5. /\ s \in Recs /\ s.running /\ ~s.done /\ Late(s, s.frames) /\ Holds(a, s, s.frames, s.frames)
      /\ saved' = saved
  BY <1>3, <1>4 DEF Goes
<1>6. Rated(s) /\ s.frames \in Nat
  <2>1. 0 \in Nat OBVIOUS
  <2> QED BY <1>5, <2>1, RecIs
<1>7. Holds(a, s, s.frames, s.frames)' BY <1>1, <1>2, <1>5, <1>6, HoldsOn
<1>8. Late(s, s.frames)' BY <1>5, LateSame
<1>9. ~Clean' /\ saved' = None BY <1>1, <1>5 DEF Clean, IInv, Taken
<1>10. /\ rec' \in Recs /\ rec'.running /\ ~rec'.done /\ Late(rec, rec.frames)'
       /\ Holds(avi, rec, rec.frames, rec.frames)'
  BY <1>3, <1>4, <1>5, <1>7, <1>8
<1>11. Taken' BY <1>1, <1>9, <1>10 DEF Taken
<1> QED BY <1>2, <1>11 DEF IInv

(* gui_present: the recording starts, or takes the picture, or passes it by. *)
LEMMA PresentStep ==
    ASSUME IInv, NEW p \in Pictures, Present(p)
    PROVE  IInv'
<1>1. /\ UNCHANGED <<now, stage, room, sound, tap, played>> /\ stage # "boot"
      /\ rec.armed /\ ~rec.done
  BY DEF Present, Takes
<1>2. /\ rec \in Recs /\ Late(rec, rec.frames) /\ saved = None /\ Tuned /\ now \in Nat /\ room \in Nat
      /\ ~rec.running => disk = OldFile
      /\ rec.running => Holds(avi, rec, rec.frames, rec.frames)
  BY <1>1 DEF IInv, Taken, Played
<1>3. CASE CannotStart
  <2>1. rec' = [rec EXCEPT !.armed = FALSE, !.running = FALSE, !.done = TRUE] /\ saved' = saved
    BY <1>3 DEF CannotStart, Stopped
  <2>2. ~Clean' BY <1>2, <2>1 DEF Clean
  <2>3. Ends1(rec) BY <2>1, <2>2 DEF Ends1
  <2> QED BY <1>1, <1>2, <2>3, EndsStep
<1>4. CASE Begin(p)
  <2>1. PICK old \in {<<>>, disk} : ~Began(old).a.err /\ Store(Began(old).a, Began(old).r, p)
    BY <1>4 DEF Begin
  <2>2. old \in Seq(Word)
    <3>1. disk = OldFile BY <1>2, <1>4 DEF Begin
    <3> QED BY <2>1, <3>1, WordIs, EmptySeq
  <2>3. PICK r : r = [rec EXCEPT !.running = TRUE, !.start = now, !.frames = 0] OBVIOUS
  <2>4. /\ r \in Recs /\ r.running /\ ~r.done /\ r.start = now /\ r.frames = 0
    BY <1>1, <1>2, <2>3 DEF Recs
  <2>5. PICK a : a = NewAvi(old, room) OBVIOUS
  <2>6. Began(old).a = a /\ Began(old).r = r BY <2>3, <2>5 DEF Began
  <2>7. Rated(r) BY <2>4, RecIs
  <2>8. Holds(a, r, 0, 0) BY <1>2, <2>1, <2>2, <2>5, <2>6, <2>7, NewHolds
  <2>9. Late(r, r.frames) BY <1>2, <2>4 DEF Late
  <2>10. Store(a, r, p) BY <2>1, <2>6
  <2>11. Holds(a, r, r.frames, r.frames) BY <2>4, <2>8
  <2>12. Goes \/ Ends1(r) BY <1>2, <2>4, <2>9, <2>10, <2>11, StoreIs
  <2> QED BY <1>1, <2>4, <2>9, <2>12, GoesStep, EndsStep
<1>5. CASE rec.running /\ Store([avi EXCEPT !.file.room = room], rec, p)
  <2>1. PICK a : a = [avi EXCEPT !.file.room = room] OBVIOUS
  <2>2. rec.frames \in Nat
    <3>1. 0 \in Nat OBVIOUS
    <3> QED BY <1>2, <3>1, RecIs
  <2>3. Holds(a, rec, rec.frames, rec.frames) BY <1>2, <1>5, <2>1, <2>2, HoldsRoom
  <2>4. Store(a, rec, p) BY <1>5, <2>1
  <2>5. Goes \/ Ends1(rec) BY <1>1, <1>2, <1>5, <2>3, <2>4, StoreIs
  <2> QED BY <1>1, <1>2, <2>5, GoesStep, EndsStep
<1> QED BY <1>3, <1>4, <1>5 DEF Present

(* cap_session_finish: the session ends, before or after its first picture.  *)
LEMMA FinishStep == ASSUME IInv, Finish PROVE IInv'
<1>1. /\ UNCHANGED <<now, room, sound, tap, played>> /\ stage = "left" /\ stage' = "handed"
  BY DEF Finish
<1>2. /\ rec \in Recs /\ Late(rec, rec.frames) /\ Tuned /\ now \in Nat /\ room \in Nat
      /\ rec.running => ~rec.done /\ Holds(avi, rec, rec.frames, rec.frames)
  BY DEF IInv, Taken, Played
<1>3. Rated(rec) /\ rec.frames \in Nat
  <2>1. 0 \in Nat OBVIOUS
  <2> QED BY <1>2, <2>1, RecIs
<1>4. CASE rec.running /\ ~rec.done
  <2>1. PICK a : a = [avi EXCEPT !.file.room = room] OBVIOUS
  <2>2. Close(a, rec, "finish") BY <1>4, <2>1 DEF Finish
  <2>3. Holds(a, rec, rec.frames, rec.frames) BY <1>2, <1>3, <1>4, <2>1, HoldsRoom
  <2>4. Movie(a) BY <2>3 DEF Holds
  <2>5. Ends1(rec) BY <1>2, <1>3, <2>2, <2>3, <2>4, CloseIs DEF Ends1
  <2> QED BY <1>1, <1>2, <2>5, EndsStep
<1>5. CASE ~(rec.running /\ ~rec.done)
  <2>1. rec' = [rec EXCEPT !.armed = FALSE, !.done = TRUE] /\ UNCHANGED <<avi, disk, saved>>
    BY <1>5 DEF Finish
  <2>2. ~rec.running BY <1>2, <1>5
  <2>3. /\ rec' \in Recs /\ ~rec'.running /\ rec'.done
        /\ rec'.fps = rec.fps /\ rec'.start = rec.start /\ rec'.frames = rec.frames
    BY <1>2, <2>1, <2>2 DEF Recs
  <2>4. Played' /\ PlaysOn
    <3>1. Played /\ stage' # "boot" BY <1>1 DEF IInv
    <3> QED BY <1>1, <3>1, PlayedSame
  <2>5. Late(rec, rec.frames)'
    <3>1. PICK s : s = rec' OBVIOUS
    <3>2. Late(s, s.frames)' BY <1>1, <1>2, <2>3, <3>1, LateSame
    <3> QED BY <3>1, <3>2
  <2>6. Clean' => Final(disk, saved.rec)'
    <3>1. SUFFICES ASSUME Clean' PROVE Final(disk, saved.rec)' OBVIOUS
    <3>2. Clean BY <2>1, <3>1 DEF Clean
    <3>3. PICK d : d = disk OBVIOUS
    <3>4. PICK s : s = saved OBVIOUS
    <3>5. Final(d, s.rec) BY <3>2, <3>3, <3>4 DEF IInv, Taken
    <3>6. Final(d, s.rec)' BY <1>1, <1>2, <2>4, <3>5, FinalOn
    <3> QED BY <2>1, <3>3, <3>4, <3>6
  <2>7. Taken' BY <1>1, <1>2, <2>3, <2>5, <2>6 DEF Taken
  <2> QED BY <2>4, <2>7 DEF IInv
<1> QED BY <1>4, <1>5

(* The invariant is inductive: every action keeps it.                        *)
LEMMA NextInv == IInv /\ [Next]_vars => IInv'
<1> SUFFICES ASSUME IInv, [Next]_vars PROVE IInv' OBVIOUS
<1>1. CASE Arm BY <1>1, ArmStep
<1>2. CASE ShowEgg BY <1>2, ShowEggStep
<1>3. CASE PrepareSound BY <1>3, PrepareSoundStep
<1>4. CASE EndEgg BY <1>4, EndEggStep
<1>5. CASE StartSound BY <1>5, StartSoundStep
<1>6. CASE PollSound BY <1>6, PollSoundStep
<1>7. CASE LeaveMenu BY <1>7, LeaveMenuStep
<1>8. CASE Autoboot BY <1>8, AutobootStep
<1>9. CASE \E p \in Pictures : Present(p) BY <1>9, PresentStep
<1>10. CASE Finish BY <1>10, FinishStep
<1>11. CASE Tick BY <1>11, QuietStep
<1>12. CASE VolumeGone BY <1>12, QuietStep
<1>13. CASE UNCHANGED vars BY <1>13, QuietStep
<1> QED
  BY <1>1, <1>2, <1>3, <1>4, <1>5, <1>6, <1>7, <1>8, <1>9, <1>10, <1>11, <1>12, <1>13 DEF Next

(* The invariant gives the two properties.                                   *)
LEMMA InvPlays == IInv => Playable /\ SoundInPlace
<1> SUFFICES ASSUME IInv PROVE Playable /\ SoundInPlace OBVIOUS
<1>1. CASE Clean
  <2>1. PICK r : r = saved.rec OBVIOUS
  <2>2. Final(disk, r) BY <1>1, <2>1 DEF IInv, Taken
  <2> QED BY <2>1, <2>2, FinalPlays
<1>2. CASE ~Clean BY <1>2 DEF Playable, SoundInPlace
<1> QED BY <1>1, <1>2

(* Every recording that ends without an error plays: its header's sizes and  *)
(* counts are those of what follows, its index leads to every picture and    *)
(* every piece of sound, and the sound is as long as the pictures.           *)
THEOREM SpecPlayable == Spec => []Playable
<1>1. IInv => Playable BY InvPlays
<1> QED BY <1>1, InitInv, NextInv, PTL DEF Spec

(* In every recording that ends without an error each sample stands where    *)
(* the controller played it, within the rounding, and a slot encoded from the*)
(* screen while the sound played has no silence in it.                       *)
THEOREM SpecSoundInPlace == Spec => []SoundInPlace
<1>1. IInv => SoundInPlace BY InvPlays
<1> QED BY <1>1, InitInv, NextInv, PTL DEF Spec
=============================================================================
