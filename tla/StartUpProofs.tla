--------------------------- MODULE StartUpProofs ---------------------------
(* For every disk, configuration and number of starts: a TPM probe that      *)
(* hangs is not repeated, and a one-shot entry decides one boot.  Both rest  *)
(* on facts about where in a start the program is when the power goes.  Then *)
(* the boot counters: a rename never loses an entry, and a start pays for    *)
(* its first hand-over on disk.                                              *)
EXTENDS StartUp, SequenceTheorems, WellFoundedInduction, TLAPS

-----------------------------------------------------------------------------
(* The types of the state the two properties are about.                      *)
Typing ==
    /\ hangs \in Nat /\ boots \in Nat /\ faults \in Nat
    /\ asked \in Nat /\ kept \in Nat /\ obeyed \in Nat
    /\ config \in [tpm : BOOLEAN, loaderVars : BOOLEAN, autoboot : BOOLEAN, once : BOOLEAN]

(* The probe runs only behind the marker "probing", and a start that hung in *)
(* it leaves a marker that keeps the next ones out.                          *)
ProbeInv ==
    /\ hangs <= 1
    /\ hangs = 1 => marker \in {"probing", "disabled"}
    /\ pc = "probe" => hangs = 0 /\ marker = "probing"

(* Until the overrides are applied nothing is obeyed in this start.          *)
FreshInv == pc \in {"tpm", "probe", "loader"} => ~config.once

(* A request is on record in the variable, then only in this start's memory  *)
(* until the first boot, then in the count of those obeyed.                  *)
Pending == IF oneShot = None THEN 0 ELSE 1
Armed == IF pc = "select" /\ boots = 0 /\ config.once THEN 1 ELSE 0
CountInv == obeyed + Pending + Armed <= asked + kept

IInv == Typing /\ ProbeInv /\ FreshInv /\ CountInv

-----------------------------------------------------------------------------
(* The initial states have every part of the invariant.                      *)
LEMMA InitInv == Init => IInv
<1> SUFFICES ASSUME Init PROVE IInv OBVIOUS
<1>1. Typing
  <2>1. config \in [tpm : BOOLEAN, loaderVars : BOOLEAN, autoboot : BOOLEAN, once : {FALSE}]
    BY ConfigsAssumption DEF Init
  <2> QED BY <2>1 DEF Init, Typing
<1>2. ProbeInv /\ FreshInv BY DEF Init, ProbeInv, FreshInv
<1>3. CountInv BY DEF Init, CountInv, Pending, Armed
<1> QED BY <1>1, <1>2, <1>3 DEF IInv

(* What the overrides do to a request: it stays, it is dropped with a name   *)
(* nobody has, or it is armed, and then the variable is gone or the firmware *)
(* has refused to delete it.                                                 *)
LEMMA Overrides ==
    ASSUME Typing, ApplyOverrides
    PROVE  /\ pc' = "select" /\ UNCHANGED <<marker, boots, hangs, asked, obeyed>>
           /\ config' \in [tpm : BOOLEAN, loaderVars : BOOLEAN, autoboot : BOOLEAN,
                           once : BOOLEAN]
           /\ kept' \in Nat /\ faults' \in Nat
           /\ \/ UNCHANGED <<oneShot, kept>> /\ (config'.once => config.once)
              \/ oneShot # None /\ oneShot' = None /\ kept' = kept
              \/ oneShot # None /\ oneShot' = oneShot /\ kept' = kept + 1
<1>1. pc' = "select" /\ UNCHANGED <<marker, boots, hangs, asked, obeyed>>
  BY DEF ApplyOverrides
<1>2. CASE ~config.loaderVars BY <1>1, <1>2 DEF ApplyOverrides, Typing
<1>3. CASE config.loaderVars
  <2> DEFINE once == Named(oneShot)
  <2>1. config' = [config EXCEPT !.autoboot = @ \/ once # None, !.once = once # None]
    BY <1>3 DEF ApplyOverrides
  <2>2. IF oneShot = None THEN UNCHANGED <<oneShot, faults, kept>> ELSE Consumed(once)
    BY <1>3 DEF ApplyOverrides
  <2>3. oneShot = None => once = None BY DEF Named
  <2> HIDE DEF once
  <2>4. config' \in [tpm : BOOLEAN, loaderVars : BOOLEAN, autoboot : BOOLEAN,
                    once : BOOLEAN]
    BY <2>1 DEF Typing
  <2>5. config'.once = (once # None) BY <2>1 DEF Typing
  <2> QED BY <1>1, <2>2, <2>3, <2>4, <2>5 DEF Consumed, Typing
<1> QED BY <1>2, <1>3

(* Every step keeps the types.                                               *)
LEMMA StepTyping == ASSUME Typing, [Next]_vars PROVE Typing'
<1>1. CASE PowerOn
  BY <1>1, ConfigsAssumption DEF PowerOn, durable, session, history, Typing
<1>2. CASE PowerOff
  BY <1>2 DEF PowerOff, durable, session, history, Typing
<1>3. CASE TpmOff
  BY <1>3 DEF TpmOff, Skip, durable, session, history, Typing
<1>4. CASE TpmDied
  BY <1>4 DEF TpmDied, Skip, Mark, durable, session, history, Typing
<1>5. CASE TpmBegin
  BY <1>5 DEF TpmBegin, Mark, durable, session, history, Typing
<1>6. CASE TpmHangs
  BY <1>6 DEF TpmHangs, durable, session, history, Typing
<1>7. CASE TpmEnd
  BY <1>7 DEF TpmEnd, Skip, Mark, durable, session, history, Typing
<1>8. CASE ApplyOverrides
  BY <1>8, Overrides DEF ApplyOverrides, Consumed, durable, session, history,
     Typing
<1>9. CASE Autoboot
  BY <1>9 DEF Autoboot, durable, session, history, Typing
<1>10. CASE Count
  BY <1>10 DEF Count, durable, session, history, Typing
<1>11. ASSUME NEW n \in DOMAIN entries, Choose(n) PROVE Typing'
  BY <1>11 DEF Choose, durable, session, history, Typing
<1>12. CASE RenameCreate
  BY <1>12 DEF RenameCreate, durable, session, history, Typing
<1>13. CASE RenameDelete
  BY <1>13 DEF RenameDelete, Slip, durable, session, history, Typing
<1>14. CASE RenameFails
  BY <1>14 DEF RenameFails, Slip, durable, session, history, Typing
<1>15. CASE HandOver
  BY <1>15 DEF HandOver, durable, session, history, Typing
<1>16. ASSUME NEW k, RenameWrite(k) PROVE Typing'
  BY <1>16 DEF RenameWrite, Slip, durable, session, history, Typing
<1>17. CASE AskOnce
  BY <1>17 DEF AskOnce, durable, session, history, Typing
<1>18. CASE ClearMarker
  BY <1>18 DEF ClearMarker, durable, session, history, Typing
<1>19. CASE UNCHANGED vars
  BY <1>19 DEF vars, durable, session, history, Typing
<1> QED
  BY <1>1, <1>2, <1>3, <1>4, <1>5, <1>6, <1>7, <1>8, <1>9, <1>10, <1>11, <1>12,
     <1>13, <1>14, <1>15, <1>16, <1>17, <1>18, <1>19 DEF Next

(* Every step keeps the marker where a hang would leave it.                  *)
LEMMA StepProbe == ASSUME ProbeInv, Typing, [Next]_vars PROVE ProbeInv'
<1>1. CASE PowerOn
  BY <1>1 DEF PowerOn, durable, session, history, ProbeInv
<1>2. CASE PowerOff
  BY <1>2 DEF PowerOff, durable, session, history, ProbeInv
<1>3. CASE TpmOff
  BY <1>3 DEF TpmOff, Skip, durable, session, history, ProbeInv
<1>4. CASE TpmDied
  BY <1>4 DEF TpmDied, Skip, Mark, durable, session, history, ProbeInv
<1>5. CASE TpmBegin
  BY <1>5 DEF TpmBegin, Mark, durable, session, history, ProbeInv, Typing
<1>6. CASE TpmHangs
  BY <1>6 DEF TpmHangs, durable, session, history, ProbeInv, Typing
<1>7. CASE TpmEnd
  BY <1>7 DEF TpmEnd, Skip, Mark, durable, session, history, ProbeInv
<1>8. CASE ApplyOverrides
  BY <1>8, Overrides DEF ApplyOverrides, Consumed, durable, session, history,
     ProbeInv
<1>9. CASE Autoboot
  BY <1>9 DEF Autoboot, durable, session, history, ProbeInv
<1>10. CASE Count
  BY <1>10 DEF Count, durable, session, history, ProbeInv
<1>11. ASSUME NEW n \in DOMAIN entries, Choose(n) PROVE ProbeInv'
  BY <1>11 DEF Choose, durable, session, history, ProbeInv
<1>12. CASE RenameCreate
  BY <1>12 DEF RenameCreate, durable, session, history, ProbeInv
<1>13. CASE RenameDelete
  BY <1>13 DEF RenameDelete, Slip, durable, session, history, ProbeInv
<1>14. CASE RenameFails
  BY <1>14 DEF RenameFails, Slip, durable, session, history, ProbeInv
<1>15. CASE HandOver
  BY <1>15 DEF HandOver, durable, session, history, ProbeInv
<1>16. ASSUME NEW k, RenameWrite(k) PROVE ProbeInv'
  BY <1>16 DEF RenameWrite, Slip, durable, session, history, ProbeInv
<1>17. CASE AskOnce
  BY <1>17 DEF AskOnce, durable, session, history, ProbeInv
<1>18. CASE ClearMarker
  BY <1>18 DEF ClearMarker, durable, session, history, ProbeInv
<1>19. CASE UNCHANGED vars
  BY <1>19 DEF vars, durable, session, history, ProbeInv
<1> QED
  BY <1>1, <1>2, <1>3, <1>4, <1>5, <1>6, <1>7, <1>8, <1>9, <1>10, <1>11, <1>12,
     <1>13, <1>14, <1>15, <1>16, <1>17, <1>18, <1>19 DEF Next

(* Every step before the overrides leaves the start without a request.       *)
LEMMA StepFresh == ASSUME FreshInv, Typing, [Next]_vars PROVE FreshInv'
<1>1. CASE PowerOn
  BY <1>1, ConfigsAssumption DEF PowerOn, durable, session, history, FreshInv
<1>2. CASE PowerOff
  BY <1>2 DEF PowerOff, durable, session, history, FreshInv
<1>3. CASE TpmOff
  BY <1>3 DEF TpmOff, Skip, durable, session, history, FreshInv
<1>4. CASE TpmDied
  BY <1>4 DEF TpmDied, Skip, Mark, durable, session, history, FreshInv
<1>5. CASE TpmBegin
  BY <1>5 DEF TpmBegin, Mark, durable, session, history, FreshInv
<1>6. CASE TpmHangs
  BY <1>6 DEF TpmHangs, durable, session, history, FreshInv
<1>7. CASE TpmEnd
  BY <1>7 DEF TpmEnd, Skip, Mark, durable, session, history, FreshInv
<1>8. CASE ApplyOverrides
  BY <1>8 DEF ApplyOverrides, Consumed, durable, session, history, FreshInv
<1>9. CASE Autoboot
  BY <1>9 DEF Autoboot, durable, session, history, FreshInv
<1>10. CASE Count
  BY <1>10 DEF Count, durable, session, history, FreshInv
<1>11. ASSUME NEW n \in DOMAIN entries, Choose(n) PROVE FreshInv'
  BY <1>11 DEF Choose, durable, session, history, FreshInv
<1>12. CASE RenameCreate
  BY <1>12 DEF RenameCreate, durable, session, history, FreshInv
<1>13. CASE RenameDelete
  BY <1>13 DEF RenameDelete, Slip, durable, session, history, FreshInv
<1>14. CASE RenameFails
  BY <1>14 DEF RenameFails, Slip, durable, session, history, FreshInv
<1>15. CASE HandOver
  BY <1>15 DEF HandOver, durable, session, history, FreshInv
<1>16. ASSUME NEW k, RenameWrite(k) PROVE FreshInv'
  BY <1>16 DEF RenameWrite, Slip, durable, session, history, FreshInv
<1>17. CASE AskOnce
  BY <1>17 DEF AskOnce, durable, session, history, FreshInv
<1>18. CASE ClearMarker
  BY <1>18 DEF ClearMarker, durable, session, history, FreshInv
<1>19. CASE UNCHANGED vars
  BY <1>19 DEF vars, durable, session, history, FreshInv
<1> QED
  BY <1>1, <1>2, <1>3, <1>4, <1>5, <1>6, <1>7, <1>8, <1>9, <1>10, <1>11, <1>12,
     <1>13, <1>14, <1>15, <1>16, <1>17, <1>18, <1>19 DEF Next

(* Every step moves a request from one of its places to the next.            *)
LEMMA StepCount ==
    ASSUME CountInv, FreshInv, Typing, [Next]_vars PROVE CountInv'
<1>1. CASE PowerOn
  BY <1>1, ConfigsAssumption DEF PowerOn, durable, session, history, CountInv,
     Pending, Armed, Typing
<1>2. CASE PowerOff
  BY <1>2 DEF PowerOff, durable, session, history, CountInv, Pending, Armed,
     Typing
<1>3. CASE TpmOff
  BY <1>3 DEF TpmOff, Skip, durable, session, history, CountInv, Pending, Armed,
     Typing
<1>4. CASE TpmDied
  BY <1>4 DEF TpmDied, Skip, Mark, durable, session, history, CountInv, Pending,
     Armed, Typing
<1>5. CASE TpmBegin
  BY <1>5 DEF TpmBegin, Mark, durable, session, history, CountInv, Pending,
     Armed, Typing
<1>6. CASE TpmHangs
  BY <1>6 DEF TpmHangs, durable, session, history, CountInv, Pending, Armed,
     Typing
<1>7. CASE TpmEnd
  BY <1>7 DEF TpmEnd, Skip, Mark, durable, session, history, CountInv, Pending,
     Armed, Typing
<1>8. CASE ApplyOverrides
  BY <1>8, Overrides DEF ApplyOverrides, Consumed, durable, session, history,
     CountInv, Pending, Armed, Typing, FreshInv
<1>9. CASE Autoboot
  BY <1>9 DEF Autoboot, durable, session, history, CountInv, Pending, Armed,
     Typing
<1>10. CASE Count
  BY <1>10 DEF Count, durable, session, history, CountInv, Pending, Armed,
     Typing
<1>11. ASSUME NEW n \in DOMAIN entries, Choose(n) PROVE CountInv'
  BY <1>11 DEF Choose, durable, session, history, CountInv, Pending, Armed,
     Typing
<1>12. CASE RenameCreate
  BY <1>12 DEF RenameCreate, durable, session, history, CountInv, Pending,
     Armed, Typing
<1>13. CASE RenameDelete
  BY <1>13 DEF RenameDelete, Slip, durable, session, history, CountInv, Pending,
     Armed, Typing
<1>14. CASE RenameFails
  BY <1>14 DEF RenameFails, Slip, durable, session, history, CountInv, Pending,
     Armed, Typing
<1>15. CASE HandOver
  BY <1>15 DEF HandOver, durable, session, history, CountInv, Pending, Armed,
     Typing
<1>16. ASSUME NEW k, RenameWrite(k) PROVE CountInv'
  BY <1>16 DEF RenameWrite, Slip, durable, session, history, CountInv, Pending,
     Armed, Typing
<1>17. CASE AskOnce
  BY <1>17 DEF AskOnce, durable, session, history, CountInv, Pending, Armed,
     Typing
<1>18. CASE ClearMarker
  BY <1>18 DEF ClearMarker, durable, session, history, CountInv, Pending, Armed,
     Typing
<1>19. CASE UNCHANGED vars
  BY <1>19 DEF vars, durable, session, history, CountInv, Pending, Armed, Typing
<1> QED
  BY <1>1, <1>2, <1>3, <1>4, <1>5, <1>6, <1>7, <1>8, <1>9, <1>10, <1>11, <1>12,
     <1>13, <1>14, <1>15, <1>16, <1>17, <1>18, <1>19 DEF Next

(* The inductive invariant holds in every reachable state.                   *)
THEOREM Invariant == Spec => []IInv
<1>1. Init => IInv BY InitInv
<1>2. IInv /\ [Next]_vars => IInv'
  BY StepTyping, StepProbe, StepFresh, StepCount DEF IInv
<1> QED BY <1>1, <1>2, PTL DEF Spec

(* A TPM probe that never returns stops one start, not every start: the next *)
(* start finds the marker, and a marker the firmware refused stops the probe.*)
THEOREM SpecOneHang == Spec => []OneHang
<1>1. IInv => OneHang BY DEF IInv, ProbeInv, OneHang
<1> QED BY <1>1, Invariant, PTL

(* A one-shot entry decides at most one boot, wherever the power goes.       *)
THEOREM SpecOneShotOnce == Spec => []OneShotOnce
<1>1. IInv => OneShotOnce
  BY DEF IInv, Typing, CountInv, Pending, Armed, OneShotOnce
<1> QED BY <1>1, Invariant, PTL

-----------------------------------------------------------------------------
(* The boot counters.  Directories keep one file per path, entries in memory *)
(* are well formed and the rename under way is that of the entry selected.   *)
Dirs == Range(Volumes)
Files(d, v) == Range(d[v])
Names == [base : Bases, left : Counter, done : Nat]

DirInv ==
    /\ disk \in [Dirs -> Seq(BlsFile)]
    /\ \A v \in Dirs : \A i, j \in DOMAIN disk[v] :
         Path(disk[v][i]) = Path(disk[v][j]) => i = j
IsDep(d) ==
    /\ {"path", "left", "done"} \subseteq DOMAIN d
    /\ d.path \in Names /\ d.left \in Counter /\ d.done \in Nat
IsEntry(e) ==
    /\ {"deps", "sel"} \subseteq DOMAIN e
    /\ \A k \in DOMAIN e.deps : IsDep(e.deps[k])
    /\ e.deps # <<>> => e.sel \in DOMAIN e.deps
Early == {"tpm", "probe", "hung", "loader"}
Renaming == {"rename", "write", "delete"}
MemInv ==
    /\ \E n \in Nat : DOMAIN entries = 1..n /\ (entries # <<>> => n # 0)
    /\ \A n \in DOMAIN entries : IsEntry(entries[n])
    /\ pick \in DOMAIN entries \cup {None}
    /\ pc \in Renaming \cup {"count", "boot"} => selected \in DOMAIN entries
    /\ boots = 0 /\ pc \notin Renaming \cup {"boot"} => counted = None
    /\ pc \in Early => boots = 0
    /\ spent \in [Bases -> Nat]
CopyInv ==
    pc \in Renaming =>
        /\ selected = counted /\ HasTries(selected)
        /\ copying \in [old : Names, new : Names, lines : Seq(Lines), at : Nat \ {0}]
        /\ copying.old = Dep(selected).path /\ copying.new = NextPath(Dep(selected))
        /\ pc \in {"write", "delete"} => copying.at <= Len(Volumes)
        /\ pc = "write" => \E g \in Files(disk, Volumes[copying.at]) : Path(g) = copying.new
Base == DirInv /\ MemInv /\ CopyInv
-----------------------------------------------------------------------------
(* Induction over the natural numbers, for a set of them.                    *)
LEMMA NatSet ==
    ASSUME NEW T, 0 \in T, \A k \in Nat : k \in T => k + 1 \in T
    PROVE  \A n \in Nat : n \in T
<1> SUFFICES ASSUME NEW n \in Nat, n \notin T PROVE FALSE
  OBVIOUS
<1> DEFINE Less == {ss \in Nat \X Nat : ss[1] < ss[2]}
           S == {k \in Nat : k \notin T}
<1>1. IsWellFoundedOn(Less, Nat)
  BY NatLessThanWellFounded, Zenon DEF OpToRel
<1>2. S # {} /\ S \subseteq Nat
  OBVIOUS
<1>3. PICK m \in S : \A k \in S : ~ (<<k, m>> \in Less)
  <2> HIDE DEF Less, S
  <2> QED BY <1>1, <1>2, WFMin
<1>4. m \in Nat /\ m \notin T /\ m # 0
  OBVIOUS
<1>5. m - 1 \in Nat /\ m - 1 < m /\ (m - 1) + 1 = m
  BY <1>4
<1>6. m - 1 \notin T
  BY <1>4, <1>5
<1>7. m - 1 \in S
  BY <1>5, <1>6
<1> QED BY <1>3, <1>4, <1>5, <1>7

(* A nonempty set of numbers has a least one, a bounded one a greatest.      *)
LEMMA LeastOf ==
    ASSUME NEW S, S \subseteq Nat, S # {}
    PROVE  \E n \in S : \A m \in S : n <= m
<1> DEFINE Less == {ss \in Nat \X Nat : ss[1] < ss[2]}
<1>1. IsWellFoundedOn(Less, Nat)
  BY NatLessThanWellFounded, Zenon DEF OpToRel
<1>2. PICK n \in S : \A m \in S : ~ (<<m, n>> \in Less)
  <2> HIDE DEF Less
  <2> QED BY <1>1, WFMin
<1>3. n \in Nat /\ \A m \in S : m \in Nat /\ ~ (m < n)
  BY <1>2
<1> QED BY <1>3

(* A bounded set of positive numbers has a greatest one.                     *)
LEMMA GreatestOf ==
    ASSUME NEW S, NEW n \in Nat, S \subseteq 1..n, S # {}
    PROVE  \E m \in S : \A k \in S : k <= m
<1> DEFINE D == {d \in Nat : n - d \in S}
<1>1. D # {}
  <2>1. PICK m \in S : TRUE OBVIOUS
  <2>2. n - m \in Nat /\ n - (n - m) = m BY <2>1
  <2> QED BY <2>1, <2>2
<1>2. PICK d \in D : \A e \in D : d <= e
  <2>1. D \subseteq Nat OBVIOUS
  <2> HIDE DEF D
  <2> QED BY <1>1, <2>1, LeastOf
<1>3. n - d \in S /\ d \in Nat
  OBVIOUS
<1>4. ASSUME NEW k \in S PROVE k <= n - d
  <2>1. n - k \in Nat /\ n - (n - k) = k BY <1>4
  <2>2. n - k \in D BY <2>1
  <2> QED BY <1>2, <1>3, <2>1, <2>2
<1> QED BY <1>3, <1>4

(* A function defined by recursion over 0..n: F says what the next value is. *)
Follows(g, X, a, n, F) ==
    /\ g \in [0..n -> X]
    /\ \A i \in 0..n : g[i] = IF i = 0 THEN a ELSE F[g[i - 1]][i]

(* Such a function exists, for every number of steps.                        *)
LEMMA Recursion ==
    ASSUME NEW X, NEW a \in X, NEW n \in Nat, NEW F \in [X -> [Nat -> X]]
    PROVE  \E g : Follows(g, X, a, n, F)
<1> DEFINE T == {k \in Nat : \E g : Follows(g, X, a, k, F)}
<1>1. 0 \in T
  <2> DEFINE g == [i \in 0..0 |-> a]
  <2>1. Follows(g, X, a, 0, F) BY DEF Follows
  <2> HIDE DEF g
  <2> QED BY <2>1
<1>2. ASSUME NEW k \in Nat, k \in T PROVE k + 1 \in T
  <2>1. PICK g : Follows(g, X, a, k, F) BY <1>2
  <2> DEFINE h == [i \in 0..(k + 1) |-> IF i = k + 1 THEN F[g[k]][k + 1] ELSE g[i]]
  <2>2. g[k] \in X BY <2>1 DEF Follows
  <2>3. h \in [0..(k + 1) -> X]
    <3>1. F[g[k]][k + 1] \in X BY <2>2
    <3>2. ASSUME NEW i \in 0..(k + 1), i # k + 1 PROVE g[i] \in X
      <4>1. i \in 0..k BY <3>2
      <4> QED BY <2>1, <4>1 DEF Follows
    <3> QED BY <3>1, <3>2
  <2>4. ASSUME NEW i \in 0..(k + 1)
        PROVE  h[i] = IF i = 0 THEN a ELSE F[h[i - 1]][i]
    <3>1. CASE i = k + 1
      <4>1. h[i] = F[g[k]][k + 1] /\ i - 1 = k /\ i # 0 /\ h[k] = g[k] BY <3>1
      <4> QED BY <3>1, <4>1
    <3>2. CASE i # k + 1
      <4>1. i \in 0..k /\ h[i] = g[i] BY <3>2
      <4>2. g[i] = IF i = 0 THEN a ELSE F[g[i - 1]][i] BY <2>1, <4>1 DEF Follows
      <4>3. i # 0 => h[i - 1] = g[i - 1] BY <4>1
      <4> QED BY <4>1, <4>2, <4>3
    <3> QED BY <3>1, <3>2
  <2>5. Follows(h, X, a, k + 1, F)
    <3> HIDE DEF h
    <3> QED BY <2>3, <2>4 DEF Follows
  <2> HIDE DEF h
  <2> QED BY <2>5
<1>3. n \in T
  <2> HIDE DEF T
  <2> QED BY <1>1, <1>2, NatSet
<1> QED BY <1>3

(* What every file keeps of the records a directory scan keeps.              *)
LEMMA ScanIn ==
    ASSUME NEW X, NEW a \in X, NEW v, Len(disk[v]) \in Nat,
           \A x \in X : \A i \in 1..Len(disk[v]) : AddFile(x, disk[v][i], v) \in X
    PROVE  Scan(a, v) \in X
<1> DEFINE n == Len(disk[v])
           F == [x \in X |-> [i \in Nat |->
                   IF i \in 1..n THEN AddFile(x, disk[v][i], v) ELSE x]]
           Is(g) ==
               g = [i \in 0..n |-> IF i = 0 THEN a ELSE AddFile(g[i - 1], disk[v][i], v)]
           r == CHOOSE g : Is(g)
<1>1. F \in [X -> [Nat -> X]]
  OBVIOUS
<1>0. n \in Nat
  OBVIOUS
<1>2. PICK g : Follows(g, X, a, n, F)
  <2> HIDE DEF F, n
  <2> QED BY <1>0, <1>1, Recursion
<1>3. ASSUME NEW i \in 0..n, i # 0 PROVE F[g[i - 1]][i] = AddFile(g[i - 1], disk[v][i], v)
  <2>1. i - 1 \in 0..n /\ i \in Nat /\ i \in 1..n BY <1>3
  <2>2. g[i - 1] \in X
    <3> HIDE DEF F, n
    <3> QED BY <1>2, <2>1 DEF Follows
  <2> QED BY <2>1, <2>2
<1>4. Is(g)
  <2>1. \A i \in 0..n : g[i] = IF i = 0 THEN a ELSE AddFile(g[i - 1], disk[v][i], v)
    <3> HIDE DEF F
    <3> QED BY <1>2, <1>3 DEF Follows
  <2>2. g = [i \in 0..n |-> g[i]]
    <3> HIDE DEF F
    <3> QED BY <1>2 DEF Follows
  <2> QED BY <2>1, <2>2
<1>5. Is(r)
  <2> HIDE DEF Is
  <2> QED BY <1>4
<1>6. \A i \in 0..n : r[i] \in X
  <2> DEFINE T == {i \in Nat : i <= n => r[i] \in X}
  <2>1. 0 \in T
    <3>1. r[0] = a
      <4> HIDE DEF r
      <4> QED BY <1>0, <1>5
    <3> HIDE DEF r
    <3> QED BY <3>1
  <2>2. ASSUME NEW k \in Nat, k \in T PROVE k + 1 \in T
    <3>1. CASE k + 1 <= n
      <4>1. k + 1 \in 0..n /\ k + 1 \in 1..n /\ (k + 1) - 1 = k /\ k + 1 # 0 BY <3>1
      <4>2. r[k] \in X
        <5> HIDE DEF r
        <5> QED BY <2>2, <3>1
      <4> HIDE DEF r
      <4>3. r[k + 1] = AddFile(r[k], disk[v][k + 1], v) BY <1>5, <4>1
      <4> QED BY <4>1, <4>2, <4>3
    <3>2. CASE ~ (k + 1 <= n)
      <4> HIDE DEF r
      <4> QED BY <3>2
    <3> QED BY <3>1, <3>2
  <2>3. \A i \in Nat : i \in T
    <3> HIDE DEF T
    <3> QED BY <2>1, <2>2, NatSet
  <2> HIDE DEF r
  <2> QED BY <2>3
<1>7. Scan(a, v) = r[n]
  BY DEF Scan
<1> QED
  <2> HIDE DEF r
  <2> QED BY <1>6, <1>7

(* The same for the volumes, one after the other,                            *)
LEMMA RecordsIn ==
    ASSUME NEW X, <<>> \in X,
           \A x \in X : \A i \in 1..Len(Volumes) : Scan(x, Volumes[i]) \in X
    PROVE  Records \in X
<1> DEFINE n == Len(Volumes)
           F == [x \in X |-> [i \in Nat |-> IF i \in 1..n THEN Scan(x, Volumes[i]) ELSE x]]
           Is(g) == g = [i \in 0..n |-> IF i = 0 THEN <<>> ELSE Scan(g[i - 1], Volumes[i])]
           r == CHOOSE g : Is(g)
<1>1. F \in [X -> [Nat -> X]]
  OBVIOUS
<1>0. n \in Nat
  OBVIOUS
<1>2. PICK g : Follows(g, X, <<>>, n, F)
  <2> HIDE DEF F, n
  <2> QED BY <1>0, <1>1, Recursion
<1>3. ASSUME NEW i \in 0..n, i # 0 PROVE F[g[i - 1]][i] = Scan(g[i - 1], Volumes[i])
  <2>1. i - 1 \in 0..n /\ i \in Nat /\ i \in 1..n BY <1>3
  <2>2. g[i - 1] \in X
    <3> HIDE DEF F, n
    <3> QED BY <1>2, <2>1 DEF Follows
  <2> QED BY <2>1, <2>2
<1>4. Is(g)
  <2>1. \A i \in 0..n : g[i] = IF i = 0 THEN <<>> ELSE Scan(g[i - 1], Volumes[i])
    <3> HIDE DEF F
    <3> QED BY <1>2, <1>3 DEF Follows
  <2>2. g = [i \in 0..n |-> g[i]]
    <3> HIDE DEF F
    <3> QED BY <1>2 DEF Follows
  <2> QED BY <2>1, <2>2
<1>5. Is(r)
  <2> HIDE DEF Is
  <2> QED BY <1>4
<1>6. \A i \in 0..n : r[i] \in X
  <2> DEFINE T == {i \in Nat : i <= n => r[i] \in X}
  <2>1. 0 \in T
    <3>1. r[0] = <<>>
      <4> HIDE DEF r
      <4> QED BY <1>0, <1>5
    <3> HIDE DEF r
    <3> QED BY <3>1
  <2>2. ASSUME NEW k \in Nat, k \in T PROVE k + 1 \in T
    <3>1. CASE k + 1 <= n
      <4>1. k + 1 \in 0..n /\ k + 1 \in 1..n /\ (k + 1) - 1 = k /\ k + 1 # 0 BY <3>1
      <4>2. r[k] \in X
        <5> HIDE DEF r
        <5> QED BY <2>2, <3>1
      <4> HIDE DEF r
      <4>3. r[k + 1] = Scan(r[k], Volumes[k + 1]) BY <1>5, <4>1
      <4> QED BY <4>1, <4>2, <4>3
    <3>2. CASE ~ (k + 1 <= n)
      <4> HIDE DEF r
      <4> QED BY <3>2
    <3> QED BY <3>1, <3>2
  <2>3. \A i \in Nat : i \in T
    <3> HIDE DEF T
    <3> QED BY <2>1, <2>2, NatSet
  <2> HIDE DEF r
  <2> QED BY <2>3
<1>7. Records = r[n]
  BY DEF Records
<1> QED
  <2> HIDE DEF r
  <2> QED BY <1>6, <1>7

(* and for the records put into groups.                                      *)
LEMMA GroupsIn ==
    ASSUME NEW X, <<>> \in X, NEW recs, Len(recs) \in Nat,
           \A x \in X : \A i \in 1..Len(recs) : AddRecord(x, recs[i]) \in X
    PROVE  Groups(recs) \in X
<1> DEFINE n == Len(recs)
           F == [x \in X |-> [i \in Nat |-> IF i \in 1..n THEN AddRecord(x, recs[i]) ELSE x]]
           Is(g) == g = [i \in 0..n |-> IF i = 0 THEN <<>> ELSE AddRecord(g[i - 1], recs[i])]
           r == CHOOSE g : Is(g)
<1>1. F \in [X -> [Nat -> X]]
  OBVIOUS
<1>0. n \in Nat
  OBVIOUS
<1>2. PICK g : Follows(g, X, <<>>, n, F)
  <2> HIDE DEF F, n
  <2> QED BY <1>0, <1>1, Recursion
<1>3. ASSUME NEW i \in 0..n, i # 0 PROVE F[g[i - 1]][i] = AddRecord(g[i - 1], recs[i])
  <2>1. i - 1 \in 0..n /\ i \in Nat /\ i \in 1..n BY <1>3
  <2>2. g[i - 1] \in X
    <3> HIDE DEF F, n
    <3> QED BY <1>2, <2>1 DEF Follows
  <2> QED BY <2>1, <2>2
<1>4. Is(g)
  <2>1. \A i \in 0..n : g[i] = IF i = 0 THEN <<>> ELSE AddRecord(g[i - 1], recs[i])
    <3> HIDE DEF F
    <3> QED BY <1>2, <1>3 DEF Follows
  <2>2. g = [i \in 0..n |-> g[i]]
    <3> HIDE DEF F
    <3> QED BY <1>2 DEF Follows
  <2> QED BY <2>1, <2>2
<1>5. Is(r)
  <2> HIDE DEF Is
  <2> QED BY <1>4
<1>6. \A i \in 0..n : r[i] \in X
  <2> DEFINE T == {i \in Nat : i <= n => r[i] \in X}
  <2>1. 0 \in T
    <3>1. r[0] = <<>>
      <4> HIDE DEF r
      <4> QED BY <1>0, <1>5
    <3> HIDE DEF r
    <3> QED BY <3>1
  <2>2. ASSUME NEW k \in Nat, k \in T PROVE k + 1 \in T
    <3>1. CASE k + 1 <= n
      <4>1. k + 1 \in 0..n /\ k + 1 \in 1..n /\ (k + 1) - 1 = k /\ k + 1 # 0 BY <3>1
      <4>2. r[k] \in X
        <5> HIDE DEF r
        <5> QED BY <2>2, <3>1
      <4> HIDE DEF r
      <4>3. r[k + 1] = AddRecord(r[k], recs[k + 1]) BY <1>5, <4>1
      <4> QED BY <4>1, <4>2, <4>3
    <3>2. CASE ~ (k + 1 <= n)
      <4> HIDE DEF r
      <4> QED BY <3>2
    <3> QED BY <3>1, <3>2
  <2>3. \A i \in Nat : i \in T
    <3> HIDE DEF T
    <3> QED BY <2>1, <2>2, NatSet
  <2> HIDE DEF r
  <2> QED BY <2>3
<1>7. Groups(recs) = r[n]
  BY DEF Groups
<1> QED
  <2> HIDE DEF r
  <2> QED BY <1>6, <1>7

(* A record of a file on disk.                                               *)
OnDisk == {Record(t[2], t[1]) : t \in UNION {{v} \X Files(disk, v) : v \in Dirs}}

(* A record made of a file of a directory is one of those on disk.           *)
LEMMA RecordOnDisk ==
    ASSUME DirInv, NEW v \in Dirs, NEW i \in DOMAIN disk[v]
    PROVE  Record(disk[v][i], v) \in OnDisk
<1> DEFINE t == <<v, disk[v][i]>>
<1>1. t \in UNION {{w} \X Files(disk, w) : w \in Dirs}
  BY DEF Files, Range
<1>2. t[1] = v /\ t[2] = disk[v][i]
  OBVIOUS
<1> HIDE DEF t
<1> QED BY <1>1, <1>2 DEF OnDisk

(* The scan of the directories returns records of files on disk.             *)
LEMMA RecordsType == ASSUME DirInv PROVE Records \in Seq(OnDisk)
<1> DEFINE R == OnDisk
<1>1. ASSUME NEW v \in Dirs, NEW recs \in Seq(R) PROVE Scan(recs, v) \in Seq(R)
  <2>1. disk[v] \in Seq(BlsFile) /\ Len(disk[v]) \in Nat /\ DOMAIN disk[v] = 1..Len(disk[v])
    BY DEF DirInv
  <2>2. ASSUME NEW x \in Seq(R), NEW i \in 1..Len(disk[v])
        PROVE  AddFile(x, disk[v][i], v) \in Seq(R)
    <3>1. Record(disk[v][i], v) \in R BY <2>1, RecordOnDisk
    <3> HIDE DEF R
    <3> QED BY <3>1 DEF AddFile
  <2> HIDE DEF R
  <2> QED BY <2>1, <2>2, ScanIn
<1>2. ASSUME NEW i \in 1..Len(Volumes), NEW recs \in Seq(R)
      PROVE  Scan(recs, Volumes[i]) \in Seq(R)
  <2>1. Volumes[i] \in Dirs BY ConfsAssumption DEF Dirs
  <2> HIDE DEF R
  <2> QED BY <1>1, <2>1
<1>3. Len(Volumes) \in Nat /\ <<>> \in Seq(R) BY ConfsAssumption
<1> HIDE DEF R
<1>4. Records \in Seq(R) BY <1>2, <1>3, RecordsIn
<1> QED BY <1>4 DEF R

(* Sorting a record in keeps a list of records, and it is not empty then.    *)
LEMMA InsertType ==
    ASSUME NEW R, NEW r \in R, NEW sorted \in Seq(R)
    PROVE  Insert(sorted, r) \in Seq(R) \ {<<>>}
<1> DEFINE before == {i \in DOMAIN sorted : ~Precedes(r, sorted[i])}
           last == CHOOSE i \in before : \A j \in before : j <= i
           at == IF before = {} THEN 1 ELSE 1 + last
<1>1. Len(sorted) \in Nat /\ DOMAIN sorted = 1..Len(sorted)
  OBVIOUS
<1>2. at \in 1..(Len(sorted) + 1)
  <2>1. CASE before = {} BY <1>1, <2>1
  <2>2. CASE before # {}
    <3>1. before \subseteq 1..Len(sorted) BY <1>1
    <3>2. \E i \in before : \A j \in before : j <= i
      <4> HIDE DEF before
      <4> QED BY <1>1, <2>2, <3>1, GreatestOf
    <3> HIDE DEF before
    <3>3. last \in before BY <3>2
    <3> HIDE DEF last
    <3> QED BY <1>1, <2>2, <3>1, <3>3
  <2> QED BY <2>1, <2>2
<1>3. Insert(sorted, r) = InsertAt(sorted, at, r)
  BY DEF Insert
<1> HIDE DEF at
<1>4. InsertAt(sorted, at, r)
        = (SubSeq(sorted, 1, at - 1) \o <<r>>) \o SubSeq(sorted, at, Len(sorted))
  BY DEF InsertAt
<1>5. SubSeq(sorted, 1, at - 1) \in Seq(R)
  BY <1>1, <1>2, SubSeqProperties
<1>6. SubSeq(sorted, at, Len(sorted)) \in Seq(R)
  BY <1>1, <1>2, SubSeqProperties
<1>7. /\ SubSeq(sorted, 1, at - 1) \o <<r>> \in Seq(R)
      /\ Len(SubSeq(sorted, 1, at - 1) \o <<r>>) # 0
  BY <1>5
<1> DEFINE a == SubSeq(sorted, 1, at - 1) \o <<r>>
           b == SubSeq(sorted, at, Len(sorted))
<1>8. a \in Seq(R) /\ Len(a) # 0 /\ b \in Seq(R)
  BY <1>6, <1>7
<1> HIDE DEF a, b
<1>9. a \o b \in Seq(R) /\ Len(a \o b) # 0
  BY <1>8
<1> QED BY <1>3, <1>4, <1>9 DEF a, b

(* Every group of deployments consists of records of the scan.               *)
LEMMA GroupsType ==
    ASSUME NEW R, NEW recs \in Seq(R)
    PROVE  Groups(recs) \in Seq([head : R, recs : Seq(R) \ {<<>>}])
<1> DEFINE G == [head : R, recs : Seq(R) \ {<<>>}]
<1>1. ASSUME NEW gs \in Seq(G), NEW r \in R PROVE AddRecord(gs, r) \in Seq(G)
  <2> DEFINE same == {g \in DOMAIN gs : SameGroup(gs[g].head, r)}
             first == CHOOSE g \in same : \A h \in same : g <= h
  <2>1. CASE same = {}
    <3>1. AddRecord(gs, r) = Append(gs, [head |-> r, recs |-> <<r>>])
      BY <2>1 DEF AddRecord
    <3>2. <<r>> \in Seq(R) /\ <<r>> # <<>> OBVIOUS
    <3>3. [head |-> r, recs |-> <<r>>] \in G BY <3>2
    <3> HIDE DEF G
    <3> QED BY <3>1, <3>3
  <2>2. CASE same # {}
    <3>1. AddRecord(gs, r) = [gs EXCEPT ![first].recs = Insert(@, r)]
      BY <2>2 DEF AddRecord
    <3>2. same \subseteq Nat
      BY DEF G
    <3>3. \E g \in same : \A h \in same : g <= h
      <4> HIDE DEF same
      <4> QED BY <2>2, <3>2, LeastOf
    <3>4. first \in same
      <4> HIDE DEF same
      <4> QED BY <3>3
    <3>5. first \in DOMAIN gs BY <3>4
    <3> HIDE DEF first, same
    <3>6. gs[first] \in G
      <4> HIDE DEF G
      <4> QED BY <3>5
    <3>7. Insert(gs[first].recs, r) \in Seq(R) \ {<<>>} BY <3>6, InsertType
    <3>8. [gs[first] EXCEPT !.recs = Insert(gs[first].recs, r)] \in G
      BY <3>6, <3>7
    <3>9. [gs EXCEPT ![first].recs = Insert(@, r)]
            = [gs EXCEPT ![first] = [gs[first] EXCEPT !.recs = Insert(gs[first].recs, r)]]
      BY <3>5
    <3> HIDE DEF G
    <3> QED BY <3>1, <3>5, <3>8, <3>9
  <2> QED BY <2>1, <2>2
<1>2. ASSUME NEW gs \in Seq(G), NEW i \in 1..Len(recs) PROVE AddRecord(gs, recs[i]) \in Seq(G)
  <2>1. recs[i] \in R OBVIOUS
  <2> HIDE DEF G
  <2> QED BY <1>1, <2>1
<1>3. Len(recs) \in Nat /\ <<>> \in Seq(G)
  OBVIOUS
<1> HIDE DEF G
<1>4. Groups(recs) \in Seq(G) BY <1>2, <1>3, GroupsIn
<1> QED BY <1>4 DEF G

(* An entry that was detected has deployments on disk, if any, and one of    *)
(* them is selected.                                                         *)
IsDetected(e) ==
    /\ {"deps", "sel"} \subseteq DOMAIN e
    /\ e.deps \in Seq(OnDisk)
    /\ e.deps # <<>> => e.sel \in DOMAIN e.deps

(* Every entry that the discovery finds is well formed.                      *)
LEMMA DetectedType ==
    ASSUME DirInv
    PROVE  /\ \E n \in Nat : DOMAIN Detected = 1..n /\ (Detected # <<>> => n # 0)
           /\ \A n \in DOMAIN Detected : IsDetected(Detected[n])
<1> DEFINE R == OnDisk
           G == [head : R, recs : Seq(R) \ {<<>>}]
           groups == Groups(Records)
           other == [i \in DOMAIN Others |->
                       [name |-> Others[i], volume |-> None, deps |-> <<>>, sel |-> 1]]
           found == [i \in DOMAIN groups |-> Deployed(groups[i])]
           E == {Deployed(g) : g \in G}
                \cup {[name |-> o, volume |-> None, deps |-> <<>>, sel |-> 1] :
                         o \in Range(Others)}
<1>1. groups \in Seq(G)
  <2>1. Records \in Seq(R) BY RecordsType
  <2> HIDE DEF R
  <2> QED BY <2>1, GroupsType
<1>2. found \in Seq(E)
  <2> HIDE DEF G, groups
  <2> QED BY <1>1
<1>3. other \in Seq(E)
  <2>1. \A i \in DOMAIN Others : Others[i] \in Range(Others) BY DEF Range
  <2> HIDE DEF G
  <2> QED BY <2>1, ConfsAssumption
<1>4. Detected = found \o other
  BY DEF Detected
<1>5. ASSUME NEW e \in E PROVE IsDetected(e)
  <2>1. ASSUME NEW g \in G, e = Deployed(g) PROVE IsDetected(e)
    <3>1. g.recs \in Seq(R) /\ g.recs # <<>> OBVIOUS
    <3>2. e.deps = g.recs /\ e.sel = DefaultOf(g.recs) /\ {"deps", "sel"} \subseteq DOMAIN e
      BY <2>1 DEF Deployed
    <3> HIDE DEF R, G
    <3>3. Len(g.recs) \in Nat \ {0} /\ DOMAIN g.recs = 1..Len(g.recs) BY <3>1, EmptySeq
    <3>4. DefaultOf(g.recs) \in 1..Len(g.recs) BY <3>3 DEF DefaultOf
    <3> QED BY <3>1, <3>2, <3>3, <3>4 DEF IsDetected, R
  <2>2. ASSUME NEW o \in Range(Others),
               e = [name |-> o, volume |-> None, deps |-> <<>>, sel |-> 1]
        PROVE  IsDetected(e)
    BY <2>2 DEF IsDetected
  <2> HIDE DEF R, G
  <2> QED BY <2>1, <2>2
<1> HIDE DEF E, found, other
<1>6. Detected \in Seq(E) BY <1>2, <1>3, <1>4
<1>7. Len(Detected) \in Nat /\ DOMAIN Detected = 1..Len(Detected)
      /\ (Detected # <<>> => Len(Detected) # 0)
  BY <1>6, EmptySeq
<1>8. \A n \in DOMAIN Detected : Detected[n] \in E
  BY <1>6
<1> QED BY <1>5, <1>7, <1>8

-----------------------------------------------------------------------------
(* What the three operations on a directory do to the set of its files.      *)
Distinct(files) ==
    \A i, j \in DOMAIN files : Path(files[i]) = Path(files[j]) => i = j
Elsewhere(v) == DirInv' /\ \A w \in Dirs \ {v} : Files(disk', w) = Files(disk, w)
Stored(v, p, lines) ==
    /\ Elsewhere(v)
    /\ Files(disk', v) = {h \in Files(disk, v) : Path(h) # p} \cup {File(p, lines)}
Cut(v, p) ==
    /\ Elsewhere(v)
    /\ Files(disk', v) = {h \in Files(disk, v) : Path(h) # p}

(* A change of one directory that keeps its names apart keeps DirInv.        *)
LEMMA DirStep ==
    ASSUME DirInv, NEW v \in Dirs, NEW files \in Seq(BlsFile), Distinct(files),
           disk' = [disk EXCEPT ![v] = files]
    PROVE  Elsewhere(v) /\ Files(disk', v) = Range(files)
<1>1. DirInv'
  <2>1. disk' \in [Dirs -> Seq(BlsFile)] BY DEF DirInv
  <2>2. ASSUME NEW w \in Dirs, NEW i \in DOMAIN disk'[w], NEW j \in DOMAIN disk'[w],
               Path(disk'[w][i]) = Path(disk'[w][j])
        PROVE  i = j
    <3>1. CASE w = v
      <4>1. disk'[w] = files BY <3>1 DEF DirInv
      <4> QED BY <2>2, <4>1 DEF Distinct
    <3>2. CASE w # v
      <4>1. disk'[w] = disk[w] BY <3>2 DEF DirInv
      <4> QED BY <2>2, <4>1 DEF DirInv
    <3> QED BY <3>1, <3>2
  <2> QED BY <2>1, <2>2 DEF DirInv
<1>2. disk'[v] = files /\ \A w \in Dirs \ {v} : disk'[w] = disk[w]
  BY DEF DirInv
<1> QED BY <1>1, <1>2 DEF Elsewhere, Files

(* A path names one file of a directory.                                     *)
LEMMA FileIs ==
    ASSUME NEW p \in Names, NEW lines \in Seq(Lines)
    PROVE  File(p, lines) \in BlsFile /\ Path(File(p, lines)) = p
           /\ File(p, lines).base = p.base /\ File(p, lines).left = p.left
           /\ File(p, lines).done = p.done /\ File(p, lines).lines = lines
BY DEF File, Names, BlsFile, Path

(* Creating a file stores an empty one under the new path.                   *)
LEMMA CreateStores ==
    ASSUME DirInv, NEW v \in Dirs, NEW p \in Names, NEW files \in Created(v, p),
           disk' = [disk EXCEPT ![v] = files]
    PROVE  Stored(v, p, <<>>)
<1> DEFINE f == File(p, <<>>)
           d == disk[v]
           n == Len(d)
<1>1. f \in BlsFile /\ Path(f) = p
  <2>1. <<>> \in Seq(Lines) OBVIOUS
  <2> QED BY <2>1, FileIs
<1>2. d \in Seq(BlsFile) /\ Distinct(d) /\ n \in Nat /\ DOMAIN d = 1..n
  BY DEF DirInv, Distinct
<1>3. At(v, p) = {i \in 1..n : Path(d[i]) = p}
  BY <1>2 DEF At
<1> HIDE DEF f, d, n
<1>4. files \in Seq(BlsFile) /\ Distinct(files)
      /\ Range(files) = {h \in Range(d) : Path(h) # p} \cup {f}
  <2>1. CASE At(v, p) # {}
    <3>1. files = [i \in 1..n |-> IF i \in At(v, p) THEN f ELSE d[i]]
      BY <1>2, <2>1 DEF Created, f, d
    <3>2. files \in Seq(BlsFile) BY <1>1, <1>2, <3>1
    <3>3. DOMAIN files = 1..n BY <3>1
    <3>4. \A i \in 1..n : Path(files[i]) = Path(d[i]) BY <1>1, <1>3, <3>1
    <3>5. Distinct(files) BY <1>2, <3>3, <3>4 DEF Distinct
    <3>6. PICK i0 \in 1..n : Path(d[i0]) = p BY <1>3, <2>1
    <3>7. files[i0] = f BY <1>3, <3>1, <3>6
    <3>8. \A i \in 1..n : files[i] = f \/ (files[i] = d[i] /\ Path(d[i]) # p)
      BY <1>3, <3>1
    <3>9. \A i \in 1..n : Path(d[i]) # p => files[i] = d[i]
      BY <1>3, <3>1
    <3>10. Range(files) = {h \in Range(d) : Path(h) # p} \cup {f}
      BY <1>2, <3>3, <3>6, <3>7, <3>8, <3>9 DEF Range
    <3> QED BY <3>2, <3>5, <3>10
  <2>2. CASE At(v, p) = {}
    <3>1. files = <<f>> \o d \/ files = d \o <<f>>
      BY <2>2 DEF Created, f, d
    <3>2. \A i \in 1..n : Path(d[i]) # p BY <1>3, <2>2
    <3>3. {h \in Range(d) : Path(h) # p} = Range(d) BY <1>2, <3>2 DEF Range
    <3>4. CASE files = <<f>> \o d
      <4>1. files \in Seq(BlsFile) /\ Len(files) = n + 1 /\ DOMAIN files = 1..(n + 1)
        BY <1>1, <1>2, <3>4 DEF n
      <4>2. files[1] = f /\ \A i \in 2..(n + 1) : files[i] = d[i - 1]
        BY <1>1, <1>2, <3>4 DEF n
      <4>3. Distinct(files)
        <5> SUFFICES ASSUME NEW i \in 1..(n + 1), NEW j \in 1..(n + 1),
                            Path(files[i]) = Path(files[j])
                     PROVE  i = j
          BY <4>1 DEF Distinct
        <5>1. CASE i = 1 /\ j = 1 BY <5>1
        <5>2. CASE i = 1 /\ j # 1
          <6>1. j - 1 \in 1..n /\ files[j] = d[j - 1] BY <1>2, <4>2, <5>2
          <6> QED BY <1>1, <3>2, <4>2, <5>2, <6>1
        <5>3. CASE i # 1 /\ j = 1
          <6>1. i - 1 \in 1..n /\ files[i] = d[i - 1] BY <1>2, <4>2, <5>3
          <6> QED BY <1>1, <3>2, <4>2, <5>3, <6>1
        <5>4. CASE i # 1 /\ j # 1
          <6>1. i - 1 \in 1..n /\ j - 1 \in 1..n /\ files[i] = d[i - 1] /\ files[j] = d[j - 1]
            BY <1>2, <4>2, <5>4
          <6>2. i - 1 = j - 1 BY <1>2, <6>1 DEF Distinct
          <6> QED BY <6>2
        <5> QED BY <5>1, <5>2, <5>3, <5>4
      <4>4. Range(files) = Range(d) \cup {f}
        <5>1. \A i \in 1..n : i + 1 \in 2..(n + 1) /\ (i + 1) - 1 = i BY <1>2
        <5>2. \A i \in 1..n : files[i + 1] = d[i] BY <4>2, <5>1
        <5>3. \A i \in 1..(n + 1) : i = 1 \/ (i \in 2..(n + 1) /\ i - 1 \in 1..n) BY <1>2
        <5>4. \A i \in 1..n : i + 1 \in 1..(n + 1) BY <1>2
        <5>5. 1 \in 1..(n + 1) BY <1>2
        <5>6. \A h \in Range(files) : h \in Range(d) \cup {f}
          <6> TAKE h \in Range(files)
          <6>1. PICK i \in 1..(n + 1) : h = files[i] BY <4>1 DEF Range
          <6> QED BY <1>2, <4>2, <5>3, <6>1 DEF Range
        <5>7. f \in Range(files) BY <4>1, <4>2, <5>5 DEF Range
        <5>8. Range(d) \subseteq Range(files)
          <6> SUFFICES ASSUME NEW i \in 1..n PROVE d[i] \in Range(files)
            BY <1>2 DEF Range
          <6> QED BY <4>1, <5>2, <5>4 DEF Range
        <5> QED BY <5>6, <5>7, <5>8
      <4> QED BY <3>3, <4>1, <4>3, <4>4
    <3>5. CASE files = d \o <<f>>
      <4>1. files \in Seq(BlsFile) /\ Len(files) = n + 1 /\ DOMAIN files = 1..(n + 1)
        BY <1>1, <1>2, <3>5 DEF n
      <4>2. files[n + 1] = f /\ \A i \in 1..n : files[i] = d[i]
        BY <1>1, <1>2, <3>5 DEF n
      <4>3. \A i \in 1..(n + 1) : i \in 1..n \/ i = n + 1 BY <1>2
      <4>4. Distinct(files)
        BY <1>1, <1>2, <3>2, <4>1, <4>2, <4>3 DEF Distinct
      <4>5. Range(files) = Range(d) \cup {f}
        <5>1. n + 1 \in 1..(n + 1) /\ \A i \in 1..n : i \in 1..(n + 1) BY <1>2
        <5> QED BY <1>2, <4>1, <4>2, <4>3, <5>1 DEF Range
      <4> QED BY <3>3, <4>1, <4>4, <4>5
    <3> QED BY <3>1, <3>4, <3>5
  <2> QED BY <2>1, <2>2
<1>5. Elsewhere(v) /\ Files(disk', v) = Range(files)
  BY <1>4, DirStep
<1> QED BY <1>4, <1>5 DEF Stored, Files, f, d

(* Writing a file stores what is written under its path.                     *)
LEMMA WriteStores ==
    ASSUME DirInv, NEW v \in Dirs, copying.new \in Names, copying.lines \in Seq(Lines),
           NEW k \in 0..Len(copying.lines), Wrote(v, k),
           \E g \in Files(disk, v) : Path(g) = copying.new
    PROVE  Stored(v, copying.new, SubSeq(copying.lines, 1, k))
<1> DEFINE p == copying.new
           lines == SubSeq(copying.lines, 1, k)
           f == File(p, lines)
           d == disk[v]
           n == Len(d)
           files == [i \in DOMAIN d |-> IF Path(d[i]) = p THEN f ELSE d[i]]
<1>1. f \in BlsFile /\ Path(f) = p
  <2>1. lines \in Seq(Lines) BY SubSeqProperties
  <2> HIDE DEF lines
  <2> QED BY <2>1, FileIs
<1>2. d \in Seq(BlsFile) /\ Distinct(d) /\ n \in Nat /\ DOMAIN d = 1..n
  BY DEF DirInv, Distinct
<1>3. disk' = [disk EXCEPT ![v] = files]
  BY DEF Wrote
<1>4. PICK i0 \in 1..n : Path(d[i0]) = p
  <2>1. PICK g \in Files(disk, v) : Path(g) = p OBVIOUS
  <2> QED BY <1>2, <2>1 DEF Files, Range
<1> HIDE DEF f, d, n, p
<1>5. files \in Seq(BlsFile) /\ DOMAIN files = 1..n
  BY <1>1, <1>2
<1>6. \A i \in 1..n : Path(files[i]) = Path(d[i])
  BY <1>1, <1>2
<1>7. Distinct(files)
  <2> HIDE DEF files
  <2> QED BY <1>2, <1>5, <1>6 DEF Distinct
<1>8. Range(files) = {h \in Range(d) : Path(h) # p} \cup {f}
  <2>1. files[i0] = f BY <1>2, <1>4
  <2>2. \A i \in 1..n : files[i] = f \/ (files[i] = d[i] /\ Path(d[i]) # p) BY <1>2
  <2>3. \A i \in 1..n : Path(d[i]) # p => files[i] = d[i] BY <1>2
  <2> HIDE DEF files
  <2> QED BY <1>2, <1>4, <1>5, <2>1, <2>2, <2>3 DEF Range
<1>9. Elsewhere(v) /\ Files(disk', v) = Range(files)
  <2> HIDE DEF files
  <2> QED BY <1>3, <1>5, <1>7, DirStep
<1> HIDE DEF files
<1> QED BY <1>8, <1>9 DEF Stored, Files, f, d, p

(* Deleting a file takes the path out of the directory.                      *)
LEMMA RemoveCuts ==
    ASSUME DirInv, NEW v \in Dirs, NEW p, Removed(v, p)
    PROVE  Cut(v, p)
<1> DEFINE d == disk[v]
           n == Len(d)
           files == Without(v, p)
<1>1. d \in Seq(BlsFile) /\ Distinct(d) /\ n \in Nat /\ DOMAIN d = 1..n
  BY DEF DirInv, Distinct
<1>2. At(v, p) = {i \in 1..n : Path(d[i]) = p}
  BY <1>1 DEF At
<1> HIDE DEF d, n
<1>3. files \in Seq(BlsFile) /\ Distinct(files)
      /\ Range(files) = {h \in Range(d) : Path(h) # p}
  <2>1. CASE At(v, p) = {}
    <3>1. files = d BY <2>1 DEF Without, d
    <3>2. \A i \in 1..n : Path(d[i]) # p BY <1>2, <2>1
    <3> QED BY <1>1, <3>1, <3>2 DEF Range
  <2>2. CASE At(v, p) # {}
    <3> DEFINE m == CHOOSE i \in At(v, p) : TRUE
               a == SubSeq(d, 1, m - 1)
               b == SubSeq(d, m + 1, n)
    <3>1. m \in 1..n /\ Path(d[m]) = p BY <1>2, <2>2
    <3>2. files = a \o b BY <2>2 DEF Without, RemoveAt, d, n
    <3> HIDE DEF m
    <3>3. a \in Seq(BlsFile) /\ Len(a) = m - 1 /\ \A i \in 1..(m - 1) : a[i] = d[i]
      BY <1>1, <3>1, SubSeqProperties
    <3>4. b \in Seq(BlsFile) /\ Len(b) = n - m /\ \A i \in 1..(n - m) : b[i] = d[m + i]
      BY <1>1, <3>1, SubSeqProperties
    <3> HIDE DEF a, b, files
    <3>5. files \in Seq(BlsFile) /\ Len(files) = n - 1 /\ DOMAIN files = 1..(n - 1)
      <4>1. files \in Seq(BlsFile) /\ Len(files) = Len(a) + Len(b)
        BY <3>2, <3>3, <3>4, ConcatProperties
      <4>2. Len(a) + Len(b) = n - 1 BY <1>1, <3>1, <3>3, <3>4
      <4>3. DOMAIN files = 1..Len(files) BY <4>1, LenProperties
      <4> QED BY <4>1, <4>2, <4>3
    <3>6. \A i \in 1..(n - 1) : files[i] = IF i < m THEN d[i] ELSE d[i + 1]
      <4> TAKE i \in 1..(n - 1)
      <4>1. CASE i < m
        <5>1. i \in 1..(m - 1) BY <3>1, <4>1
        <5> QED BY <3>2, <3>3, <3>4, <5>1, <4>1
      <4>2. CASE ~ (i < m)
        <5>1. i - (m - 1) \in 1..(n - m) /\ m + (i - (m - 1)) = i + 1 BY <1>1, <3>1, <4>2
        <5>2. files[i] = b[i - (m - 1)]
          BY <3>1, <3>2, <3>3, <3>4, <4>2, <5>1
        <5> QED BY <3>4, <4>2, <5>1, <5>2
      <4> QED BY <4>1, <4>2
    <3> DEFINE src(i) == IF i < m THEN i ELSE i + 1
    <3>7. \A i \in 1..(n - 1) : src(i) \in 1..n /\ src(i) # m /\ files[i] = d[src(i)]
      BY <1>1, <3>1, <3>6
    <3>8. \A i, j \in 1..(n - 1) : src(i) = src(j) => i = j
      BY <3>1
    <3>9. \A i \in 1..n : i # m => \E j \in 1..(n - 1) : src(j) = i
      <4> TAKE i \in 1..n
      <4> HAVE i # m
      <4>1. CASE i < m
        <5>1. i \in 1..(n - 1) /\ src(i) = i BY <1>1, <3>1, <4>1
        <5> QED BY <5>1
      <4>2. CASE ~ (i < m)
        <5>1. i - 1 \in 1..(n - 1) /\ src(i - 1) = i BY <1>1, <3>1, <4>2
        <5> QED BY <5>1
      <4> QED BY <4>1, <4>2
    <3> HIDE DEF src
    <3>10. Distinct(files)
      BY <1>1, <3>5, <3>7, <3>8 DEF Distinct
    <3>11. \A i \in 1..n : Path(d[i]) = p <=> i = m
      BY <1>1, <3>1 DEF Distinct
    <3>12. Range(files) = {h \in Range(d) : Path(h) # p}
      <4>1. ASSUME NEW h \in Range(files) PROVE h \in Range(d) /\ Path(h) # p
        <5>1. PICK i \in 1..(n - 1) : h = files[i] BY <3>5, <4>1 DEF Range
        <5> QED BY <1>1, <3>7, <3>11, <5>1 DEF Range
      <4>2. ASSUME NEW h \in Range(d), Path(h) # p PROVE h \in Range(files)
        <5>1. PICK i \in 1..n : h = d[i] BY <1>1, <4>2 DEF Range
        <5>2. PICK j \in 1..(n - 1) : src(j) = i BY <3>9, <3>11, <4>2, <5>1
        <5> QED BY <3>5, <3>7, <5>1, <5>2 DEF Range
      <4> QED BY <4>1, <4>2
    <3> QED BY <3>5, <3>10, <3>12
  <2> QED BY <2>1, <2>2
<1>4. Elsewhere(v) /\ Files(disk', v) = Range(files)
  <2>1. disk' = [disk EXCEPT ![v] = files] BY DEF Removed
  <2> HIDE DEF files
  <2> QED BY <1>3, <2>1, DirStep
<1> HIDE DEF files
<1> QED BY <1>3, <1>4 DEF Cut, Files, d

-----------------------------------------------------------------------------
(* Steps that leave the files, the entries and the counting alone.           *)
Quiet ==
    /\ UNCHANGED <<disk, entries, selected, counted, copying, boots, spent, slipped>>
    /\ pick' \in DOMAIN entries \cup {None}
    /\ pc' = pc \/ (pc \in Early /\ pc' \in Early \cup {"select"})
QuietStep ==
    \/ TpmOff \/ TpmDied \/ TpmBegin \/ TpmHangs \/ TpmEnd \/ ApplyOverrides
    \/ AskOnce \/ ClearMarker \/ UNCHANGED vars

(* An id of the Boot Loader Interface names a detected entry or none.        *)
LEMMA NamedEntry ==
    ASSUME MemInv, NEW id PROVE Named(id) \in DOMAIN entries \cup {None}
<1> DEFINE found == {n \in DOMAIN entries : Id(entries[n]) = id}
           first == CHOOSE n \in found : \A m \in found : n <= m
<1>1. CASE id # None /\ found # {}
  <2>1. Named(id) = first BY <1>1 DEF Named, EntryById
  <2>2. found \subseteq Nat BY DEF MemInv
  <2>3. \E n \in found : \A m \in found : n <= m
    <3> HIDE DEF found
    <3> QED BY <1>1, <2>2, LeastOf
  <2>4. first \in found
    <3> HIDE DEF found
    <3> QED BY <2>3
  <2> HIDE DEF first
  <2> QED BY <2>1, <2>4
<1>2. CASE id = None \/ found = {}
  BY <1>2 DEF Named, EntryById
<1> QED BY <1>1, <1>2

(* The actions before the choice of an entry leave files and entries alone.  *)
LEMMA QuietIs == ASSUME MemInv, QuietStep PROVE Quiet
<1>1. CASE TpmOff
  BY <1>1 DEF TpmOff, Skip, session, history, Quiet, Early, MemInv
<1>2. CASE TpmDied
  BY <1>2 DEF TpmDied, Skip, session, history, Quiet, Early, MemInv
<1>3. CASE TpmBegin
  BY <1>3 DEF TpmBegin, session, history, Quiet, Early, MemInv
<1>4. CASE TpmHangs
  BY <1>4 DEF TpmHangs, durable, session, Quiet, Early, MemInv
<1>5. CASE TpmEnd
  BY <1>5 DEF TpmEnd, Skip, session, history, Quiet, Early, MemInv
<1>6. CASE ApplyOverrides
  <2>1. pick' \in DOMAIN entries \cup {None}
    <3>1. pick \in DOMAIN entries \cup {None} BY DEF MemInv
    <3>2. Named(oneShot) \in DOMAIN entries \cup {None} BY NamedEntry
    <3>3. Named(default) \in DOMAIN entries \cup {None} BY NamedEntry
    <3> QED BY <1>6, <3>1, <3>2, <3>3 DEF ApplyOverrides
  <2> QED BY <1>6, <2>1 DEF ApplyOverrides, Quiet, Early
<1>7. CASE AskOnce
  BY <1>7 DEF AskOnce, session, Quiet, MemInv
<1>8. CASE ClearMarker
  BY <1>8 DEF ClearMarker, session, Quiet, MemInv
<1>9. CASE UNCHANGED vars
  BY <1>9 DEF vars, durable, session, history, Quiet, MemInv
<1> QED BY <1>1, <1>2, <1>3, <1>4, <1>5, <1>6, <1>7, <1>8, <1>9 DEF QuietStep

(* An entry is taken: only which of its deployments is selected may change.  *)
Taken ==
    /\ pc = "select" /\ pc' = "count" /\ selected' \in DOMAIN entries
    /\ UNCHANGED <<disk, pick, counted, copying, boots, spent, slipped>>
    /\ DOMAIN entries' = DOMAIN entries /\ (entries' # <<>> => entries # <<>>)
    /\ \A n \in DOMAIN entries : IsEntry(entries'[n]) /\ entries'[n].deps = entries[n].deps
TakeStep == Autoboot \/ \E n \in DOMAIN entries : Choose(n)

(* Choosing an entry takes one of those detected, at one of its deployments. *)
LEMMA TakeIs == ASSUME MemInv, TakeStep PROVE Taken
<1>1. CASE Autoboot
  <2>1. selected' \in DOMAIN entries BY <1>1 DEF Autoboot, MemInv
  <2> QED BY <1>1, <2>1 DEF Autoboot, durable, MemInv, Taken
<1>2. ASSUME NEW n \in DOMAIN entries, Choose(n) PROVE Taken
  <2>1. PICK k \in DOMAIN entries[n].deps \cup {entries[n].sel} :
               entries' = [entries EXCEPT ![n].sel = k]
    BY <1>2 DEF Choose
  <2>2. /\ DOMAIN entries' = DOMAIN entries
        /\ \A m \in DOMAIN entries \ {n} : entries'[m] = entries[m]
    BY <2>1
  <2>3. IsEntry(entries[n]) BY DEF MemInv
  <2>4. /\ {"deps", "sel"} \subseteq DOMAIN entries'[n]
        /\ entries'[n].deps = entries[n].deps /\ entries'[n].sel = k
    BY <2>1, <2>3 DEF IsEntry
  <2>5. IsEntry(entries'[n]) BY <2>1, <2>3, <2>4 DEF IsEntry
  <2>6. entries # <<>> BY DEF MemInv
  <2> QED BY <1>2, <2>2, <2>4, <2>5, <2>6 DEF Choose, durable, history, MemInv, Taken
<1> QED BY <1>1, <1>2 DEF TakeStep

(* A rename is remembered in the path of the selected deployment.            *)
Remembered ==
    /\ DOMAIN entries' = DOMAIN entries
    /\ \A n \in DOMAIN entries \ {selected} : entries'[n] = entries[n]
    /\ \A n \in DOMAIN entries : IsEntry(entries'[n])
    /\ LET d == entries[selected].deps
           e == entries'[selected].deps
       IN  /\ DOMAIN e = DOMAIN d /\ entries'[selected].sel = entries[selected].sel
           /\ \A k \in DOMAIN d \ {entries[selected].sel} : e[k] = d[k]
           /\ \A k \in DOMAIN d : e[k].left = d[k].left /\ e[k].done = d[k].done
           /\ Dep(selected)'.path = copying.new

(* Remembering the new path changes that one deployment in memory.           *)
LEMMA RememberIs ==
    ASSUME MemInv, CopyInv, pc = "delete", UNCHANGED selected,
           entries' = [entries EXCEPT ![selected].deps[entries[selected].sel].path = copying.new]
    PROVE  Remembered
<1> DEFINE s == selected
           k == entries[s].sel
           d == entries[s].deps
           d2 == [d EXCEPT ![k] = [d[k] EXCEPT !.path = copying.new]]
           e2 == [entries[s] EXCEPT !.deps = d2]
<1>1. s \in DOMAIN entries /\ IsEntry(entries[s]) /\ d # <<>> /\ copying.new \in Names
  BY DEF MemInv, CopyInv, Renaming, HasTries
<1>2. k \in DOMAIN d /\ IsDep(d[k]) BY <1>1 DEF IsEntry
<1>3. entries' = [entries EXCEPT ![s] = e2]
  OBVIOUS
<1>4. DOMAIN d2 = DOMAIN d /\ \A j \in DOMAIN d \ {k} : d2[j] = d[j]
  OBVIOUS
<1>5. d2[k] = [d[k] EXCEPT !.path = copying.new] BY <1>2
<1> HIDE DEF d2
<1>6. e2.deps = d2 /\ e2.sel = k /\ {"deps", "sel"} \subseteq DOMAIN e2
  BY <1>1 DEF IsEntry
<1>7. /\ {"path", "left", "done"} \subseteq DOMAIN d2[k]
      /\ d2[k].path = copying.new /\ d2[k].left = d[k].left /\ d2[k].done = d[k].done
  BY <1>2, <1>5 DEF IsDep
<1>8. IsDep(d2[k]) BY <1>1, <1>2, <1>7 DEF IsDep
<1> HIDE DEF e2
<1>9. IsEntry(e2) BY <1>1, <1>2, <1>4, <1>6, <1>8 DEF IsEntry
<1>10. entries'[s] = e2 /\ DOMAIN entries' = DOMAIN entries
       /\ \A n \in DOMAIN entries \ {s} : entries'[n] = entries[n]
  BY <1>1, <1>3
<1>11. \A n \in DOMAIN entries : IsEntry(entries'[n])
  BY <1>9, <1>10 DEF MemInv
<1>12. Dep(selected)' = d2[k] BY <1>6, <1>10 DEF Dep
<1>13. \A j \in DOMAIN d : d2[j].left = d[j].left /\ d2[j].done = d[j].done
  BY <1>4, <1>7
<1> HIDE DEF d, k, s
<1> QED BY <1>4, <1>6, <1>7, <1>10, <1>11, <1>12, <1>13 DEF Remembered, d, k, s

-----------------------------------------------------------------------------
(* The directories, the entries in memory and the rename under way keep      *)
(* their types in every step.                                                *)
LEMMA RecordIsDep ==
    ASSUME DirInv, NEW r \in OnDisk
    PROVE  /\ IsDep(r)
           /\ \E v \in Dirs : \E f \in Files(disk, v) :
                 r.path = Path(f) /\ r.left = f.left /\ r.done = f.done
<1>1. PICK v \in Dirs : \E f \in Files(disk, v) : r = Record(f, v)
  <2>1. PICK t \in UNION {{w} \X Files(disk, w) : w \in Dirs} : r = Record(t[2], t[1])
    BY DEF OnDisk
  <2>2. PICK w \in Dirs : t \in {w} \X Files(disk, w)
    BY <2>1
  <2>3. t[1] = w /\ t[2] \in Files(disk, w)
    BY <2>2
  <2> QED BY <2>1, <2>3
<1> PICK f \in Files(disk, v) : r = Record(f, v)
  BY <1>1
<1>2. f \in BlsFile
  BY DEF DirInv, Files, Range
<1>3. /\ {"path", "left", "done"} \subseteq DOMAIN r
      /\ r.path = Path(f) /\ r.left = f.left /\ r.done = f.done
  BY DEF Record
<1>4. Path(f) \in Names /\ f.left \in Counter /\ f.done \in Nat
  BY <1>2 DEF BlsFile, Path, Names
<1> QED BY <1>3, <1>4 DEF IsDep

(* The names and the place of a copy have their types.                       *)
LEMMA CopyTypes ==
    ASSUME CopyInv, pc \in {"write", "delete"}
    PROVE  /\ Volumes[copying.at] \in Dirs
           /\ copying.new \in Names /\ copying.old \in Names /\ copying.lines \in Seq(Lines)
<1>1. copying \in [old : Names, new : Names, lines : Seq(Lines), at : Nat \ {0}]
      /\ copying.at <= Len(Volumes)
  BY DEF CopyInv, Renaming
<1>2. copying.at \in 1..Len(Volumes) /\ 1..Len(Volumes) = DOMAIN Volumes
  BY <1>1, ConfsAssumption
<1> QED BY <1>1, <1>2 DEF Dirs, Range

(* The name after a try is a name: there is a try to take off.               *)
LEMMA NextType ==
    ASSUME MemInv, selected \in DOMAIN entries, HasTries(selected)
    PROVE  /\ IsDep(Dep(selected)) /\ Dep(selected).left \in Nat \ {0}
           /\ entries[selected].sel \in DOMAIN entries[selected].deps
           /\ NextPath(Dep(selected)) \in Names
<1>1. IsDep(Dep(selected)) /\ entries[selected].sel \in DOMAIN entries[selected].deps
  BY DEF MemInv, HasTries, IsEntry, Dep
<1>2. Dep(selected).left \in Nat \ {0}
  BY <1>1 DEF HasTries, IsDep, Counter
<1>3. Dep(selected).path.base \in Bases /\ Dep(selected).done + 1 \in Nat
      /\ Dep(selected).left - 1 \in Counter
  BY <1>1, <1>2 DEF IsDep, Names, Counter
<1>4. NextPath(Dep(selected)) \in Names BY <1>3 DEF NextPath, Names
<1> QED BY <1>1, <1>2, <1>4

(* What the first step of a rename does, on a volume that has the file.      *)
LEMMA CreateIs ==
    ASSUME DirInv, CopyInv, RenameCreate
    PROVE  \/ /\ UNCHANGED disk /\ pc' = "rename"
              /\ copying' = [copying EXCEPT !.at = @ + 1]
           \/ /\ pc' = "write"
              /\ Stored(Volumes[copying.at], copying.new, <<>>)
              /\ \E f \in Files(disk, Volumes[copying.at]) :
                    /\ Path(f) = copying.old /\ f.lines \in Seq(Lines)
                    /\ copying' = [copying EXCEPT !.lines = f.lines]
<1> DEFINE v == Volumes[copying.at]
<1>1. copying.new \in Names /\ copying.at \in 1..Len(Volumes)
  BY ConfsAssumption DEF RenameCreate, CopyInv, Renaming
<1>2. v \in Dirs
  BY <1>1, ConfsAssumption DEF Dirs, Range
<1>3. CASE At(v, copying.old) = {} \/ v \in ReadOnly
  BY <1>3 DEF RenameCreate
<1>4. CASE ~ (At(v, copying.old) = {} \/ v \in ReadOnly)
  <2>1. PICK i \in At(v, copying.old) :
                IF disk[v][i].lines = <<>>
                THEN copying' = [copying EXCEPT !.at = @ + 1] /\ UNCHANGED <<disk, pc>>
                ELSE /\ copying' = [copying EXCEPT !.lines = disk[v][i].lines]
                     /\ \E files \in Created(v, copying.new) :
                           disk' = [disk EXCEPT ![v] = files]
                     /\ pc' = "write"
    BY <1>4 DEF RenameCreate
  <2>2. CASE disk[v][i].lines = <<>>
    BY <2>1, <2>2 DEF RenameCreate
  <2>3. CASE disk[v][i].lines # <<>>
    <3>1. PICK files \in Created(v, copying.new) : disk' = [disk EXCEPT ![v] = files]
      BY <2>1, <2>3
    <3>2. Stored(v, copying.new, <<>>)
      <4> HIDE DEF v
      <4> QED BY <1>1, <1>2, <3>1, CreateStores
    <3>3. disk[v][i] \in Files(disk, v) /\ Path(disk[v][i]) = copying.old
      BY DEF At, Files, Range
    <3>4. disk[v][i] \in BlsFile BY <1>2 DEF DirInv, At
    <3>5. disk[v][i].lines \in Seq(Lines) BY <3>4 DEF BlsFile
    <3> QED BY <2>1, <2>3, <3>2, <3>3, <3>5
  <2> QED BY <2>2, <2>3
<1> QED BY <1>3, <1>4

(* A step of writing stores a part of the lines under the new name.          *)
LEMMA WriteIs ==
    ASSUME DirInv, CopyInv, pc = "write",
           NEW k \in 0..Len(copying.lines), Wrote(Volumes[copying.at], k)
    PROVE  Stored(Volumes[copying.at], copying.new, SubSeq(copying.lines, 1, k))
<1> DEFINE v == Volumes[copying.at]
<1>1. v \in Dirs /\ copying.new \in Names /\ copying.lines \in Seq(Lines)
  BY CopyTypes
<1>2. \E g \in Files(disk, v) : Path(g) = copying.new
  BY DEF CopyInv, Renaming
<1> HIDE DEF v
<1>3. Stored(v, copying.new, SubSeq(copying.lines, 1, k))
  BY <1>1, <1>2, WriteStores DEF v
<1> QED BY <1>3 DEF v

(* One lemma per action: each keeps Base.                                    *)
LEMMA BasePowerOn == ASSUME Base, PowerOn PROVE Base'
<1>1. DirInv' BY DEF Base, PowerOn, durable, DirInv
<1>2. MemInv'
  <2>1. entries' = Detected BY DEF PowerOn
  <2>2. ASSUME NEW n \in DOMAIN Detected PROVE IsEntry(Detected[n])
    <3>1. IsDetected(Detected[n]) BY <2>2, DetectedType DEF Base
    <3>2. \A k \in DOMAIN Detected[n].deps : Detected[n].deps[k] \in OnDisk
      BY <3>1 DEF IsDetected
    <3>3. \A k \in DOMAIN Detected[n].deps : IsDep(Detected[n].deps[k])
      BY <3>2, RecordIsDep DEF Base
    <3> QED BY <3>1, <3>3 DEF IsDetected, IsEntry
  <2>3. \E n \in Nat : DOMAIN Detected = 1..n /\ (Detected # <<>> => n # 0)
    BY DetectedType DEF Base
  <2>4. (\E n \in Nat : DOMAIN entries' = 1..n /\ (entries' # <<>> => n # 0))
        /\ \A n \in DOMAIN entries' : IsEntry(entries'[n])
    BY <2>1, <2>2, <2>3
  <2> QED BY <2>4 DEF Base, PowerOn, history, MemInv, Early, Renaming
<1>3. CopyInv' BY DEF PowerOn, CopyInv, Renaming
<1> QED BY <1>1, <1>2, <1>3 DEF Base

(* Switching off keeps Base.                                                 *)
LEMMA BasePowerOff == ASSUME Base, PowerOff PROVE Base'
<1>1. DirInv'
  <2>1. CASE pc = "write"
    <3>1. PICK k \in 0..Len(copying.lines) : Wrote(Volumes[copying.at], k)
      BY <2>1 DEF PowerOff
    <3> QED BY <2>1, <3>1, WriteIs DEF Base, Stored, Elsewhere
  <2>2. CASE pc # "write"
    BY <2>2 DEF Base, PowerOff, DirInv
  <2> QED BY <2>1, <2>2
<1>2. MemInv'
  <2>1. \E n \in Nat : DOMAIN entries' = 1..n /\ (entries' # <<>> => n # 0)
    <3>1. entries' = <<>> /\ DOMAIN entries' = 1..0 BY DEF PowerOff
    <3> QED BY <3>1
  <2>2. DOMAIN entries' = {} BY DEF PowerOff
  <2> QED BY <2>1, <2>2 DEF Base, PowerOff, MemInv, Early, Renaming
<1>3. CopyInv' BY DEF PowerOff, CopyInv, Renaming
<1> QED BY <1>1, <1>2, <1>3 DEF Base

(* A step before the choice keeps Base.                                      *)
LEMMA BaseQuiet == ASSUME Base, Quiet PROVE Base'
<1>1. DirInv' BY DEF Base, Quiet, DirInv
<1>2. MemInv' BY DEF Base, Quiet, MemInv, Early, Renaming
<1>3. CopyInv' BY DEF Base, Quiet, CopyInv, Early, Renaming, HasTries, Dep, NextPath
<1> QED BY <1>1, <1>2, <1>3 DEF Base

(* Choosing an entry keeps Base.                                             *)
LEMMA BaseTaken == ASSUME Base, Taken PROVE Base'
<1>1. DirInv' BY DEF Base, Taken, DirInv
<1>2. MemInv' BY DEF Base, Taken, MemInv, Early, Renaming
<1>3. CopyInv' BY DEF Taken, CopyInv, Renaming
<1> QED BY <1>1, <1>2, <1>3 DEF Base

(* What counting does: it starts a rename or goes on to the boot.            *)
LEMMA CountIs ==
    ASSUME MemInv, Count
    PROVE  \/ /\ pc' = "rename" /\ counted # selected /\ HasTries(selected)
              /\ copying' = [old |-> Dep(selected).path, new |-> NextPath(Dep(selected)),
                             lines |-> <<>>, at |-> 1]
              /\ copying' \in [old : Names, new : Names, lines : Seq(Lines), at : Nat \ {0}]
           \/ pc' = "boot" /\ (counted = selected \/ ~HasTries(selected))
<1>1. CASE counted # selected /\ HasTries(selected)
  <2>1. selected \in DOMAIN entries BY DEF Count, MemInv
  <2>2. Dep(selected).path \in Names /\ NextPath(Dep(selected)) \in Names
    BY <1>1, <2>1, NextType DEF IsDep
  <2>3. <<>> \in Seq(Lines) /\ 1 \in Nat \ {0} OBVIOUS
  <2>4. copying' = [old |-> Dep(selected).path, new |-> NextPath(Dep(selected)),
                    lines |-> <<>>, at |-> 1]
    BY <1>1 DEF Count
  <2>5. copying' \in [old : Names, new : Names, lines : Seq(Lines), at : Nat \ {0}]
    BY <2>2, <2>3, <2>4
  <2> QED BY <1>1, <2>4, <2>5 DEF Count
<1>2. CASE ~ (counted # selected /\ HasTries(selected))
  BY <1>2 DEF Count
<1> QED BY <1>1, <1>2

(* Counting keeps Base.                                                      *)
LEMMA BaseCount == ASSUME Base, Count PROVE Base'
<1>1. DirInv' BY DEF Base, Count, durable, DirInv
<1>2. pc = "count" /\ pc' \in {"rename", "boot"} /\ counted' = selected
      /\ UNCHANGED <<entries, pick, selected, boots, spent>>
  BY DEF Count, history
<1>3. MemInv'
  BY <1>2 DEF Base, MemInv, Early, Renaming
<1>4. CopyInv'
  <2>1. CASE pc' = "rename"
    <3>1. /\ HasTries(selected)' = HasTries(selected) /\ Dep(selected)' = Dep(selected)
          /\ NextPath(Dep(selected))' = NextPath(Dep(selected))
      BY <1>2 DEF HasTries, Dep, NextPath
    <3>2. /\ copying' \in [old : Names, new : Names, lines : Seq(Lines), at : Nat \ {0}]
          /\ copying'.old = Dep(selected).path /\ copying'.new = NextPath(Dep(selected))
          /\ HasTries(selected)
      BY <2>1, CountIs DEF Base
    <3> QED BY <1>2, <2>1, <3>1, <3>2 DEF CopyInv
  <2>2. CASE pc' # "rename"
    BY <1>2, <2>2 DEF CopyInv, Renaming
  <2> QED BY <2>1, <2>2
<1> QED BY <1>1, <1>3, <1>4 DEF Base

(* The steps of a rename leave the memory but for the path alone.            *)
LEMMA MemFrame ==
    ASSUME Base, pc \in Renaming, pc' \in Renaming,
           UNCHANGED <<entries, pick, selected, counted, boots, spent>>
    PROVE  MemInv'
BY DEF Base, MemInv, Early, Renaming

(* CopyInv depends on these variables only.                                  *)
LEMMA CopyFrame ==
    ASSUME CopyInv, pc \in Renaming, UNCHANGED <<entries, selected, counted>>,
           copying'.old = copying.old, copying'.new = copying.new,
           copying' \in [old : Names, new : Names, lines : Seq(Lines), at : Nat \ {0}],
           pc' \in {"write", "delete"} => copying'.at <= Len(Volumes),
           pc' = "write" =>
              \E g \in Files(disk', Volumes[copying'.at]) : Path(g) = copying'.new
    PROVE  CopyInv'
<1>1. /\ HasTries(selected)' = HasTries(selected) /\ Dep(selected)' = Dep(selected)
      /\ NextPath(Dep(selected))' = NextPath(Dep(selected))
  BY DEF HasTries, Dep, NextPath
<1> QED BY <1>1 DEF CopyInv

(* A stored path is a file of its directory.                                 *)
LEMMA StoredFile ==
    ASSUME NEW v, NEW p \in Names, NEW lines \in Seq(Lines), Stored(v, p, lines)
    PROVE  /\ File(p, lines) \in Files(disk', v) /\ Path(File(p, lines)) = p
           /\ \A h \in Files(disk, v) : Path(h) # p => h \in Files(disk', v)
BY FileIs DEF Stored

(* Creating the copy keeps Base.                                             *)
LEMMA BaseCreate == ASSUME Base, RenameCreate PROVE Base'
<1> DEFINE v == Volumes[copying.at]
<1>1. pc = "rename" /\ UNCHANGED <<entries, pick, selected, counted, boots, spent>>
      /\ copying.at <= Len(Volumes)
  BY DEF RenameCreate, history
<1>2. copying \in [old : Names, new : Names, lines : Seq(Lines), at : Nat \ {0}]
  BY <1>1 DEF Base, CopyInv, Renaming
<1>3. CASE UNCHANGED disk /\ pc' = "rename" /\ copying' = [copying EXCEPT !.at = @ + 1]
  <2>1. /\ copying'.old = copying.old /\ copying'.new = copying.new
        /\ copying' \in [old : Names, new : Names, lines : Seq(Lines), at : Nat \ {0}]
    BY <1>2, <1>3
  <2>2. CopyInv' BY <1>1, <1>3, <2>1, CopyFrame DEF Base, Renaming
  <2>3. DirInv' BY <1>3 DEF Base, DirInv
  <2>4. MemInv' BY <1>1, <1>3, MemFrame DEF Renaming
  <2> QED BY <2>2, <2>3, <2>4 DEF Base
<1>4. CASE /\ pc' = "write"
           /\ Stored(v, copying.new, <<>>)
           /\ \E f \in Files(disk, v) :
                    /\ Path(f) = copying.old /\ f.lines \in Seq(Lines)
                    /\ copying' = [copying EXCEPT !.lines = f.lines]
  <2>1. PICK f \in Files(disk, v) :
               f.lines \in Seq(Lines) /\ copying' = [copying EXCEPT !.lines = f.lines]
    BY <1>4
  <2>2. /\ copying'.old = copying.old /\ copying'.new = copying.new /\ copying'.at = copying.at
        /\ copying' \in [old : Names, new : Names, lines : Seq(Lines), at : Nat \ {0}]
    BY <1>2, <2>1
  <2>3. \E g \in Files(disk', v) : Path(g) = copying.new
    <3>1. copying.new \in Names /\ <<>> \in Seq(Lines) BY <1>2
    <3> HIDE DEF v
    <3> QED BY <1>4, <3>1, StoredFile
  <2>4. CopyInv' BY <1>1, <1>4, <2>2, <2>3, CopyFrame DEF Base, Renaming
  <2>5. DirInv' BY <1>4 DEF Stored, Elsewhere
  <2>6. MemInv' BY <1>1, <1>4, MemFrame DEF Renaming
  <2> QED BY <2>4, <2>5, <2>6 DEF Base
<1> QED BY <1>3, <1>4, CreateIs DEF Base

(* Writing the copy keeps Base.                                              *)
LEMMA BaseWrite ==
    ASSUME Base, NEW k \in 0..Len(copying.lines), RenameWrite(k) PROVE Base'
<1>1. pc = "write" /\ UNCHANGED <<entries, pick, selected, counted, boots, spent>>
      /\ pc' \in {"rename", "delete"} /\ Wrote(Volumes[copying.at], k)
      /\ (copying' = copying \/ copying' = [copying EXCEPT !.at = @ + 1])
      /\ (pc' = "delete" => copying' = copying)
  BY DEF RenameWrite
<1>2. copying \in [old : Names, new : Names, lines : Seq(Lines), at : Nat \ {0}]
      /\ copying.at <= Len(Volumes)
  BY <1>1 DEF Base, CopyInv, Renaming
<1>3. /\ copying'.old = copying.old /\ copying'.new = copying.new
      /\ copying' \in [old : Names, new : Names, lines : Seq(Lines), at : Nat \ {0}]
  BY <1>1, <1>2
<1>4. CopyInv' BY <1>1, <1>2, <1>3, CopyFrame DEF Base, Renaming
<1>5. DirInv' BY <1>1, WriteIs DEF Base, Stored, Elsewhere
<1>6. MemInv' BY <1>1, MemFrame DEF Renaming
<1> QED BY <1>4, <1>5, <1>6 DEF Base

(* The file is gone from the directory and its path remembered, or the rename*)
(* has failed there.                                                         *)
LEMMA DeleteIs ==
    ASSUME DirInv, MemInv, CopyInv, RenameDelete
    PROVE  \/ /\ pc' = "boot" /\ Cut(Volumes[copying.at], copying.old) /\ Remembered
              /\ slipped' = slipped
           \/ /\ pc' = "rename" /\ UNCHANGED <<disk, entries>>
              /\ copying' = [copying EXCEPT !.at = @ + 1]
              /\ slipped' = slipped \cup {copying.new.base}
<1>1. pc = "delete" /\ UNCHANGED selected
  BY DEF RenameDelete
<1>2. Volumes[copying.at] \in Dirs BY <1>1, CopyTypes
<1>3. CASE /\ Removed(Volumes[copying.at], copying.old)
           /\ entries' = [entries EXCEPT ![selected].deps[entries[selected].sel].path
                            = copying.new]
           /\ pc' = "boot" /\ UNCHANGED slipped
  <2>1. Remembered BY <1>1, <1>3, RememberIs
  <2>2. Cut(Volumes[copying.at], copying.old) BY <1>2, <1>3, RemoveCuts
  <2> QED BY <1>3, <2>1, <2>2
<1>4. CASE copying' = [copying EXCEPT !.at = @ + 1] /\ pc' = "rename"
           /\ Slip(copying.new.base) /\ UNCHANGED <<disk, entries>>
  BY <1>4 DEF Slip
<1> QED BY <1>3, <1>4 DEF RenameDelete

(* Deleting the old file keeps Base.                                         *)
LEMMA BaseDelete == ASSUME Base, RenameDelete PROVE Base'
<1>1. pc = "delete" /\ UNCHANGED <<pick, selected, counted, boots, spent>>
  BY DEF RenameDelete
<1>2. copying \in [old : Names, new : Names, lines : Seq(Lines), at : Nat \ {0}]
  BY <1>1 DEF Base, CopyInv, Renaming
<1>3. CASE /\ pc' = "boot" /\ Cut(Volumes[copying.at], copying.old) /\ Remembered
  <2>1. DirInv' BY <1>3 DEF Cut, Elsewhere
  <2>2. CopyInv' BY <1>3 DEF CopyInv, Renaming
  <2>3. selected \in DOMAIN entries /\ (\E n \in Nat : DOMAIN entries = 1..n)
    BY <1>1 DEF Base, MemInv, Renaming
  <2>4. \E n \in Nat : DOMAIN entries' = 1..n /\ (entries' # <<>> => n # 0)
    <3>1. PICK n \in Nat : DOMAIN entries = 1..n BY <2>3
    <3>2. n # 0 BY <2>3, <3>1
    <3> QED BY <1>3, <3>1, <3>2 DEF Remembered
  <2>5. MemInv'
    BY <1>1, <1>3, <2>4 DEF Base, MemInv, Remembered, Early, Renaming
  <2> QED BY <2>1, <2>2, <2>5 DEF Base
<1>4. CASE pc' = "rename" /\ UNCHANGED <<disk, entries>>
           /\ copying' = [copying EXCEPT !.at = @ + 1]
  <2>1. /\ copying'.old = copying.old /\ copying'.new = copying.new
        /\ copying' \in [old : Names, new : Names, lines : Seq(Lines), at : Nat \ {0}]
    BY <1>2, <1>4
  <2>2. CopyInv' BY <1>1, <1>4, <2>1, CopyFrame DEF Base, Renaming
  <2>3. DirInv' BY <1>4 DEF Base, DirInv
  <2>4. MemInv' BY <1>1, <1>4, MemFrame DEF Renaming
  <2> QED BY <2>2, <2>3, <2>4 DEF Base
<1> QED BY <1>3, <1>4, DeleteIs DEF Base

(* Giving the rename up keeps Base.                                          *)
LEMMA BaseFails == ASSUME Base, RenameFails PROVE Base'
<1>1. /\ pc = "rename" /\ pc' = "boot"
      /\ UNCHANGED <<disk, entries, pick, selected, counted, boots, spent>>
  BY DEF RenameFails, durable
<1>2. DirInv' BY <1>1 DEF Base, DirInv
<1>3. MemInv' BY <1>1 DEF Base, MemInv, Early, Renaming
<1>4. CopyInv' BY <1>1 DEF CopyInv, Renaming
<1> QED BY <1>2, <1>3, <1>4 DEF Base

(* A hand-over keeps Base.                                                   *)
LEMMA BaseHandOver == ASSUME Base, boots \in Nat, HandOver PROVE Base'
<1>1. pc = "boot" /\ pc' \in {"system", "select"} /\ boots' = boots + 1
      /\ UNCHANGED <<disk, entries, pick, selected, counted>>
  BY DEF HandOver, durable
<1>2. spent' \in [Bases -> Nat]
  <2>1. spent \in [Bases -> Nat] /\ selected \in DOMAIN entries
    BY <1>1 DEF Base, MemInv
  <2>2. HasTries(selected) => Dep(selected).path.base \in Bases
    BY <2>1, NextType DEF Base, IsDep, Names
  <2> QED BY <2>1, <2>2 DEF HandOver
<1>3. DirInv' BY <1>1 DEF Base, DirInv
<1>4. MemInv'
  <2>1. \E n \in Nat : DOMAIN entries' = 1..n /\ (entries' # <<>> => n # 0)
    BY <1>1 DEF Base, MemInv
  <2>2. /\ \A n \in DOMAIN entries' : IsEntry(entries'[n])
        /\ pick' \in DOMAIN entries' \cup {None}
    BY <1>1 DEF Base, MemInv
  <2>3. pc' \notin Renaming \cup {"count", "boot"} /\ pc' \notin Early /\ boots' # 0
    BY <1>1 DEF Renaming, Early
  <2> QED BY <1>2, <2>1, <2>2, <2>3 DEF MemInv
<1>5. CopyInv' BY <1>1 DEF CopyInv, Renaming
<1> QED BY <1>3, <1>4, <1>5 DEF Base

(* Every step keeps Base.                                                    *)
LEMMA StepBase == ASSUME Base, boots \in Nat, [Next]_vars PROVE Base'
<1>1. CASE QuietStep BY <1>1, QuietIs, BaseQuiet DEF Base
<1>2. CASE TakeStep BY <1>2, TakeIs, BaseTaken DEF Base
<1>3. ASSUME NEW k \in 0..(IF copying = None THEN 0 ELSE Len(copying.lines)), RenameWrite(k)
      PROVE  Base'
  <2>1. copying.lines \in Seq(Lines) BY <1>3, CopyTypes DEF RenameWrite, Base
  <2>2. k \in 0..Len(copying.lines) BY <1>3, <2>1
  <2> QED BY <1>3, <2>2, BaseWrite
<1> QED
  BY <1>1, <1>2, <1>3, BasePowerOn, BasePowerOff, BaseCount, BaseCreate, BaseDelete,
     BaseFails, BaseHandOver DEF Next, QuietStep, TakeStep

-----------------------------------------------------------------------------
(* What keeps an entry on disk.  A base names one file of a directory at     *)
(* first, and a start hands over at most twice: a third boot can rename a    *)
(* file to the name it has.                                                  *)
OneFileEach ==
    \A v \in Dirs : \A f, g \in Range(Confs[v]) : f.base = g.base => f = g

(* A counter in memory is that of the path until its entry is counted.       *)
Pristine(e) ==
    \A k \in DOMAIN e.deps :
        e.deps[k].left = e.deps[k].path.left /\ e.deps[k].done = e.deps[k].path.done
UseInv ==
    /\ pc \notin {"off", "system"} => boots <= 1
    /\ boots = 0 \/ (boots = 1 /\ pc \in {"select", "count"}) =>
         \A n \in DOMAIN entries : n # counted => Pristine(entries[n])
    /\ pc \in Renaming => /\ copying.old.left = copying.new.left + 1
                          /\ copying.new.done = copying.old.done + 1

(* The copy of a file that has most tries left is there in full, ...         *)
Below(h, g) == h = g \/ (g.left # None /\ h.left # None /\ h.left < g.left)
WholeInv ==
    \A v \in Dirs : \A f \in Range(Confs[v]) :
        \E g \in Files(disk, v) :
            /\ g.base = f.base /\ g.lines = f.lines
            /\ \A h \in Files(disk, v) : h.base = f.base => Below(h, g)
(* ... since a try is only ever moved from one side of the name to the other.*)
TallyInv ==
    \A v \in Dirs : \A f \in Range(Confs[v]) : \A h \in Files(disk, v) :
        h.base = f.base =>
            IF f.left = None THEN h.left = None
            ELSE h.left # None /\ h.left + h.done = f.left + f.done
(* The file that is copied is there while it is, and its copy before it goes.*)
WriteInv ==
    LET v == Volumes[copying.at]
    IN  /\ pc \in {"write", "delete"} =>
             \E g \in Files(disk, v) : Path(g) = copying.old /\ g.lines = copying.lines
        /\ pc = "delete" =>
             \E g \in Files(disk, v) : Path(g) = copying.new /\ g.lines = copying.lines
KeptInv == UseInv /\ WholeInv /\ TallyInv /\ WriteInv

(* A file of a directory has its type.                                       *)
LEMMA FileType ==
    ASSUME DirInv, NEW v \in Dirs
    PROVE  /\ \A f \in Files(disk, v) : f \in BlsFile /\ Path(f) \in Names
           /\ \A f, g \in Files(disk, v) : Path(f) = Path(g) => f = g
<1>1. disk[v] \in Seq(BlsFile) BY DEF DirInv
<1>2. \A f \in Files(disk, v) : f \in BlsFile BY <1>1 DEF Files, Range
<1>3. \A f \in BlsFile : Path(f) \in Names BY DEF BlsFile, Path, Names
<1>4. ASSUME NEW f \in Files(disk, v), NEW g \in Files(disk, v), Path(f) = Path(g)
      PROVE  f = g
  <2>1. PICK i \in DOMAIN disk[v] : f = disk[v][i] BY DEF Files, Range
  <2>2. PICK j \in DOMAIN disk[v] : g = disk[v][j] BY DEF Files, Range
  <2>3. i = j BY <1>4, <2>1, <2>2 DEF DirInv
  <2> QED BY <2>1, <2>2, <2>3
<1> QED BY <1>2, <1>3, <1>4

(* A file of the initial directories has its type.                           *)
LEMMA ConfType ==
    ASSUME NEW v \in Dirs, NEW f \in Range(Confs[v]) PROVE f \in BlsFile
BY ConfsAssumption DEF Dirs, Range

(* Storing a file with fewer tries keeps a complete copy with most tries.    *)
LEMMA WholeStored ==
    ASSUME DirInv, WholeInv, TallyInv, NEW v \in Dirs, NEW p \in Names,
           NEW lines \in Seq(Lines), Stored(v, p, lines),
           NEW o \in Files(disk, v), o.base = p.base, o.left \in Nat \ {0},
           p.left = o.left - 1, p.done = o.done + 1
    PROVE  WholeInv' /\ TallyInv'
<1> DEFINE new == File(p, lines)
<1>1. /\ new \in BlsFile /\ Path(new) = p /\ new.base = p.base
      /\ new.left = p.left /\ new.done = p.done
  BY FileIs
<1> HIDE DEF new
<1>2. Files(disk', v) = {h \in Files(disk, v) : Path(h) # p} \cup {new}
      /\ \A w \in Dirs \ {v} : Files(disk', w) = Files(disk, w)
  BY DEF Stored, Elsewhere, new
<1>3. o \in BlsFile /\ o.done \in Nat /\ p.left # None /\ p.left \in Int
  <2>1. o \in BlsFile BY FileType
  <2>2. p.left \in Nat OBVIOUS
  <2> QED BY <2>1, <2>2, NoneAssumption DEF BlsFile
<1>4. ASSUME NEW w \in Dirs, NEW f \in Range(Confs[w])
      PROVE  \E g \in Files(disk', w) :
                /\ g.base = f.base /\ g.lines = f.lines
                /\ \A h \in Files(disk', w) : h.base = f.base => Below(h, g)
  <2>1. PICK g \in Files(disk, w) :
               /\ g.base = f.base /\ g.lines = f.lines
               /\ \A h \in Files(disk, w) : h.base = f.base => Below(h, g)
    BY DEF WholeInv
  <2>2. CASE w # v BY <1>2, <2>1, <2>2
  <2>3. CASE w = v /\ f.base # p.base
    <3>1. Path(g) # p BY <2>1, <2>3 DEF Path
    <3> QED BY <1>1, <1>2, <2>1, <2>3, <3>1
  <2>4. CASE w = v /\ f.base = p.base
    <3>1. o = g \/ (g.left # None /\ o.left < g.left) BY <2>1, <2>4 DEF Below
    <3>2. g.left \in Nat
      <4>1. g \in BlsFile BY <2>4, FileType
      <4> QED BY <3>1, <4>1 DEF BlsFile, Counter
    <3>3. p.left < g.left BY <3>1, <3>2
    <3>4. Path(g) # p BY <3>2, <3>3 DEF Path
    <3>5. Below(new, g) BY <1>1, <1>3, <3>2, <3>3, NoneAssumption DEF Below
    <3> QED BY <1>2, <2>1, <2>4, <3>4, <3>5
  <2> QED BY <2>2, <2>3, <2>4
<1>5. ASSUME NEW w \in Dirs, NEW f \in Range(Confs[w]), NEW h \in Files(disk', w),
             h.base = f.base
      PROVE  IF f.left = None THEN h.left = None
             ELSE h.left # None /\ h.left + h.done = f.left + f.done
  <2>1. CASE w # v \/ h # new BY <1>2, <1>5, <2>1 DEF TallyInv
  <2>2. CASE w = v /\ h = new
    <3>1. IF f.left = None THEN o.left = None
          ELSE o.left # None /\ o.left + o.done = f.left + f.done
      BY <1>1, <1>5, <2>2 DEF TallyInv
    <3>2. o.left # None BY NoneAssumption
    <3>3. h.left + h.done = o.left + o.done BY <1>1, <1>3, <2>2
    <3> QED BY <1>1, <1>3, <2>2, <3>1, <3>2, <3>3
  <2> QED BY <2>1, <2>2
<1> QED BY <1>4, <1>5 DEF WholeInv, TallyInv

(* Deleting the old copy leaves the new one as the one with most tries.      *)
LEMMA WholeCut ==
    ASSUME DirInv, WholeInv, TallyInv, NEW v \in Dirs, NEW p, Cut(v, p),
           NEW o \in Files(disk, v), Path(o) = p, o.left \in Nat,
           NEW n \in Files(disk, v), n.base = o.base, n.left = o.left - 1,
           n.lines = o.lines
    PROVE  WholeInv' /\ TallyInv'
<1>1. Files(disk', v) = {h \in Files(disk, v) : Path(h) # p}
      /\ \A w \in Dirs \ {v} : Files(disk', w) = Files(disk, w)
  BY DEF Cut, Elsewhere
<1>2. o \in BlsFile /\ n \in BlsFile BY FileType
<1>3. p.base = o.base /\ p.left = o.left BY DEF Path
<1>4. Path(n) # p BY <1>3 DEF Path
<1>5. ASSUME NEW w \in Dirs, NEW f \in Range(Confs[w])
      PROVE  \E g \in Files(disk', w) :
                /\ g.base = f.base /\ g.lines = f.lines
                /\ \A h \in Files(disk', w) : h.base = f.base => Below(h, g)
  <2>1. PICK g \in Files(disk, w) :
               /\ g.base = f.base /\ g.lines = f.lines
               /\ \A h \in Files(disk, w) : h.base = f.base => Below(h, g)
    BY DEF WholeInv
  <2>2. CASE w # v BY <1>1, <2>1, <2>2
  <2>3. CASE w = v /\ Path(g) # p BY <1>1, <2>1, <2>3
  <2>4. CASE w = v /\ Path(g) = p
    <3>1. g = o BY <2>4, FileType
    <3>2. n \in Files(disk', w) /\ n.base = f.base /\ n.lines = f.lines
      BY <1>1, <1>4, <2>1, <2>4, <3>1
    <3>3. ASSUME NEW h \in Files(disk', w), h.base = f.base PROVE Below(h, n)
      <4>1. h \in Files(disk, v) /\ Path(h) # p BY <1>1, <2>4, <3>3
      <4>2. h # g BY <2>4, <4>1
      <4>3. h.left # None /\ h.left < g.left BY <2>1, <2>4, <3>3, <4>1, <4>2 DEF Below
      <4>4. h \in BlsFile /\ h.left \in Nat /\ h.done \in Nat /\ n.done \in Nat
            /\ o.done \in Nat
        <5>1. h \in BlsFile BY <4>1, FileType
        <5> QED BY <1>2, <4>3, <5>1 DEF BlsFile, Counter
      <4>5. n.left \in Nat /\ (h.left = n.left \/ h.left < n.left)
        BY <1>2, <3>1, <4>3, <4>4
      <4>6. CASE h.left = n.left
        <5>1. h.left + h.done = n.left + n.done
          BY <2>1, <2>4, <3>1, <3>3, <4>1, <4>3 DEF TallyInv
        <5>2. h.done = n.done BY <4>4, <4>5, <4>6, <5>1
        <5>3. Path(h) = Path(n) BY <2>1, <3>1, <3>3, <4>6, <5>2 DEF Path
        <5>4. h = n BY <4>1, <5>3, FileType
        <5> QED BY <5>4 DEF Below
      <4>7. CASE h.left < n.left
        BY <4>3, <4>5, <4>7, NoneAssumption DEF Below
      <4> QED BY <4>5, <4>6, <4>7
    <3> QED BY <3>2, <3>3
  <2> QED BY <2>2, <2>3, <2>4
<1>6. TallyInv'
  <2>1. \A w \in Dirs : Files(disk', w) \subseteq Files(disk, w) BY <1>1
  <2> QED BY <2>1 DEF TallyInv
<1> QED BY <1>5, <1>6 DEF WholeInv

(* A file has the base and the counter of its path.                          *)
LEMMA PathParts ==
    ASSUME NEW f, NEW p, Path(f) = p
    PROVE  f.base = p.base /\ f.left = p.left /\ f.done = p.done
BY DEF Path

(* The steps that leave the files alone keep what is on disk.                *)
LEMMA DiskFrame ==
    ASSUME WholeInv, TallyInv, UNCHANGED disk PROVE WholeInv' /\ TallyInv'
BY DEF WholeInv, TallyInv

(* The file that is renamed is one less, and so never the one kept.          *)
LEMMA RenameLess ==
    ASSUME Base, UseInv, pc \in Renaming
    PROVE  /\ copying.old \in Names /\ copying.new \in Names
           /\ copying.new.base = copying.old.base /\ copying.old.left \in Nat \ {0}
           /\ copying.new.left = copying.old.left - 1
           /\ copying.new.done = copying.old.done + 1
<1>1. selected \in DOMAIN entries /\ HasTries(selected)
  BY DEF Base, MemInv, CopyInv
<1>2. Dep(selected).left \in Nat \ {0} BY <1>1, NextType DEF Base
<1>3. /\ copying.old = Dep(selected).path /\ copying.new = NextPath(Dep(selected))
      /\ copying.old \in Names /\ copying.new \in Names
  BY DEF Base, CopyInv
<1>4. copying.new.left = Dep(selected).left - 1 /\ copying.new.base = copying.old.base
  BY <1>3 DEF NextPath
<1>5. copying.old.left = copying.new.left + 1 /\ copying.new.done = copying.old.done + 1
  BY DEF UseInv
<1>6. copying.new.left \in Nat BY <1>2, <1>4
<1>7. copying.old.left \in Nat \ {0} /\ copying.new.left = copying.old.left - 1
  BY <1>5, <1>6
<1> QED BY <1>3, <1>4, <1>5, <1>7

(* One lemma per action: each keeps KeptInv.                                 *)
LEMMA KeptPowerOn == ASSUME Base, KeptInv, PowerOn PROVE KeptInv'
<1>1. UNCHANGED disk /\ pc' = "tpm" /\ boots' = 0 /\ entries' = Detected
  BY DEF PowerOn, durable
<1>2. ASSUME NEW n \in DOMAIN Detected PROVE Pristine(Detected[n])
  <2>1. Detected[n].deps \in Seq(OnDisk) BY DetectedType DEF Base, IsDetected
  <2>2. ASSUME NEW k \in DOMAIN Detected[n].deps
        PROVE  LET d == Detected[n].deps[k]
               IN  d.left = d.path.left /\ d.done = d.path.done
    <3>1. Detected[n].deps[k] \in OnDisk BY <2>1
    <3>2. PICK v \in Dirs : \E f \in Files(disk, v) :
                 LET d == Detected[n].deps[k]
                 IN  d.path = Path(f) /\ d.left = f.left /\ d.done = f.done
      BY <3>1, RecordIsDep DEF Base
    <3> QED BY <3>2 DEF Path
  <2> QED BY <2>2 DEF Pristine
<1>3. UseInv' BY <1>1, <1>2 DEF UseInv, Renaming
<1>4. WriteInv' BY <1>1 DEF WriteInv
<1> QED BY <1>1, <1>3, <1>4, DiskFrame DEF KeptInv

(* Switching off keeps KeptInv.                                              *)
LEMMA KeptPowerOff == ASSUME Base, KeptInv, PowerOff PROVE KeptInv'
<1>1. pc' = "off" /\ entries' = <<>> BY DEF PowerOff
<1>2. UseInv' BY <1>1 DEF UseInv, Renaming
<1>3. WriteInv' BY <1>1 DEF WriteInv
<1>4. WholeInv' /\ TallyInv'
  <2>1. CASE pc = "write"
    <3> DEFINE v == Volumes[copying.at]
    <3>1. PICK k \in 0..Len(copying.lines) : Wrote(v, k)
      BY <2>1 DEF PowerOff
    <3>2. Stored(v, copying.new, SubSeq(copying.lines, 1, k))
      BY <2>1, <3>1, WriteIs DEF Base
    <3>3. PICK o \in Files(disk, v) : Path(o) = copying.old
      BY <2>1 DEF KeptInv, WriteInv
    <3>4. v \in Dirs /\ copying.lines \in Seq(Lines) BY <2>1, CopyTypes DEF Base
    <3>5. SubSeq(copying.lines, 1, k) \in Seq(Lines) BY <3>4, SubSeqProperties
    <3> HIDE DEF v
    <3>6. /\ copying.new \in Names /\ copying.new.base = copying.old.base
          /\ copying.old.left \in Nat \ {0} /\ copying.new.left = copying.old.left - 1
          /\ copying.new.done = copying.old.done + 1
      BY <2>1, RenameLess DEF KeptInv, Renaming
    <3>7. o.base = copying.old.base /\ o.left = copying.old.left /\ o.done = copying.old.done
      BY <3>3, PathParts
    <3>8. DirInv /\ WholeInv /\ TallyInv BY DEF Base, KeptInv
    <3> QED BY <3>2, <3>4, <3>5, <3>6, <3>7, <3>8, WholeStored
  <2>2. CASE pc # "write" BY <2>2, DiskFrame DEF PowerOff, KeptInv
  <2> QED BY <2>1, <2>2
<1> QED BY <1>2, <1>3, <1>4 DEF KeptInv

(* A step before the choice keeps KeptInv.                                   *)
LEMMA KeptQuiet == ASSUME Base, KeptInv, Quiet PROVE KeptInv'
<1>1. UNCHANGED <<disk, entries, selected, counted, copying, boots>>
      /\ (pc' = pc \/ (pc \in Early /\ boots = 0 /\ pc' \in Early \cup {"select"}))
  BY DEF Base, MemInv, Quiet
<1>2. UseInv' BY <1>1 DEF KeptInv, UseInv, Early, Renaming, Pristine
<1>3. WriteInv' BY <1>1 DEF KeptInv, WriteInv, Early
<1> QED BY <1>1, <1>2, <1>3, DiskFrame DEF KeptInv

(* Choosing an entry keeps KeptInv.                                          *)
LEMMA KeptTaken == ASSUME Base, KeptInv, Taken PROVE KeptInv'
<1>1. pc = "select" /\ pc' = "count" /\ UNCHANGED <<disk, counted, copying, boots>>
      /\ DOMAIN entries' = DOMAIN entries
      /\ \A n \in DOMAIN entries : entries'[n].deps = entries[n].deps
  BY DEF Taken
<1>2. \A n \in DOMAIN entries : Pristine(entries[n]) => Pristine(entries'[n])
  BY <1>1 DEF Pristine
<1>3. UseInv' BY <1>1, <1>2 DEF KeptInv, UseInv, Renaming
<1>4. WriteInv' BY <1>1 DEF WriteInv
<1> QED BY <1>1, <1>3, <1>4, DiskFrame DEF KeptInv

(* Counting keeps KeptInv.                                                   *)
LEMMA KeptCount == ASSUME Base, boots \in Nat, KeptInv, Count PROVE KeptInv'
<1>1. pc = "count" /\ pc' \in {"rename", "boot"} /\ counted' = selected
      /\ UNCHANGED <<disk, entries, selected, boots>>
  BY DEF Count, durable
<1>2. boots <= 1 /\ \A n \in DOMAIN entries : n # counted => Pristine(entries[n])
  BY <1>1 DEF KeptInv, UseInv
<1>3. boots' = 0 \/ (boots' = 1 /\ pc' \in {"select", "count"}) =>
        \A n \in DOMAIN entries' : n # counted' => Pristine(entries'[n])
  <2>1. boots = 0 => counted = None BY <1>1 DEF Base, MemInv, Renaming
  <2>2. None \notin DOMAIN entries BY NoneAssumption DEF Base, MemInv
  <2> QED BY <1>1, <1>2, <2>1, <2>2
<1>4. pc' \in Renaming => copying'.old.left = copying'.new.left + 1
                          /\ copying'.new.done = copying'.old.done + 1
  <2>1. CASE pc' = "rename"
    <3>1. selected \in DOMAIN entries BY <1>1 DEF Base, MemInv
    <3>2. counted # selected /\ HasTries(selected)
          /\ copying'.old = Dep(selected).path /\ copying'.new = NextPath(Dep(selected))
      BY <1>1, <2>1, CountIs DEF Base
    <3>3. Pristine(entries[selected]) BY <1>2, <3>1, <3>2
    <3>4. Dep(selected).left \in Nat \ {0} /\ IsDep(Dep(selected))
          /\ entries[selected].sel \in DOMAIN entries[selected].deps
      BY <3>1, <3>2, NextType DEF Base
    <3>5. Dep(selected).left = Dep(selected).path.left
          /\ Dep(selected).done = Dep(selected).path.done
      BY <3>3, <3>4 DEF Pristine, Dep
    <3> QED BY <3>2, <3>4, <3>5 DEF NextPath
  <2>2. CASE pc' # "rename" BY <1>1, <2>2 DEF Renaming
  <2> QED BY <2>1, <2>2
<1>5. UseInv' BY <1>1, <1>2, <1>3, <1>4 DEF UseInv
<1>6. WriteInv' BY <1>1 DEF WriteInv
<1> QED BY <1>1, <1>5, <1>6, DiskFrame DEF KeptInv

(* What is said of the use of the counters outlives the steps of a rename.   *)
LEMMA UseFrame ==
    ASSUME UseInv, pc \in Renaming, pc' \in Renaming,
           UNCHANGED <<entries, counted, boots>>,
           copying'.old = copying.old, copying'.new = copying.new
    PROVE  UseInv'
BY DEF UseInv, Renaming, Pristine

(* Creating the copy keeps KeptInv.                                          *)
LEMMA KeptCreate == ASSUME Base, KeptInv, RenameCreate PROVE KeptInv'
<1> DEFINE v == Volumes[copying.at]
<1>1. pc = "rename" /\ UNCHANGED <<entries, counted, boots>>
  BY DEF RenameCreate
<1>2. copying \in [old : Names, new : Names, lines : Seq(Lines), at : Nat \ {0}]
  BY <1>1 DEF Base, CopyInv, Renaming
<1>3. CASE UNCHANGED disk /\ pc' = "rename" /\ copying' = [copying EXCEPT !.at = @ + 1]
  <2>1. copying'.old = copying.old /\ copying'.new = copying.new BY <1>2, <1>3
  <2>2. UseInv' BY <1>1, <1>3, <2>1, UseFrame DEF KeptInv, Renaming
  <2>3. WriteInv' BY <1>3 DEF WriteInv
  <2> QED BY <1>3, <2>2, <2>3, DiskFrame DEF KeptInv
<1>4. CASE /\ pc' = "write"
           /\ Stored(v, copying.new, <<>>)
           /\ \E f \in Files(disk, v) :
                    /\ Path(f) = copying.old /\ f.lines \in Seq(Lines)
                    /\ copying' = [copying EXCEPT !.lines = f.lines]
  <2>1. PICK o \in Files(disk, v) :
               Path(o) = copying.old /\ copying' = [copying EXCEPT !.lines = o.lines]
    BY <1>4
  <2>2. copying'.old = copying.old /\ copying'.new = copying.new
        /\ copying'.at = copying.at /\ copying'.lines = o.lines
    BY <1>2, <2>1
  <2>3. UseInv' BY <1>1, <1>4, <2>2, UseFrame DEF KeptInv, Renaming
  <2>4. v \in Dirs
    BY <1>1, <1>2, ConfsAssumption DEF RenameCreate, Dirs, Range
  <2>5. <<>> \in Seq(Lines) OBVIOUS
  <2> HIDE DEF v
  <2>6. /\ copying.new \in Names /\ o.base = copying.new.base /\ o.left \in Nat \ {0}
        /\ copying.new.left = o.left - 1 /\ copying.new.done = o.done + 1
    BY <1>1, <2>1, PathParts, RenameLess DEF KeptInv, Renaming
  <2>7. WholeInv' /\ TallyInv'
    BY <1>4, <2>4, <2>5, <2>6, WholeStored DEF Base, KeptInv
  <2>8. o \in Files(disk', v)
    <3>1. Path(o) # copying.new BY <2>6 DEF Path
    <3> QED BY <1>4, <2>5, <2>6, <3>1, StoredFile
  <2>9. WriteInv'
    BY <1>4, <2>1, <2>2, <2>8 DEF WriteInv, v
  <2> QED BY <2>3, <2>7, <2>9 DEF KeptInv
<1> QED BY <1>3, <1>4, CreateIs DEF Base

(* Writing the copy keeps KeptInv.                                           *)
LEMMA KeptWrite ==
    ASSUME Base, KeptInv, NEW k \in 0..Len(copying.lines), RenameWrite(k) PROVE KeptInv'
<1> DEFINE v == Volumes[copying.at]
           lines == SubSeq(copying.lines, 1, k)
<1>1. pc = "write" /\ UNCHANGED <<entries, counted, boots>>
      /\ pc' \in {"rename", "delete"} /\ Wrote(v, k)
      /\ (copying' = copying \/ copying' = [copying EXCEPT !.at = @ + 1])
      /\ (pc' = "delete" => copying' = copying /\ k = Len(copying.lines))
  BY DEF RenameWrite
<1>2. copying \in [old : Names, new : Names, lines : Seq(Lines), at : Nat \ {0}]
  BY <1>1 DEF Base, CopyInv, Renaming
<1>3. copying'.old = copying.old /\ copying'.new = copying.new BY <1>1, <1>2
<1>4. UseInv' BY <1>1, <1>3, UseFrame DEF KeptInv, Renaming
<1>5. Stored(v, copying.new, lines) BY <1>1, WriteIs DEF Base
<1>6. v \in Dirs /\ copying.lines \in Seq(Lines) BY <1>1, CopyTypes DEF Base
<1>7. lines \in Seq(Lines) /\ (k = Len(copying.lines) => lines = copying.lines)
  BY <1>6, SubSeqProperties, SubSeqFull
<1> HIDE DEF v, lines
<1>8. PICK o \in Files(disk, v) : Path(o) = copying.old /\ o.lines = copying.lines
  BY <1>1 DEF KeptInv, WriteInv, v
<1>9. /\ copying.new \in Names /\ o.base = copying.new.base /\ o.left \in Nat \ {0}
      /\ copying.new.left = o.left - 1 /\ copying.new.done = o.done + 1
  BY <1>1, <1>8, PathParts, RenameLess DEF KeptInv, Renaming
<1>10. WholeInv' /\ TallyInv'
  BY <1>5, <1>6, <1>7, <1>9, WholeStored DEF Base, KeptInv
<1>11. WriteInv'
  <2>1. o \in Files(disk', v)
    <3>1. Path(o) # copying.new BY <1>9 DEF Path
    <3> QED BY <1>5, <1>7, <1>9, <3>1, StoredFile
  <2>2. File(copying.new, lines) \in Files(disk', v)
        /\ Path(File(copying.new, lines)) = copying.new
        /\ File(copying.new, lines).lines = lines
    BY <1>5, <1>7, <1>9, StoredFile, FileIs
  <2> QED BY <1>1, <1>7, <1>8, <2>1, <2>2 DEF WriteInv, v
<1> QED BY <1>4, <1>10, <1>11 DEF KeptInv

(* Deleting the old file keeps KeptInv.                                      *)
LEMMA KeptDelete == ASSUME Base, KeptInv, RenameDelete PROVE KeptInv'
<1> DEFINE v == Volumes[copying.at]
<1>1. pc = "delete" /\ UNCHANGED <<selected, counted, boots>>
  BY DEF RenameDelete
<1>2. copying \in [old : Names, new : Names, lines : Seq(Lines), at : Nat \ {0}]
      /\ selected = counted
  BY <1>1 DEF Base, CopyInv, Renaming
<1>3. CASE /\ pc' = "boot" /\ Cut(v, copying.old) /\ Remembered
  <2>1. UseInv'
    BY <1>1, <1>2, <1>3 DEF KeptInv, UseInv, Renaming, Remembered, Pristine
  <2>2. WriteInv' BY <1>3 DEF WriteInv
  <2>3. v \in Dirs BY <1>1, CopyTypes DEF Base
  <2>4. PICK o \in Files(disk, v) : Path(o) = copying.old /\ o.lines = copying.lines
    BY <1>1 DEF KeptInv, WriteInv
  <2>5. PICK n \in Files(disk, v) : Path(n) = copying.new /\ n.lines = copying.lines
    BY <1>1 DEF KeptInv, WriteInv
  <2> HIDE DEF v
  <2>6. o.left \in Nat /\ n.base = o.base /\ n.left = o.left - 1 /\ n.lines = o.lines
    BY <1>1, <2>4, <2>5, PathParts, RenameLess DEF KeptInv, Renaming
  <2>7. WholeInv' /\ TallyInv'
    BY <1>3, <2>3, <2>4, <2>6, WholeCut DEF Base, KeptInv
  <2> QED BY <2>1, <2>2, <2>7 DEF KeptInv
<1>4. CASE pc' = "rename" /\ UNCHANGED <<disk, entries>>
           /\ copying' = [copying EXCEPT !.at = @ + 1]
  <2>1. copying'.old = copying.old /\ copying'.new = copying.new BY <1>2, <1>4
  <2>2. UseInv' BY <1>1, <1>4, <2>1, UseFrame DEF KeptInv, Renaming
  <2>3. WriteInv' BY <1>4 DEF WriteInv
  <2> QED BY <1>4, <2>2, <2>3, DiskFrame DEF KeptInv
<1> QED BY <1>3, <1>4, DeleteIs DEF Base

(* Giving the rename up keeps KeptInv.                                       *)
LEMMA KeptFails == ASSUME KeptInv, RenameFails PROVE KeptInv'
<1>1. pc = "rename" /\ pc' = "boot" /\ UNCHANGED <<disk, entries, counted, boots>>
  BY DEF RenameFails, durable
<1>2. UseInv' BY <1>1 DEF KeptInv, UseInv, Renaming, Pristine
<1>3. WriteInv' BY <1>1 DEF WriteInv
<1> QED BY <1>1, <1>2, <1>3, DiskFrame DEF KeptInv

(* A hand-over keeps KeptInv.                                                *)
LEMMA KeptHandOver ==
    ASSUME MaxBoots <= 2, boots \in Nat, KeptInv, HandOver PROVE KeptInv'
<1>1. pc = "boot" /\ pc' \in {"system", "select"} /\ boots' = boots + 1
      /\ UNCHANGED <<disk, entries, counted>>
  BY DEF HandOver, durable
<1>2. pc' = "select" => boots' < MaxBoots BY DEF HandOver
<1>3. UseInv'
  BY <1>1, <1>2, BoundsAssumption DEF KeptInv, UseInv, Renaming, Pristine
<1>4. WriteInv' BY <1>1 DEF WriteInv
<1> QED BY <1>1, <1>3, <1>4, DiskFrame DEF KeptInv

(* Every step keeps KeptInv.                                                 *)
LEMMA StepKept ==
    ASSUME MaxBoots <= 2, Base, boots \in Nat, KeptInv, [Next]_vars PROVE KeptInv'
<1>1. CASE QuietStep BY <1>1, QuietIs, KeptQuiet DEF Base
<1>2. CASE TakeStep BY <1>2, TakeIs, KeptTaken DEF Base
<1>3. ASSUME NEW k \in 0..(IF copying = None THEN 0 ELSE Len(copying.lines)), RenameWrite(k)
      PROVE  KeptInv'
  <2>1. copying.lines \in Seq(Lines) BY <1>3, CopyTypes DEF RenameWrite, Base
  <2>2. k \in 0..Len(copying.lines) BY <1>3, <2>1
  <2> QED BY <1>3, <2>2, KeptWrite
<1> QED
  BY <1>1, <1>2, <1>3, KeptPowerOn, KeptPowerOff, KeptCount, KeptCreate, KeptDelete,
     KeptFails, KeptHandOver DEF Next, QuietStep, TakeStep

(* A base that names one file of its directory: the file, its lines and its  *)
(* tally are those of the start.                                             *)
LEMMA InitBase == Init => Base
<1> SUFFICES ASSUME Init PROVE Base OBVIOUS
<1>1. DirInv
  BY ConfsAssumption DEF Init, DirInv, Dirs
<1>2. MemInv
  <2>1. entries = <<>> /\ DOMAIN entries = 1..0 BY DEF Init
  <2>2. \E n \in Nat : DOMAIN entries = 1..n /\ (entries # <<>> => n # 0)
    BY <2>1
  <2> QED BY <2>1, <2>2 DEF Init, MemInv, Early, Renaming
<1>3. CopyInv BY DEF Init, CopyInv, Renaming
<1> QED BY <1>1, <1>2, <1>3 DEF Base

(* The initial directories satisfy KeptInv.                                  *)
LEMMA InitKept == ASSUME OneFileEach, Init PROVE KeptInv
<1>1. UseInv BY DEF Init, UseInv, Renaming
<1>2. WriteInv BY DEF Init, WriteInv
<1>3. \A v \in Dirs : Files(disk, v) = Range(Confs[v]) BY DEF Init, Files
<1>4. WholeInv
  BY <1>3 DEF WholeInv, OneFileEach, Below
<1>5. TallyInv BY <1>3 DEF TallyInv, OneFileEach
<1> QED BY <1>1, <1>2, <1>4, <1>5 DEF KeptInv

(* The directories and the entries keep their types, ...                     *)
THEOREM SpecBase == Spec => []Base
<1>1. Init => Base BY InitBase
<1>2. IInv /\ Base /\ [Next]_vars => Base' BY StepBase DEF IInv, Typing
<1> QED BY <1>1, <1>2, Invariant, PTL DEF Spec

(* ... and an entry of \loader\entries is on disk in full under some name at *)
(* every moment, wherever the power goes, when a start boots at most twice.  *)
THEOREM SpecKeptOnDisk ==
    ASSUME MaxBoots <= 2, OneFileEach PROVE Spec => []KeptOnDisk
<1>1. Init => KeptInv BY InitKept
<1>2. IInv /\ Base /\ KeptInv /\ [Next]_vars => KeptInv'
  BY StepKept DEF IInv, Typing
<1>3. Base /\ KeptInv => KeptOnDisk
  <2> SUFFICES ASSUME Base, KeptInv, NEW v \in DOMAIN disk, NEW f \in Range(Confs[v])
               PROVE  \E g \in Range(disk[v]) : g.base = f.base /\ g.lines = f.lines
    BY DEF KeptOnDisk
  <2>1. v \in Dirs BY DEF Base, DirInv
  <2> QED BY <2>1 DEF KeptInv, WholeInv, Files
<1> QED BY <1>1, <1>2, <1>3, Invariant, SpecBase, PTL DEF Spec

-----------------------------------------------------------------------------
(* What a hand-over costs.  A base names one file on all the volumes: the    *)
(* rename takes the first volume that has the path.                          *)
OneFilePerBase ==
    \A v, w \in Dirs : \A f \in Range(Confs[v]), g \in Range(Confs[w]) :
        f.base = g.base => v = w /\ f = g

Copied(b) == pc \in {"write", "delete"} /\ copying.new.base = b
(* The file of a deployment is the only one, but for the copy being made.    *)
SingleInv ==
    \A v, w \in Dirs : \A g \in Files(disk, v), h \in Files(disk, w) :
        g.base = h.base /\ g.base \notin slipped /\ ~Copied(g.base) => v = w /\ g = h
PairInv ==
    \A w \in Dirs : \A h \in Files(disk, w) :
        Copied(h.base) /\ h.base \notin slipped =>
            w = Volumes[copying.at] /\ Path(h) \in {copying.old, copying.new}

(* n tries left are no more than those not paid for yet.                     *)
Owes(b, n) == \A all \in Initial(b) : n + spent[b] <= all
(* On disk, in memory until the first hand-over and after it, and on disk    *)
(* when the first hand-over is next.                                         *)
PaidInv ==
    \A v \in Dirs : \A f \in Files(disk, v) :
        f.left # None /\ f.base \notin slipped => Owes(f.base, f.left)
MemPaid ==
    \A n \in DOMAIN entries : \A k \in DOMAIN entries[n].deps :
        LET d == entries[n].deps[k]
        IN  d.left # None /\ d.path.base \notin slipped =>
                Owes(d.path.base, IF boots = 0 THEN d.left ELSE d.left - 1)
BootPaid ==
    pc = "boot" /\ boots = 0 /\ HasTries(selected) =>
        \A v \in Dirs : \A f \in Files(disk, v) :
            f.left # None /\ f.base = Dep(selected).path.base /\ f.base \notin slipped =>
                Owes(f.base, f.left + 1)
SpentInv == SingleInv /\ PairInv /\ PaidInv /\ MemPaid /\ BootPaid

(* An initial counter is a number.                                           *)
LEMMA InitialType == ASSUME NEW b, NEW all \in Initial(b) PROVE all \in Nat
<1>1. PICK f \in UNION {Range(Confs[v]) : v \in DOMAIN Confs} : all = f.left /\ all # None
  BY DEF Initial
<1>2. PICK v \in DOMAIN Confs : f \in Range(Confs[v]) BY <1>1
<1>3. v \in Dirs BY ConfsAssumption DEF Dirs
<1>4. f \in BlsFile BY <1>2, <1>3, ConfType
<1> QED BY <1>1, <1>4 DEF BlsFile, Counter

(* Fewer tries are owed when more are.                                       *)
LEMMA OwesLess ==
    ASSUME NEW b \in Bases, spent[b] \in Nat, NEW m \in Int, NEW n \in Int, n <= m, Owes(b, m)
    PROVE  Owes(b, n)
<1> SUFFICES ASSUME NEW all \in Initial(b) PROVE n + spent[b] <= all
  BY DEF Owes
<1>1. all \in Nat BY InitialType
<1>2. m + spent[b] <= all BY DEF Owes
<1> QED BY <1>1, <1>2

(* The steps that change no file.                                            *)
LEMMA SameFiles ==
    ASSUME SingleInv, PairInv, PaidInv, UNCHANGED <<disk, spent>>, slipped \subseteq slipped',
           \A b \in Bases \ slipped' : Copied(b)' <=> Copied(b),
           pc' \in {"write", "delete"} => UNCHANGED copying, DirInv
    PROVE  SingleInv' /\ PairInv' /\ PaidInv'
<1>1. \A v \in Dirs : \A f \in Files(disk, v) : f.base \in Bases
  <2>1. \A v \in Dirs : \A f \in Files(disk, v) : f \in BlsFile BY FileType
  <2> QED BY <2>1 DEF BlsFile
<1>2. SingleInv' BY <1>1 DEF SingleInv
<1>3. PairInv' BY <1>1 DEF PairInv, Copied
<1>4. PaidInv' BY <1>1 DEF PaidInv, Owes
<1> QED BY <1>2, <1>3, <1>4

(* One lemma per action: each keeps SpentInv.                                *)
LEMMA SpentPowerOn == ASSUME Base, SpentInv, PowerOn PROVE SpentInv'
<1>1. UNCHANGED <<disk, spent, slipped>> /\ pc = "off" /\ pc' = "tpm" /\ boots' = 0
      /\ entries' = Detected
  BY DEF PowerOn, durable, history
<1>2. SingleInv' /\ PairInv' /\ PaidInv'
  BY <1>1, SameFiles DEF Base, SpentInv, Copied
<1>3. MemPaid'
  <2> SUFFICES ASSUME NEW n \in DOMAIN Detected, NEW k \in DOMAIN Detected[n].deps,
                      NEW d, d = Detected[n].deps[k],
                      d.left # None, d.path.base \notin slipped
               PROVE  Owes(d.path.base, d.left)'
    BY <1>1 DEF MemPaid
  <2>1. Detected[n].deps \in Seq(OnDisk) BY DetectedType DEF Base, IsDetected
  <2>2. d \in OnDisk BY <2>1
  <2>3. PICK v \in Dirs : \E f \in Files(disk, v) : d.path = Path(f) /\ d.left = f.left
    BY <2>2, RecordIsDep DEF Base
  <2>4. PICK f \in Files(disk, v) : d.path = Path(f) /\ d.left = f.left BY <2>3
  <2>5. d.path.base = f.base BY <2>4 DEF Path
  <2>6. Owes(f.base, f.left) BY <2>4, <2>5 DEF SpentInv, PaidInv
  <2> QED BY <1>1, <2>4, <2>5, <2>6 DEF Owes
<1>4. BootPaid' BY <1>1 DEF BootPaid
<1> QED BY <1>2, <1>3, <1>4 DEF SpentInv

(* A step before the choice keeps SpentInv.                                  *)
LEMMA SpentQuiet == ASSUME Base, SpentInv, Quiet PROVE SpentInv'
<1>1. UNCHANGED <<disk, entries, selected, copying, boots, spent, slipped>>
      /\ (pc' = pc \/ (pc \in Early /\ pc' \in Early \cup {"select"}))
  BY DEF Quiet
<1>2. SingleInv' /\ PairInv' /\ PaidInv'
  BY <1>1, SameFiles DEF Base, SpentInv, Copied, Early
<1>3. MemPaid' BY <1>1 DEF SpentInv, MemPaid, Owes
<1>4. BootPaid' BY <1>1 DEF SpentInv, BootPaid, HasTries, Dep, Owes, Early
<1> QED BY <1>2, <1>3, <1>4 DEF SpentInv

(* Choosing an entry keeps SpentInv.                                         *)
LEMMA SpentTaken == ASSUME Base, SpentInv, Taken PROVE SpentInv'
<1>1. UNCHANGED <<disk, boots, spent, slipped>> /\ pc = "select" /\ pc' = "count"
      /\ DOMAIN entries' = DOMAIN entries
      /\ \A n \in DOMAIN entries : entries'[n].deps = entries[n].deps
  BY DEF Taken
<1>2. SingleInv' /\ PairInv' /\ PaidInv'
  BY <1>1, SameFiles DEF Base, SpentInv, Copied
<1>3. MemPaid' BY <1>1 DEF SpentInv, MemPaid, Owes
<1>4. BootPaid' BY <1>1 DEF BootPaid
<1> QED BY <1>2, <1>3, <1>4 DEF SpentInv

(* Counting keeps SpentInv.                                                  *)
LEMMA SpentCount == ASSUME Base, SpentInv, Count PROVE SpentInv'
<1>1. UNCHANGED <<disk, entries, selected, boots, spent, slipped>> /\ pc = "count"
      /\ pc' \in {"rename", "boot"}
  BY DEF Count, durable, history
<1>2. SingleInv' /\ PairInv' /\ PaidInv'
  BY <1>1, SameFiles DEF Base, SpentInv, Copied
<1>3. MemPaid' BY <1>1 DEF SpentInv, MemPaid, Owes
<1>4. BootPaid'
  <2>1. CASE pc' = "boot" /\ boots = 0
    <3>1. selected # None /\ counted = None
      BY <1>1, <2>1, NoneAssumption DEF Base, MemInv, Renaming
    <3>2. ~HasTries(selected) BY <2>1, <3>1, CountIs DEF Base
    <3>3. ~HasTries(selected)' BY <1>1, <3>2 DEF HasTries, Dep
    <3> QED BY <3>3 DEF BootPaid
  <2>2. CASE ~ (pc' = "boot" /\ boots = 0) BY <1>1, <2>2 DEF BootPaid
  <2> QED BY <2>1, <2>2
<1> QED BY <1>2, <1>3, <1>4 DEF SpentInv

(* The name a file gets owes what its deployment does, before the first      *)
(* hand-over one try less.                                                   *)
LEMMA NextOwes ==
    ASSUME Base, SpentInv, pc \in Renaming, copying.new.base \notin slipped
    PROVE  /\ Owes(copying.new.base, copying.new.left)
           /\ boots = 0 => Owes(copying.new.base, copying.new.left + 1)
<1> DEFINE d == Dep(selected)
           b == copying.new.base
<1>1. selected \in DOMAIN entries /\ HasTries(selected)
      /\ copying.old = d.path /\ copying.new = NextPath(d)
  BY DEF Base, MemInv, CopyInv
<1>2. d.left \in Nat \ {0} /\ d.path \in Names
      /\ entries[selected].sel \in DOMAIN entries[selected].deps
  BY <1>1, NextType DEF Base, IsDep
<1>3. b = d.path.base /\ copying.new.left = d.left - 1 /\ b \in Bases
  BY <1>1, <1>2 DEF NextPath, Names
<1>4. spent[b] \in Nat BY <1>3 DEF Base, MemInv
<1>5. Owes(b, IF boots = 0 THEN d.left ELSE d.left - 1)
  BY <1>1, <1>2, <1>3, NoneAssumption DEF SpentInv, MemPaid, Dep
<1> HIDE DEF d, b
<1>6. CASE boots = 0
  <2>1. Owes(b, d.left) BY <1>5, <1>6
  <2>2. d.left \in Int /\ d.left - 1 \in Int /\ d.left - 1 <= d.left /\ (d.left - 1) + 1 = d.left
    BY <1>2
  <2>3. Owes(b, d.left - 1) BY <1>3, <1>4, <2>1, <2>2, OwesLess
  <2> QED BY <1>3, <2>1, <2>2, <2>3 DEF b
<1>7. CASE boots # 0 BY <1>3, <1>5, <1>7 DEF b
<1> QED BY <1>6, <1>7

(* A file is written: nothing changes for other deployments, and this one    *)
(* has the old file and the new, or is known not to be renamed in full.      *)
LEMMA SpentStored ==
    ASSUME Base, SpentInv, pc \in Renaming, NEW v \in Dirs, NEW lines \in Seq(Lines),
           Stored(v, copying.new, lines), UNCHANGED spent, slipped \subseteq slipped',
           \/ copying.new.base \in slipped'
           \/ /\ pc' \in {"write", "delete"} /\ v = Volumes[copying'.at]
              /\ copying'.old = copying.old /\ copying'.new = copying.new
              /\ \A w \in Dirs : \A h \in Files(disk, w) :
                    h.base = copying.new.base =>
                       w = v /\ Path(h) \in {copying.old, copying.new},
           \A b \in Bases \ slipped' : b # copying.new.base => ~Copied(b)'
    PROVE  SingleInv' /\ PairInv' /\ PaidInv'
<1> DEFINE p == copying.new
           new == File(p, lines)
<1>1. p \in Names BY DEF Base, CopyInv
<1>2. new \in BlsFile /\ Path(new) = p /\ new.base = p.base /\ new.left = p.left
  BY <1>1, FileIs
<1> HIDE DEF new
<1>3. Files(disk', v) = {h \in Files(disk, v) : Path(h) # p} \cup {new}
      /\ \A w \in Dirs \ {v} : Files(disk', w) = Files(disk, w)
  BY DEF Stored, Elsewhere, new
<1>4. \A w \in Dirs : \A h \in Files(disk', w) :
        (h \in Files(disk, w)) \/ (w = v /\ h = new)
  BY <1>3
<1>5. \A w \in Dirs : \A h \in Files(disk', w) : h.base \in Bases
  <2>1. \A w \in Dirs : \A h \in Files(disk, w) : h \in BlsFile BY FileType DEF Base
  <2> QED BY <1>2, <1>4, <2>1 DEF BlsFile
<1>6. SingleInv'
  <2> SUFFICES ASSUME NEW x \in Dirs, NEW w \in Dirs, NEW g \in Files(disk', x),
                      NEW h \in Files(disk', w), g.base = h.base, g.base \notin slipped',
                      ~Copied(g.base)'
               PROVE  x = w /\ g = h
    BY DEF SingleInv
  <2>1. g.base # p.base BY DEF Copied
  <2>2. g \in Files(disk, x) /\ h \in Files(disk, w) BY <1>2, <1>4, <2>1
  <2>3. ~Copied(g.base) BY <2>1 DEF Copied
  <2> QED BY <2>2, <2>3 DEF SpentInv, SingleInv
<1>7. PairInv'
  <2> SUFFICES ASSUME NEW w \in Dirs, NEW h \in Files(disk', w), Copied(h.base)',
                      h.base \notin slipped'
               PROVE  w = Volumes[copying'.at] /\ Path(h) \in {copying'.old, copying'.new}
    BY DEF PairInv
  <2>1. h.base = p.base BY <1>5
  <2>2. CASE h \in Files(disk, w) BY <2>1, <2>2
  <2>3. CASE w = v /\ h = new BY <1>2, <2>1, <2>3
  <2> QED BY <1>4, <2>2, <2>3
<1>8. PaidInv'
  <2> SUFFICES ASSUME NEW w \in Dirs, NEW h \in Files(disk', w), h.left # None,
                      h.base \notin slipped'
               PROVE  Owes(h.base, h.left)
    BY DEF PaidInv, Owes
  <2>1. CASE h \in Files(disk, w) BY <2>1 DEF SpentInv, PaidInv
  <2>2. CASE h = new BY <1>2, <2>2, NextOwes
  <2> QED BY <1>4, <2>1, <2>2
<1> QED BY <1>6, <1>7, <1>8

(* Switching off keeps SpentInv.                                             *)
LEMMA SpentPowerOff == ASSUME Base, SpentInv, PowerOff PROVE SpentInv'
<1>1. pc' = "off" /\ entries' = <<>> /\ UNCHANGED spent
  BY DEF PowerOff
<1>2. slipped' = IF pc \in {"write", "delete"} THEN slipped \cup {copying.new.base}
                 ELSE slipped
  BY DEF PowerOff
<1>3. SingleInv' /\ PairInv' /\ PaidInv'
  <2>1. CASE pc = "write"
    <3> DEFINE v == Volumes[copying.at]
    <3>1. PICK k \in 0..Len(copying.lines) : Wrote(v, k)
      BY <2>1 DEF PowerOff
    <3>2. Stored(v, copying.new, SubSeq(copying.lines, 1, k))
      BY <2>1, <3>1, WriteIs DEF Base
    <3>3. v \in Dirs /\ copying.lines \in Seq(Lines) BY <2>1, CopyTypes DEF Base
    <3>4. SubSeq(copying.lines, 1, k) \in Seq(Lines) BY <3>3, SubSeqProperties
    <3> HIDE DEF v
    <3> QED BY <1>1, <1>2, <2>1, <3>2, <3>3, <3>4, SpentStored DEF Copied, Renaming
  <2>2. CASE pc # "write"
    <3>1. UNCHANGED disk BY <2>2 DEF PowerOff
    <3> QED BY <1>1, <1>2, <3>1, SameFiles DEF Base, SpentInv, Copied
  <2> QED BY <2>1, <2>2
<1>4. MemPaid' BY <1>1 DEF MemPaid
<1>5. BootPaid' BY <1>1 DEF BootPaid
<1> QED BY <1>3, <1>4, <1>5 DEF SpentInv

(* More slips only make the promise about the memory weaker.                 *)
LEMMA MemFrame2 ==
    ASSUME MemPaid, UNCHANGED <<entries, boots, spent>>, slipped \subseteq slipped'
    PROVE  MemPaid'
BY DEF MemPaid, Owes

(* Creating the copy keeps SpentInv.                                         *)
LEMMA SpentCreate == ASSUME Base, SpentInv, RenameCreate PROVE SpentInv'
<1> DEFINE v == Volumes[copying.at]
<1>1. pc = "rename" /\ UNCHANGED <<entries, boots, spent, slipped>>
  BY DEF RenameCreate, history
<1>2. copying \in [old : Names, new : Names, lines : Seq(Lines), at : Nat \ {0}]
      /\ copying.new = NextPath(Dep(selected)) /\ copying.old = Dep(selected).path
  BY <1>1 DEF Base, CopyInv, Renaming
<1>3. MemPaid' BY <1>1, MemFrame2 DEF SpentInv
<1>4. CASE UNCHANGED disk /\ pc' = "rename" /\ copying' = [copying EXCEPT !.at = @ + 1]
  <2>1. SingleInv' /\ PairInv' /\ PaidInv'
    BY <1>1, <1>4, SameFiles DEF Base, SpentInv, Copied
  <2>2. BootPaid' BY <1>4 DEF BootPaid
  <2> QED BY <1>3, <2>1, <2>2 DEF SpentInv
<1>5. CASE /\ pc' = "write"
           /\ Stored(v, copying.new, <<>>)
           /\ \E f \in Files(disk, v) :
                    /\ Path(f) = copying.old /\ f.lines \in Seq(Lines)
                    /\ copying' = [copying EXCEPT !.lines = f.lines]
  <2>1. PICK o \in Files(disk, v) :
               Path(o) = copying.old /\ copying' = [copying EXCEPT !.lines = o.lines]
    BY <1>5
  <2>2. copying'.old = copying.old /\ copying'.new = copying.new /\ copying'.at = copying.at
    BY <1>2, <2>1
  <2>3. v \in Dirs
    BY <1>1, <1>2, ConfsAssumption DEF RenameCreate, Dirs, Range
  <2>4. <<>> \in Seq(Lines) OBVIOUS
  <2>5. o.base = copying.new.base
    BY <1>2, <2>1, PathParts DEF NextPath
  <2> HIDE DEF v
  <2>6. copying.new.base \notin slipped =>
          \A w \in Dirs : \A h \in Files(disk, w) :
             h.base = copying.new.base => w = v /\ Path(h) \in {copying.old, copying.new}
    BY <1>1, <2>1, <2>3, <2>5 DEF SpentInv, SingleInv, Copied
  <2>7. \A b \in Bases : b # copying.new.base => ~Copied(b)' BY <2>2 DEF Copied
  <2>8. SingleInv' /\ PairInv' /\ PaidInv'
    <3>1. v = Volumes[copying'.at] BY <2>2 DEF v
    <3> QED BY <1>1, <1>5, <2>2, <2>3, <2>4, <2>6, <2>7, <3>1, SpentStored DEF Renaming
  <2>9. BootPaid' BY <1>5 DEF BootPaid
  <2> QED BY <1>3, <2>8, <2>9 DEF SpentInv
<1> QED BY <1>4, <1>5, CreateIs DEF Base

(* Writing the copy keeps SpentInv.                                          *)
LEMMA SpentWrite ==
    ASSUME Base, SpentInv, NEW k \in 0..Len(copying.lines), RenameWrite(k) PROVE SpentInv'
<1> DEFINE v == Volumes[copying.at]
           lines == SubSeq(copying.lines, 1, k)
<1>1. pc = "write" /\ UNCHANGED <<entries, boots, spent>> /\ Wrote(v, k)
      /\ \/ pc' = "delete" /\ UNCHANGED <<copying, slipped>>
         \/ pc' = "rename" /\ slipped' = slipped \cup {copying.new.base}
  BY DEF RenameWrite, Slip
<1>2. Stored(v, copying.new, lines) BY <1>1, WriteIs DEF Base
<1>3. v \in Dirs /\ copying.lines \in Seq(Lines) BY <1>1, CopyTypes DEF Base
<1>4. lines \in Seq(Lines) BY <1>3, SubSeqProperties
<1>5. copying.new.base \notin slipped =>
        \A w \in Dirs : \A h \in Files(disk, w) :
           h.base = copying.new.base => w = v /\ Path(h) \in {copying.old, copying.new}
  BY <1>1 DEF SpentInv, PairInv, Copied
<1>6. SingleInv' /\ PairInv' /\ PaidInv'
  <2>1. slipped \subseteq slipped' /\ (pc' = "delete" => v = Volumes[copying'.at]) BY <1>1
  <2>2. \A b \in Bases \ slipped' : b # copying.new.base => ~Copied(b)' BY <1>1 DEF Copied
  <2> HIDE DEF v, lines
  <2> QED BY <1>1, <1>2, <1>3, <1>4, <1>5, <2>1, <2>2, SpentStored DEF Renaming
<1>7. MemPaid'
  <2>1. slipped \subseteq slipped' BY <1>1
  <2> QED BY <1>1, <2>1, MemFrame2 DEF SpentInv
<1>8. BootPaid' BY <1>1 DEF BootPaid
<1> QED BY <1>6, <1>7, <1>8 DEF SpentInv

(* Deleting the old file keeps SpentInv.                                     *)
LEMMA SpentDelete == ASSUME Base, SpentInv, RenameDelete PROVE SpentInv'
<1> DEFINE v == Volumes[copying.at]
           s == selected
<1>1. pc = "delete" /\ UNCHANGED <<selected, boots, spent>>
  BY DEF RenameDelete
<1>2. copying \in [old : Names, new : Names, lines : Seq(Lines), at : Nat \ {0}]
      /\ copying.new = NextPath(Dep(s)) /\ copying.old = Dep(s).path /\ s \in DOMAIN entries
      /\ HasTries(s)
  BY <1>1 DEF Base, MemInv, CopyInv, Renaming
<1>3. copying.new.base = Dep(s).path.base BY <1>2 DEF NextPath
<1>4. CASE /\ pc' = "boot" /\ Cut(v, copying.old) /\ Remembered /\ slipped' = slipped
  <2>1. v \in Dirs BY <1>1, CopyTypes DEF Base
  <2> HIDE DEF v
  <2>2. Files(disk', v) = {h \in Files(disk, v) : Path(h) # copying.old}
        /\ \A w \in Dirs \ {v} : Files(disk', w) = Files(disk, w)
    BY <1>4 DEF Cut, Elsewhere
  <2>3. \A w \in Dirs : Files(disk', w) \subseteq Files(disk, w) BY <2>1, <2>2
  <2>4. ASSUME NEW w \in Dirs, NEW h \in Files(disk', w), h.base = copying.new.base,
               h.base \notin slipped
        PROVE  w = v /\ Path(h) = copying.new
    <3>1. h \in Files(disk, w) BY <2>3, <2>4
    <3>2. w = v /\ Path(h) \in {copying.old, copying.new}
      BY <1>1, <2>4, <3>1 DEF SpentInv, PairInv, Copied, v
    <3> QED BY <2>2, <2>4, <3>2
  <2>5. \A b : ~Copied(b)' BY <1>4 DEF Copied
  <2>6. SingleInv'
    <3> SUFFICES ASSUME NEW x \in Dirs, NEW w \in Dirs, NEW g \in Files(disk', x),
                        NEW h \in Files(disk', w), g.base = h.base, g.base \notin slipped
                 PROVE  x = w /\ g = h
      BY <1>4 DEF SingleInv
    <3>1. g \in Files(disk, x) /\ h \in Files(disk, w) BY <2>3
    <3>2. CASE g.base = copying.new.base
      <4>1. x = v /\ w = v /\ Path(g) = Path(h) BY <2>4, <3>2
      <4> QED BY <3>1, <4>1, FileType DEF Base
    <3>3. CASE g.base # copying.new.base
      BY <3>1, <3>3 DEF SpentInv, SingleInv, Copied
    <3> QED BY <3>2, <3>3
  <2>7. PairInv' BY <2>5 DEF PairInv
  <2>8. PaidInv' BY <1>1, <1>4, <2>3 DEF SpentInv, PaidInv, Owes
  <2>9. MemPaid'
    <3> SUFFICES ASSUME NEW n \in DOMAIN entries, NEW k \in DOMAIN entries'[n].deps,
                        NEW d, d = entries'[n].deps[k], d.left # None,
                        d.path.base \notin slipped
                 PROVE  Owes(d.path.base, IF boots = 0 THEN d.left ELSE d.left - 1)
      BY <1>1, <1>4 DEF MemPaid, Owes, Remembered
    <3>1. k \in DOMAIN entries[n].deps
      BY <1>4 DEF Remembered
    <3>2. d.left = entries[n].deps[k].left
      BY <1>4, <3>1 DEF Remembered
    <3>3. d.path.base = entries[n].deps[k].path.base
      <4>1. CASE n = s /\ k = entries[s].sel
        <5>1. d = Dep(selected)' BY <1>1, <1>4, <4>1 DEF Remembered, Dep
        <5>2. d.path = copying.new BY <1>4, <5>1 DEF Remembered
        <5> QED BY <1>3, <4>1, <5>2 DEF Dep
      <4>2. CASE ~ (n = s /\ k = entries[s].sel)
        BY <1>4, <3>1, <4>2 DEF Remembered
      <4> QED BY <4>1, <4>2
    <3> QED BY <3>1, <3>2, <3>3 DEF SpentInv, MemPaid
  <2>10. BootPaid'
    <3> SUFFICES ASSUME boots = 0, NEW w \in Dirs, NEW f \in Files(disk', w), f.left # None,
                        f.base = Dep(selected)'.path.base, f.base \notin slipped
                 PROVE  Owes(f.base, f.left + 1)
      BY <1>1, <1>4 DEF BootPaid, Owes
    <3>1. Dep(selected)'.path = copying.new BY <1>4 DEF Remembered
    <3>2. Path(f) = copying.new BY <2>4, <3>1
    <3>3. f.left = copying.new.left /\ f.base = copying.new.base BY <3>2, PathParts
    <3> QED BY <1>1, <3>3, NextOwes DEF Renaming
  <2> QED BY <2>6, <2>7, <2>8, <2>9, <2>10 DEF SpentInv
<1>5. CASE pc' = "rename" /\ UNCHANGED <<disk, entries>>
           /\ slipped' = slipped \cup {copying.new.base}
  <2>1. SingleInv' /\ PairInv' /\ PaidInv'
    BY <1>1, <1>5, SameFiles DEF Base, SpentInv, Copied
  <2>2. MemPaid'
    <3>1. slipped \subseteq slipped' BY <1>5
    <3> QED BY <1>1, <1>5, <3>1, MemFrame2 DEF SpentInv
  <2>3. BootPaid' BY <1>5 DEF BootPaid
  <2> QED BY <2>1, <2>2, <2>3 DEF SpentInv
<1> QED BY <1>4, <1>5, DeleteIs DEF Base

(* Giving the rename up keeps SpentInv.                                      *)
LEMMA SpentFails == ASSUME Base, SpentInv, RenameFails PROVE SpentInv'
<1>1. pc = "rename" /\ pc' = "boot" /\ UNCHANGED <<disk, entries, selected, boots, spent>>
      /\ slipped' = slipped \cup {copying.new.base}
  BY DEF RenameFails, durable, Slip
<1>2. SingleInv' /\ PairInv' /\ PaidInv'
  BY <1>1, SameFiles DEF Base, SpentInv, Copied
<1>3. MemPaid'
  <2>1. slipped \subseteq slipped' BY <1>1
  <2> QED BY <1>1, <2>1, MemFrame2 DEF SpentInv
<1>4. BootPaid'
  <2>1. copying.new = NextPath(Dep(selected)) BY <1>1 DEF Base, CopyInv, Renaming
  <2>2. Dep(selected)'.path.base \in slipped'
    BY <1>1, <2>1 DEF NextPath, Dep
  <2> QED BY <2>2 DEF BootPaid
<1> QED BY <1>2, <1>3, <1>4 DEF SpentInv

(* A hand-over keeps SpentInv.                                               *)
LEMMA SpentHandOver == ASSUME Base, boots \in Nat, SpentInv, HandOver PROVE SpentInv'
<1> DEFINE b0 == Dep(selected).path.base
           paid == HasTries(selected) /\ boots = 0
<1>1. pc = "boot" /\ pc' \in {"system", "select"} /\ boots' = boots + 1
      /\ UNCHANGED <<disk, entries, selected, slipped>>
  BY DEF HandOver, durable
<1>2. spent' = IF paid THEN [spent EXCEPT ![b0] = @ + 1] ELSE spent
  BY DEF HandOver
<1>3. spent \in [Bases -> Nat] BY DEF Base, MemInv
<1> HIDE DEF b0
<1>4. \A b \in Bases : spent'[b] = IF paid /\ b = b0 THEN spent[b] + 1 ELSE spent[b]
  <2> HIDE DEF paid
  <2> QED BY <1>2, <1>3
<1>5. \A v \in Dirs : \A f \in Files(disk, v) :
        f.base \in Bases /\ (f.left # None => f.left \in Nat)
  <2>1. \A v \in Dirs : \A f \in Files(disk, v) : f \in BlsFile BY FileType DEF Base
  <2> QED BY <2>1 DEF BlsFile, Counter
<1>6. SingleInv' BY <1>1 DEF SpentInv, SingleInv, Copied
<1>7. PairInv' BY <1>1 DEF PairInv, Copied
<1>8. PaidInv'
  <2> SUFFICES ASSUME NEW v \in Dirs, NEW f \in Files(disk, v), f.left # None,
                      f.base \notin slipped, NEW all \in Initial(f.base)
               PROVE  f.left + spent'[f.base] <= all
    BY <1>1 DEF PaidInv, Owes
  <2>1. all \in Nat /\ f.base \in Bases /\ f.left \in Nat /\ spent[f.base] \in Nat
    BY <1>3, <1>5, InitialType
  <2>2. CASE paid /\ f.base = b0
    <3>1. Owes(f.base, f.left + 1)
      BY <1>1, <2>2 DEF SpentInv, BootPaid, b0
    <3>2. (f.left + 1) + spent[f.base] <= all BY <3>1 DEF Owes
    <3>3. spent'[f.base] = spent[f.base] + 1 BY <1>4, <2>1, <2>2
    <3> QED BY <2>1, <3>2, <3>3
  <2>3. CASE ~ (paid /\ f.base = b0)
    <3>1. Owes(f.base, f.left) BY DEF SpentInv, PaidInv
    <3>2. spent'[f.base] = spent[f.base] BY <1>4, <2>1, <2>3
    <3> QED BY <3>1, <3>2 DEF Owes
  <2> QED BY <2>2, <2>3
<1>9. MemPaid'
  <2> SUFFICES ASSUME NEW n \in DOMAIN entries, NEW k \in DOMAIN entries[n].deps,
                      NEW d, d = entries[n].deps[k], d.left # None,
                      d.path.base \notin slipped, NEW all \in Initial(d.path.base)
               PROVE  (d.left - 1) + spent'[d.path.base] <= all
    BY <1>1 DEF MemPaid, Owes
  <2>1. IsDep(d) BY DEF Base, MemInv, IsEntry
  <2>2. all \in Nat /\ d.path.base \in Bases /\ d.left \in Nat /\ spent[d.path.base] \in Nat
    BY <1>3, <2>1, InitialType DEF IsDep, Names, Counter
  <2>3. (IF boots = 0 THEN d.left ELSE d.left - 1) + spent[d.path.base] <= all
    BY DEF SpentInv, MemPaid, Owes
  <2>4. spent'[d.path.base]
          = IF paid /\ d.path.base = b0 THEN spent[d.path.base] + 1 ELSE spent[d.path.base]
    BY <1>4, <2>2
  <2> QED BY <2>2, <2>3, <2>4
<1>10. BootPaid' BY <1>1 DEF BootPaid
<1> QED BY <1>6, <1>7, <1>8, <1>9, <1>10 DEF SpentInv

(* Every step keeps SpentInv.                                                *)
LEMMA StepSpent == ASSUME Base, boots \in Nat, SpentInv, [Next]_vars PROVE SpentInv'
<1>1. CASE QuietStep BY <1>1, QuietIs, SpentQuiet DEF Base
<1>2. CASE TakeStep BY <1>2, TakeIs, SpentTaken DEF Base
<1>3. ASSUME NEW k \in 0..(IF copying = None THEN 0 ELSE Len(copying.lines)), RenameWrite(k)
      PROVE  SpentInv'
  <2>1. copying.lines \in Seq(Lines) BY <1>3, CopyTypes DEF RenameWrite, Base
  <2>2. k \in 0..Len(copying.lines) BY <1>3, <2>1
  <2> QED BY <1>3, <2>2, SpentWrite
<1> QED
  BY <1>1, <1>2, <1>3, SpentPowerOn, SpentPowerOff, SpentCount, SpentCreate, SpentDelete,
     SpentFails, SpentHandOver DEF Next, QuietStep, TakeStep

(* The initial directories satisfy SpentInv.                                 *)
LEMMA InitSpent == ASSUME OneFilePerBase, Init PROVE SpentInv
<1>1. \A v \in Dirs : Files(disk, v) = Range(Confs[v]) BY DEF Init, Files
<1>2. SingleInv BY <1>1 DEF SingleInv, OneFilePerBase
<1>3. PairInv BY DEF Init, PairInv, Copied
<1>4. PaidInv
  <2> SUFFICES ASSUME NEW v \in Dirs, NEW f \in Range(Confs[v]), f.left # None,
                      NEW all \in Initial(f.base)
               PROVE  f.left + spent[f.base] <= all
    BY <1>1 DEF PaidInv, Owes
  <2>1. f \in BlsFile BY ConfType
  <2>2. f.left \in Nat /\ spent[f.base] = 0
    BY <2>1 DEF BlsFile, Counter, Init
  <2>3. PICK g \in UNION {Range(Confs[w]) : w \in DOMAIN Confs} :
                g.base = f.base /\ all = g.left
    BY DEF Initial
  <2>4. PICK w \in DOMAIN Confs : g \in Range(Confs[w]) BY <2>3
  <2>5. w \in Dirs BY ConfsAssumption DEF Dirs
  <2>6. g = f BY <2>3, <2>4, <2>5 DEF OneFilePerBase
  <2> QED BY <2>2, <2>3, <2>6
<1>5. MemPaid BY DEF Init, MemPaid
<1>6. BootPaid BY DEF Init, BootPaid
<1> QED BY <1>2, <1>3, <1>4, <1>5, <1>6 DEF SpentInv

(* A start that first hands over to a deployment with tries left has paid    *)
(* for it on disk, unless its rename did not complete.                       *)
THEOREM SpecTriesPaid == ASSUME OneFilePerBase PROVE Spec => []TriesPaid
<1>1. Init => SpentInv BY InitSpent
<1>2. IInv /\ Base /\ SpentInv /\ [Next]_vars => SpentInv'
  BY StepSpent DEF IInv, Typing
<1>3. Base /\ SpentInv => TriesPaid
  <2> SUFFICES ASSUME Base, SpentInv, NEW b \in Bases \ slipped, NEW left \in Tries(b),
                      NEW all \in Initial(b)
               PROVE  left + spent[b] <= all
    BY DEF TriesPaid
  <2>1. PICK f \in UNION {Range(disk[v]) : v \in DOMAIN disk} :
               f.base = b /\ left = f.left /\ left # None
    BY DEF Tries
  <2>2. PICK v \in DOMAIN disk : f \in Range(disk[v]) BY <2>1
  <2>3. v \in Dirs /\ f \in Files(disk, v) BY <2>2 DEF Base, DirInv, Files
  <2> QED BY <2>1, <2>3 DEF SpentInv, PaidInv, Owes
<1> QED BY <1>1, <1>2, <1>3, Invariant, SpecBase, PTL DEF Spec
=============================================================================
