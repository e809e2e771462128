---------------------------- MODULE MenuProofs ----------------------------
(* For every boot.conf, list of entries and number of hot-plug changes: the  *)
(* entry that boots is the one the user went to, a snapshot boots alone, and *)
(* the screen shows what Enter would do.                                     *)
EXTENDS Menu, SequenceTheorems, TLAPS

-----------------------------------------------------------------------------
(* The types of the two menus' state.  The pending overrides and the cards   *)
(* need none: the proofs only compare them.                                  *)
ActionType == {"boot", "shutdown", "reboot", "firmware", "retry", "menu", "rescue", "none"}
LoopType == [pc : {"top", "pointer", "key", "late", "text", "textkey", "done"},
             running : BOOLEAN, dirty : BOOLEAN, action : ActionType]
Panels == {"none", "deploys", "snaps"}
UiType == [sel : Nat, focus : {"entries", "power"}, power : 0..2, panel : Panels,
           fade : {"no", "in", "out"}, next : Panels, editing : BOOLEAN, browse : BOOLEAN,
           cursor : Nat, rows : Nat \ {0}]
PageType == [moving : BOOLEAN, prev : Nat \cup {None}, hits : SUBSET Nat]
CapType == [mode : {"off", "count", "recording", "saving"}, toast : BOOLEAN]
ClockType == [counting : BOOLEAN, left : Nat, idle : Nat, saver : {"awake", "dim", "blank"}]
Typing ==
    /\ setup \in Setups
    /\ loop \in LoopType /\ ui \in UiType /\ page \in PageType
    /\ cap \in CapType /\ clock \in ClockType
    /\ DOMAIN pending = Fields
    /\ list \in Seq(Entries)

(* Each menu has its own part of the loop, and both are left for good.       *)
PcInv ==
    /\ loop.pc \in IF setup.text THEN {"text", "textkey", "done"}
                   ELSE {"top", "pointer", "key", "late", "done"}
    /\ loop.pc = "textkey" => loop.running
    /\ loop.pc = "done" => ~loop.running

(* No entry is listed twice, so that one that leaves is missed.              *)
ListInv == \A i, j \in DOMAIN list : list[i] = list[j] => i = j

(* A picture that is out of date is known to be.                             *)
ScreenInv == loop.running /\ ~loop.dirty => seen = Screen

(* A snapshot's overrides are taken with the key that ends the menu.         *)
Brought(f) == pending[f] # None /\ pending[f].kind = "snap"
SnapInv ==
    (\E f \in Fields : Brought(f)) =>
        /\ ~loop.running /\ loop.pc \in {"top", "done"}
        /\ \A f \in Fields : pending[f] = None \/ (Brought(f) /\ pending[f].of = Chosen)

(* The graphical menu: the selection is where the user went, until an entry  *)
(* leaves the list.                                                          *)
MeantInv ==
    ~setup.text /\ "shrank" \notin changes /\ meant # None => meant = Chosen

(* The text menu: the user goes about with the cursor, and the selection     *)
(* follows when the menu ends; a countdown only ends where no key was hit.   *)
TextInv ==
    setup.text /\ changes = {} =>
        /\ ui.rows = Len(list) + 3 /\ ui.cursor < ui.rows
        /\ meant # None =>
             /\ loop.running => meant = At(list, ui.cursor)
             /\ clock.counting \/ (~loop.running /\ loop.action = "boot") => meant = Chosen

IInv == /\ Typing /\ PcInv /\ ListInv /\ ScreenInv /\ SnapInv /\ MeantInv /\ TextInv

-----------------------------------------------------------------------------
(* What hot-plug can make of the list.  A list without one of its entries:   *)
LEMMA Removal ==
    ASSUME NEW l \in Seq(Entries), \A i, j \in DOMAIN l : l[i] = l[j] => i = j,
           NEW n \in DOMAIN l
    PROVE  /\ RemoveAt(l, n) \in Seq(Entries)
           /\ \A i, j \in DOMAIN RemoveAt(l, n) :
                 RemoveAt(l, n)[i] = RemoveAt(l, n)[j] => i = j
           /\ Range(RemoveAt(l, n)) \subseteq Range(l)
           /\ l[n] \notin Range(RemoveAt(l, n))
<1> DEFINE front == SubSeq(l, 1, n - 1)
           back == SubSeq(l, n + 1, Len(l))
           rest == front \o back
<1>1. /\ front \in Seq(Entries) /\ Len(front) = n - 1
      /\ \A i \in 1 .. n - 1 : front[i] = l[i]
  <2>1. \A i \in 1 .. n - 1 : l[i] \in Entries OBVIOUS
  <2> QED BY <2>1, SubSeqProperties
<1>2. /\ back \in Seq(Entries) /\ Len(back) = Len(l) - n
      /\ \A i \in 1 .. Len(l) - n : back[i] = l[n + i]
  <2>1. \A i \in n + 1 .. Len(l) : l[i] \in Entries OBVIOUS
  <2>2. /\ back \in Seq(Entries) /\ Len(back) = IF n + 1 <= Len(l) THEN Len(l) - n ELSE 0
        /\ \A i \in 1 .. Len(l) - (n + 1) + 1 : back[i] = l[n + 1 + i - 1]
    BY <2>1, SubSeqProperties
  <2> QED BY <2>2
<1> HIDE DEF front, back
<1>3. /\ rest \in Seq(Entries) /\ Len(rest) = Len(l) - 1
      /\ \A i \in 1 .. Len(l) - 1 : rest[i] = IF i < n THEN l[i] ELSE l[i + 1]
  BY <1>1, <1>2, ConcatProperties
<1>4. RemoveAt(l, n) = rest BY DEF RemoveAt, front, back
<1> HIDE DEF rest
<1>5. ASSUME NEW i \in 1 .. Len(l) - 1, NEW j \in 1 .. Len(l) - 1, rest[i] = rest[j]
      PROVE  i = j
  <2> DEFINE was(k) == IF k < n THEN k ELSE k + 1
  <2>1. was(i) \in DOMAIN l /\ was(j) \in DOMAIN l OBVIOUS
  <2>2. l[was(i)] = l[was(j)] BY <1>3, <1>5
  <2>3. was(i) = was(j) BY <2>1, <2>2
  <2> QED BY <2>3
<1>6. Range(rest) \subseteq Range(l) BY <1>3 DEF Range
<1>7. l[n] \notin Range(rest) BY <1>3 DEF Range
<1>8. DOMAIN rest = 1 .. Len(l) - 1 BY <1>3
<1> QED BY <1>3, <1>4, <1>5, <1>6, <1>7, <1>8

(* ... and one with an entry that was not there before.                      *)
LEMMA Addition ==
    ASSUME NEW l \in Seq(Entries), \A i, j \in DOMAIN l : l[i] = l[j] => i = j,
           NEW e \in Entries, e \notin Range(l)
    PROVE  /\ l \o <<e>> \in Seq(Entries) /\ Len(l \o <<e>>) = Len(l) + 1
           /\ \A i \in DOMAIN l : (l \o <<e>>)[i] = l[i]
           /\ \A i, j \in DOMAIN (l \o <<e>>) : (l \o <<e>>)[i] = (l \o <<e>>)[j] => i = j
           /\ Range(l \o <<e>>) = Range(l) \cup {e}
<1> DEFINE longer == l \o <<e>>
<1>1. <<e>> \in Seq(Entries) /\ Len(<<e>>) = 1 /\ <<e>>[1] = e OBVIOUS
<1>2. /\ longer \in Seq(Entries) /\ Len(longer) = Len(l) + 1
      /\ \A i \in 1 .. Len(l) + 1 : longer[i] = IF i <= Len(l) THEN l[i] ELSE e
  BY <1>1, ConcatProperties
<1> HIDE DEF longer
<1>3. \A i, j \in DOMAIN longer : longer[i] = longer[j] => i = j
  BY <1>2 DEF Range
<1>4. Range(longer) = Range(l) \cup {e} BY <1>2 DEF Range
<1> QED BY <1>2, <1>3, <1>4 DEF longer

LEMMA ListKept == list \in Lists
BY DEF Lists

(* A poll leaves the list as it is, appends an entry, or takes one out; only *)
(* the last is a loss, and no change goes unnoticed.                         *)
LEMMA Polled ==
    ASSUME Typing, ListInv, NEW l \in Lists
    PROVE  /\ l \in Seq(Entries)
           /\ \A i, j \in DOMAIN l : l[i] = l[j] => i = j
           /\ ~Lost(l) => \/ l = list
                          \/ /\ Grew(l) /\ Len(l) = Len(list) + 1
                             /\ \A i \in DOMAIN list : l[i] = list[i]
           /\ l # list => Lost(l) \/ Grew(l)
<1>1. CASE l = list BY <1>1 DEF Typing, ListInv
<1>2. ASSUME l # list
      PROVE  \E k, n : /\ l = k \o n
                       /\ k = list \/ \E i \in DOMAIN list : k = RemoveAt(list, i) /\ list[i] \in Removable
                       /\ n = <<>> \/ \E e \in Removable \ Range(list) : n = <<e>>
  BY <1>2 DEF Lists
<1>3. ASSUME l # list PROVE Removable \subseteq Entries BY MenuAssumption
<1>4. ASSUME l # list,
             NEW k, NEW n, l = k \o n,
             k = list \/ \E i \in DOMAIN list : k = RemoveAt(list, i) /\ list[i] \in Removable,
             n = <<>> \/ \E e \in Removable \ Range(list) : n = <<e>>
      PROVE  /\ l \in Seq(Entries)
             /\ \A i, j \in DOMAIN l : l[i] = l[j] => i = j
             /\ ~Lost(l) => \/ l = list
                            \/ /\ Grew(l) /\ Len(l) = Len(list) + 1
                               /\ \A i \in DOMAIN list : l[i] = list[i]
             /\ l # list => Lost(l) \/ Grew(l)
  <2>1. /\ k \in Seq(Entries) /\ (\A i, j \in DOMAIN k : k[i] = k[j] => i = j)
        /\ Range(k) \subseteq Range(list)
        /\ k = list \/ \E i \in DOMAIN list :
                          list[i] \in Removable /\ list[i] \notin Range(k)
    BY <1>4, Removal DEF Typing, ListInv
  <2>2. CASE n = <<>>
    <3>1. l = k BY <1>4, <2>1, <2>2, ConcatEmptySeq
    <3>2. PICK i \in DOMAIN list : list[i] \notin Range(k) BY <1>4, <2>1, <3>1
    <3>3. Lost(l) BY <3>1, <3>2 DEF Lost, Range
    <3> QED BY <2>1, <3>1, <3>3
  <2>3. CASE \E e \in Removable \ Range(list) : n = <<e>>
    <3>1. PICK e \in Removable \ Range(list) : n = <<e>> BY <2>3
    <3>2. e \in Entries /\ e \notin Range(k) BY <1>3, <1>4, <2>1
    <3>3. /\ l \in Seq(Entries) /\ Len(l) = Len(k) + 1 /\ (\A i \in DOMAIN k : l[i] = k[i])
          /\ (\A i, j \in DOMAIN l : l[i] = l[j] => i = j) /\ Range(l) = Range(k) \cup {e}
      BY <1>4, <2>1, <3>1, <3>2, Addition
    <3>4. CASE k = list
      <4>1. Grew(l) BY <3>3, <3>4 DEF Grew, Typing
      <4> QED BY <3>3, <3>4, <4>1
    <3>5. CASE k # list
      <4>1. PICK i \in DOMAIN list : list[i] \notin Range(k) BY <2>1, <3>5
      <4>2. list[i] # e BY <3>1 DEF Range
      <4>3. Lost(l) BY <3>3, <4>1, <4>2 DEF Lost, Range
      <4> QED BY <3>3, <4>3
    <3> QED BY <3>4, <3>5
  <2> QED BY <1>4, <2>2, <2>3
<1> QED BY <1>1, <1>2, <1>4

-----------------------------------------------------------------------------
(* What the menus' operators return.                                         *)
LEMMA PowerActionType ==
    ASSUME NEW i \in Nat
    PROVE  PowerAction(i) \in ActionType /\ PowerAction(i) # "boot"
<1>1. CASE i < 6
  <2>1. i \in {0, 1, 2, 3, 4, 5} BY <1>1
  <2> QED BY <2>1 DEF PowerAction, Actions, ActionType
<1>2. CASE ~(i < 6) BY <1>2 DEF PowerAction, Actions, ActionType
<1> QED BY <1>1, <1>2

LEMMA DrawnType ==
    ASSUME Typing, NEW finished \in BOOLEAN
    PROVE  Drawn(finished) \in PageType
<1>1. setup.perPage \in Nat \ {0} /\ ui.sel \in Nat BY MenuAssumption DEF Typing, UiType
<1>2. ui.sel \div setup.perPage \in Nat BY <1>1
<1> DEFINE p == ui.sel \div setup.perPage
<1>3. p * setup.perPage \in Nat /\ (p + 1) * setup.perPage \in Nat BY <1>1, <1>2
<1> HIDE DEF p
<1>4. p \in Nat BY <1>2 DEF p
<1>5. Hits(p) \in SUBSET Nat BY <1>3 DEF Hits
<1>6. CASE list = <<>> BY <1>6 DEF Drawn, Typing
<1>7. CASE list # <<>> /\ setup.anim /\ page.prev # None /\ p # page.prev /\ ~page.moving
  <2>1. Drawn(finished) = [page EXCEPT !.moving = TRUE] BY <1>7 DEF Drawn, p
  <2> QED BY <2>1 DEF Typing, PageType
<1>8. CASE list # <<>> /\ page.moving
  <2>1. Drawn(finished) = [page EXCEPT !.moving = ~finished, !.prev = IF finished THEN p ELSE @]
    BY <1>8 DEF Drawn, p
  <2> QED BY <2>1, <1>4 DEF Typing, PageType
<1>9. CASE /\ list # <<>> /\ ~page.moving
           /\ ~(setup.anim /\ page.prev # None /\ p # page.prev /\ ~page.moving)
  <2>1. Drawn(finished) = [moving |-> FALSE, prev |-> p, hits |-> Hits(p)]
    BY <1>9 DEF Drawn, p
  <2> QED BY <2>1, <1>4, <1>5 DEF PageType
<1> QED BY <1>6, <1>7, <1>8, <1>9

LEMMA NextPanelType == ASSUME NEW e PROVE NextPanel(e) \in Panels
BY DEF NextPanel, Panels

LEMMA EngageType ==
    ASSUME Typing, NEW what \in Panels, Engage(what)
    PROVE  ui' \in UiType /\ ui'.sel = ui.sel /\ ui'.cursor = ui.cursor /\ ui'.rows = ui.rows
BY DEF Typing, Engage, UiType, Panels

LEMMA SelectType ==
    ASSUME Typing, NEW i \in Nat
    PROVE  /\ Select(i) \in UiType /\ Select(i).sel = i
           /\ Select(i).cursor = ui.cursor /\ Select(i).rows = ui.rows
BY DEF Typing, Select, UiType

LEMMA PowerAtType ==
    ASSUME Typing, NEW p \in 0..2
    PROVE  /\ PowerAt(p) \in UiType /\ PowerAt(p).sel = ui.sel
           /\ PowerAt(p).cursor = ui.cursor /\ PowerAt(p).rows = ui.rows
BY DEF Typing, PowerAt, UiType

LEMMA FadedType ==
    ASSUME Typing, NEW ends \in BOOLEAN
    PROVE  /\ Faded(ends) \in UiType /\ Faded(ends).sel = ui.sel
           /\ Faded(ends).cursor = ui.cursor /\ Faded(ends).rows = ui.rows
           /\ ui.fade = "no" => Faded(ends) = ui
BY DEF Typing, Faded, UiType, Panels

LEMMA SelInType == ASSUME Typing, NEW l \in Seq(Entries) PROVE SelIn(l) \in Nat
BY DEF Typing, SelIn, UiType

LEMMA PlacesType ==
    ASSUME Typing, NEW at \in Places
    PROVE  /\ at.what = "entry" => at.n \in Nat
           /\ at.what \notin {"entry", "nothing"} => at.n \in 0..2
BY DEF Typing, Places, PageType

LEMMA CapTickType == ASSUME Typing PROVE CapTick \subseteq CapType
BY DEF Typing, CapTick, CapType

(* The ways a step moves the loop on, and what every key does to the clock.  *)
Pcs == {"top", "pointer", "key", "late", "text", "textkey", "done"}
LEMMA GotoType ==
    ASSUME Typing, NEW l \in Pcs, Goto(l)
    PROVE  /\ loop' \in LoopType /\ loop'.pc = l /\ loop'.running = loop.running
           /\ loop'.dirty = loop.dirty /\ loop'.action = loop.action
BY DEF Typing, LoopType, Goto, Pcs

LEMMA RedrawType ==
    ASSUME Typing, NEW l \in Pcs, Redraw(l)
    PROVE  /\ loop' \in LoopType /\ loop'.pc = l /\ loop'.running = loop.running
           /\ loop'.dirty = TRUE /\ loop'.action = loop.action
BY DEF Typing, LoopType, Redraw, Pcs

LEMMA EndType ==
    ASSUME Typing, NEW l \in Pcs, NEW a \in ActionType, End(l, a)
    PROVE  /\ loop' \in LoopType /\ loop'.pc = l /\ loop'.running = FALSE
           /\ loop'.dirty = loop.dirty /\ loop'.action = a
BY DEF Typing, LoopType, End, Pcs

LEMMA PressedType ==
    ASSUME Typing, Pressed
    PROVE  /\ clock' \in ClockType /\ clock'.counting = FALSE
           /\ UNCHANGED <<setup, list, page, btn, plugs, seen, changes>> /\ loop.pc = "key"
BY DEF Typing, ClockType, Pressed

LEMMA ActionKept == ASSUME Typing PROVE loop.action \in ActionType
BY DEF Typing, LoopType

(* The initial states have every part of the invariant.                      *)
LEMMA InitInv == Init => IInv
<1> SUFFICES ASSUME Init PROVE IInv OBVIOUS
<1> USE DEF Init
<1>1. /\ setup.text \in BOOLEAN /\ setup.default \in Nat /\ setup.start \in Seq(Entries)
      /\ \A i, j \in DOMAIN setup.start : setup.start[i] = setup.start[j] => i = j
  BY MenuAssumption
<1>2. ui \in UiType BY <1>1 DEF UiType, Panels
<1>3. loop \in LoopType BY DEF LoopType, ActionType
<1>4. page \in PageType /\ cap \in CapType /\ clock \in ClockType
  BY DEF PageType, CapType, ClockType, Counts
<1>5. DOMAIN pending = Fields /\ \A f \in Fields : pending[f] = None BY DEF NoEdits
<1>6. Typing BY <1>1, <1>2, <1>3, <1>4, <1>5 DEF Typing
<1>7. PcInv /\ ListInv /\ ScreenInv BY <1>1 DEF PcInv, ListInv, ScreenInv
<1>8. SnapInv BY <1>5 DEF SnapInv, Brought
<1>9. MeantInv BY DEF MeantInv, Chosen
<1>10. TextInv
  <2>1. ui.rows = Len(list) + 3 /\ ui.cursor = ui.sel /\ ui.cursor < ui.rows BY <1>1
  <2> QED BY <2>1 DEF TextInv, Chosen
<1> QED BY <1>6, <1>7, <1>8, <1>9, <1>10 DEF IInv

(* A key of the text menu ends it - with the action of a letter or of the row*)
(* under the cursor, or with an entry -, moves the cursor, or does nothing.  *)
LEMMA TextKeys ==
    ASSUME Typing, TextKey
    PROVE  /\ loop' \in LoopType /\ loop'.pc = "text" /\ ui' \in UiType
           /\ ui'.rows = ui.rows
           /\ \/ /\ ui' = ui /\ meant' = meant
                 /\ loop'.running = FALSE /\ loop'.action # "boot"
              \/ /\ ui.cursor < Len(list) /\ ui'.sel = ui.cursor /\ ui'.cursor = ui.cursor
                 /\ meant' = meant /\ loop'.running = FALSE
              \/ /\ \E i \in DOMAIN list : ui'.sel = i - 1 /\ meant' = list[i]
                 /\ ui'.cursor = ui.cursor /\ loop'.running = FALSE
              \/ /\ ui.cursor < ui.rows => ui'.cursor < ui.rows
                 /\ meant' = At(list, ui'.cursor)
                 /\ loop'.running = loop.running /\ loop'.dirty
              \/ /\ ui' = ui /\ meant' = meant /\ loop'.running = loop.running
                 /\ loop'.dirty = (loop.dirty \/ clock.counting)
<1>1. CASE \E a \in Powers \cup {"rescue"} : End("text", a) /\ UNCHANGED <<ui, meant>>
  <2>1. PICK a \in Powers \cup {"rescue"} : End("text", a) /\ UNCHANGED <<ui, meant>> BY <1>1
  <2>2. a \in ActionType /\ a # "boot" BY DEF Powers, ActionType
  <2> QED BY <2>1, <2>2, EndType DEF Typing, Pcs
<1>2. CASE /\ ui.cursor >= Len(list)
           /\ End("text", PowerAction(ui.cursor - Len(list))) /\ UNCHANGED <<ui, meant>>
  <2>1. ui.cursor - Len(list) \in Nat BY <1>2 DEF Typing, UiType
  <2> QED BY <1>2, <2>1, PowerActionType, EndType DEF Typing, Pcs
<1>3. CASE /\ ~(ui.cursor >= Len(list)) /\ End("text", loop.action)
           /\ ui' = Select(ui.cursor) /\ UNCHANGED meant
  <2>1. ui.cursor < Len(list) /\ ui.cursor \in Nat BY <1>3 DEF Typing, UiType
  <2> QED BY <1>3, <2>1, SelectType, EndType, ActionKept DEF Pcs
<1>4. CASE \E i \in DOMAIN list : /\ i <= 9 /\ ui' = Select(i - 1) /\ meant' = list[i]
                                  /\ End("text", loop.action)
  <2>1. PICK i \in DOMAIN list : /\ i <= 9 /\ ui' = Select(i - 1) /\ meant' = list[i]
                                /\ End("text", loop.action)
    BY <1>4
  <2>2. i - 1 \in Nat BY DEF Typing
  <2> QED BY <2>1, <2>2, SelectType, EndType, ActionKept DEF Pcs
<1>5. CASE \E up \in BOOLEAN :
             LET to == IF up THEN IF ui.cursor > 0 THEN ui.cursor - 1 ELSE ui.rows - 1
                       ELSE IF ui.cursor + 1 < ui.rows THEN ui.cursor + 1 ELSE 0
             IN  ui' = [ui EXCEPT !.cursor = to] /\ meant' = At(list, to) /\ Redraw("text")
  <2>1. PICK to : /\ \E up \in BOOLEAN :
                       to = IF up THEN IF ui.cursor > 0 THEN ui.cursor - 1 ELSE ui.rows - 1
                            ELSE IF ui.cursor + 1 < ui.rows THEN ui.cursor + 1 ELSE 0
                  /\ ui' = [ui EXCEPT !.cursor = to] /\ meant' = At(list, to)
                  /\ Redraw("text")
    BY <1>5
  <2>2. to \in Nat /\ (ui.cursor < ui.rows => to < ui.rows)
    BY <2>1 DEF Typing, UiType
  <2>3. ui' \in UiType /\ ui'.cursor = to /\ ui'.rows = ui.rows
    BY <2>1, <2>2 DEF Typing, UiType
  <2> QED BY <2>1, <2>2, <2>3, RedrawType DEF Pcs
<1>6. CASE /\ loop' = [loop EXCEPT !.pc = "text", !.dirty = @ \/ clock.counting]
           /\ UNCHANGED <<ui, meant>>
  BY <1>6 DEF Typing, LoopType, ClockType
<1> QED BY <1>1, <1>2, <1>3, <1>4, <1>5, <1>6 DEF TextKey

(* Every step keeps the types.                                               *)
LEMMA StepTyping == ASSUME Typing, ListInv, [Next]_vars PROVE Typing'
<1>1. CASE Tick
  <2>1. clock' \in ClockType
    <3> DEFINE left == IF clock.counting /\ clock.left > 0 THEN clock.left - 1 ELSE clock.left
               idle == IF setup.saver /\ clock.idle < 2 THEN clock.idle + 1 ELSE clock.idle
    <3>1. left \in Nat /\ idle \in Nat BY DEF Typing, ClockType
    <3>2. clock' = [clock EXCEPT !.left = left, !.idle = idle] BY <1>1 DEF Tick
    <3> HIDE DEF left, idle
    <3> QED BY <3>1, <3>2 DEF Typing, ClockType
  <2> QED BY <1>1, <2>1 DEF Tick, Typing, history
<1>2. CASE Wake
  BY <1>2, DrawnType DEF Wake, gui, history, Typing, ClockType, LoopType
<1>3. CASE Darken
  BY <1>3 DEF Darken, gui, history, Typing, ClockType
<1>4. CASE FallAsleep
  BY <1>4 DEF FallAsleep, gui, history, Typing, ClockType
<1>5. CASE Paint
  <2>1. clock' \in ClockType BY <1>5 DEF Paint, Typing, ClockType
  <2>2. UNCHANGED <<setup, list, ui, pending>> BY <1>5 DEF Paint
  <2>3. CASE loop.dirty \/ cap.mode = "recording"
    <3>1. PICK finished, encoded \in BOOLEAN :
            /\ page' = Drawn(finished)
            /\ cap' = IF cap.mode = "saving" \/ (cap.mode = "recording" /\ ~encoded)
                      THEN [mode |-> "off", toast |-> TRUE] ELSE cap
            /\ loop' = [loop EXCEPT !.pc = "pointer", !.dirty = page'.moving]
      BY <1>5, <2>3 DEF Paint
    <3>2. page' \in PageType BY <3>1, DrawnType
    <3>3. cap' \in CapType BY <3>1 DEF Typing, CapType
    <3>4. page'.moving \in BOOLEAN BY <3>2 DEF PageType
    <3>5. loop' \in LoopType BY <3>1, <3>4 DEF Typing, LoopType
    <3> QED BY <2>1, <2>2, <3>2, <3>3, <3>5 DEF Typing
  <2>4. CASE ~(loop.dirty \/ cap.mode = "recording")
    <3>1. Goto("pointer") /\ UNCHANGED <<page, cap>> BY <1>5, <2>4 DEF Paint
    <3> QED BY <2>1, <2>2, <3>1, GotoType DEF Typing, Pcs
  <2> QED BY <2>3, <2>4
<1>6. CASE NoPointer
  BY <1>6 DEF NoPointer, Goto, gui, history, Typing, LoopType
<1>7. ASSUME NEW up \in BOOLEAN, Wheel(up) PROVE Typing'
  <2> DEFINE next == IF up /\ ui.sel + 1 < Len(list) THEN ui.sel + 1
                     ELSE IF ~up /\ ui.sel > 0 THEN ui.sel - 1 ELSE ui.sel
             redraws == <<ui', cards'>> # <<ui, cards>>
  <2>1. next \in Nat BY DEF Typing, UiType
  <2>2. ui' = Select(next) \/ ui' = ui BY <1>7 DEF Wheel
  <2>3. ui' \in UiType BY <2>1, <2>2, SelectType DEF Typing
  <2>4. /\ loop' = [loop EXCEPT !.pc = "key", !.dirty = @ \/ redraws]
        /\ clock' = IF redraws THEN [clock EXCEPT !.idle = 0] ELSE clock
        /\ UNCHANGED <<setup, list, pending, page, cap>>
    BY <1>7 DEF Wheel
  <2> HIDE DEF redraws
  <2>5. clock' \in ClockType BY <2>4 DEF Typing, ClockType
  <2>6. loop' \in LoopType BY <2>4 DEF Typing, LoopType, redraws
  <2> QED BY <2>3, <2>4, <2>5, <2>6 DEF Typing
<1>8. ASSUME NEW at \in Places, NEW moved \in BOOLEAN, NEW down \in BOOLEAN, Point(at, moved, down)
      PROVE  Typing'
  <2> DEFINE held == ui.panel # "none" \/ ui.browse
             clicked == ~held /\ down /\ ~btn /\ at.what # "nothing"
             hovers == ~held /\ (moved \/ (clicked /\ at.what = "entry"))
  <2>1. /\ ui' = IF ~hovers \/ at.what = "nothing" THEN ui
                 ELSE IF at.what = "entry" THEN Select(at.n) ELSE PowerAt(at.n)
        /\ clock' = [clock EXCEPT !.counting = @ /\ (held \/ ~moved),
                                  !.idle = IF moved \/ clicked THEN 0 ELSE @]
        /\ IF clicked
           THEN End("key", IF at.what = "entry" THEN "boot" ELSE PowerAction(at.n))
           ELSE loop' = [loop EXCEPT !.pc = "key", !.dirty =
                            @ \/ ui' # ui \/ clock'.counting # clock.counting]
        /\ UNCHANGED <<setup, list, pending, page, cap>>
    BY <1>8 DEF Point
  <2> HIDE DEF held, clicked, hovers
  <2>2. ui' \in UiType BY <2>1, SelectType, PowerAtType, PlacesType DEF Typing
  <2>3. clock' \in ClockType BY <2>1 DEF Typing, ClockType
  <2>4. loop' \in LoopType
    <3>1. CASE clicked
      <4>1. CASE at.what = "entry" BY <2>1, <3>1, <4>1, EndType DEF Pcs, ActionType
      <4>2. CASE at.what # "entry"
        <5>1. at.n \in Nat BY <3>1, <4>2, PlacesType DEF clicked
        <5> QED BY <2>1, <3>1, <4>2, <5>1, PowerActionType, EndType DEF Pcs
      <4> QED BY <4>1, <4>2
    <3>2. CASE ~clicked BY <2>1, <3>2 DEF Typing, LoopType
    <3> QED BY <3>1, <3>2
  <2> QED BY <2>1, <2>2, <2>3, <2>4 DEF Typing
<1>9. CASE NoKey
  BY <1>9 DEF NoKey, Goto, gui, history, Typing, LoopType
<1>10. CASE CaptureKey
  <2>1. \/ cap' = cap \/ cap' = [cap EXCEPT !.toast = TRUE]
        \/ cap' = [mode |-> "count", toast |-> FALSE] \/ cap' = [mode |-> "off", toast |-> TRUE]
    BY <1>10 DEF CaptureKey
  <2>2. Pressed /\ Redraw("top") /\ UNCHANGED <<ui, cards, pending>> BY <1>10 DEF CaptureKey
  <2>3. cap' \in CapType
    <3>1. CASE cap' = [cap EXCEPT !.toast = TRUE] BY <3>1 DEF Typing, CapType
    <3>2. CASE cap' = [mode |-> "count", toast |-> FALSE] BY <3>2 DEF CapType
    <3>3. CASE cap' = [mode |-> "off", toast |-> TRUE] BY <3>3 DEF CapType
    <3> QED BY <2>1, <3>1, <3>2, <3>3 DEF Typing
  <2> QED BY <2>2, <2>3, PressedType, RedrawType DEF Typing, Pcs
<1>11. CASE EditKey
  <2>1. Pressed /\ Redraw("top") /\ UNCHANGED cap BY <1>11 DEF EditKey
  <2>2. ui' \in UiType BY <1>11 DEF EditKey, Typing, UiType
  <2>3. DOMAIN pending' = Fields BY <1>11 DEF EditKey, Typing
  <2> QED BY <2>1, <2>2, <2>3, PressedType, RedrawType DEF Typing, Pcs
<1>12. CASE BrowseKey
  <2>1. Pressed /\ UNCHANGED cap /\ (Redraw("top") \/ End("top", loop.action))
    BY <1>12 DEF BrowseKey
  <2>2. ui' \in UiType BY <1>12 DEF BrowseKey, Typing, UiType
  <2>3. DOMAIN pending' = Fields
    <3>1. \/ pending' = pending
          \/ pending' = [pending EXCEPT !.initrd = Source("file", None, 0)]
          \/ pending' = [pending EXCEPT !.kernel = Source("file", None, 0)]
          \/ pending' = [pending EXCEPT !.kernel = Source("file", None, 0),
                                        !.initrd = Source("file", None, 0)]
      BY <1>12 DEF BrowseKey
    <3> QED BY <3>1 DEF Typing
  <2>4. loop' \in LoopType BY <2>1, RedrawType, EndType, ActionKept DEF Pcs
  <2> QED BY <2>1, <2>2, <2>3, <2>4, PressedType DEF Typing
<1>13. CASE PanelKey
  <2>1. Pressed /\ UNCHANGED cap BY <1>13 DEF PanelKey
  <2>2. \/ Redraw("top") \/ (\E a \in ActionType : End("top", a))
    BY <1>13, ActionKept DEF PanelKey, Redraw, Powers, ActionType
  <2>3. loop' \in LoopType BY <2>2, RedrawType, EndType DEF Pcs
  <2>4. \/ UNCHANGED ui \/ Engage(NextPanel(Chosen))
        \/ ui' = IF setup.center \/ ~setup.anim
                 THEN [ui EXCEPT !.panel = "none", !.fade = "no", !.next = "none"]
                 ELSE [ui EXCEPT !.fade = "out", !.next = "none"]
    BY <1>13 DEF PanelKey
  <2>5. ui' \in UiType
    <3>1. CASE UNCHANGED ui BY <3>1 DEF Typing
    <3>2. CASE Engage(NextPanel(Chosen)) BY <3>2, EngageType, NextPanelType
    <3>3. CASE ui' = IF setup.center \/ ~setup.anim
                     THEN [ui EXCEPT !.panel = "none", !.fade = "no", !.next = "none"]
                     ELSE [ui EXCEPT !.fade = "out", !.next = "none"]
      BY <3>3 DEF Typing, UiType, Panels
    <3> QED BY <2>4, <3>1, <3>2, <3>3
  <2>6. DOMAIN pending' = Fields
    <3>1. pending' = pending \/ pending' = OfSnapshot(Chosen) BY <1>13 DEF PanelKey
    <3> QED BY <3>1 DEF OfSnapshot, Typing
  <2> QED BY <2>1, <2>3, <2>5, <2>6, PressedType DEF Typing
<1>14. CASE PanelsKey
  <2>1. /\ Pressed /\ UNCHANGED <<cap, pending>> /\ Redraw("late")
        /\ Engage(NextPanel(Chosen))
    BY <1>14 DEF PanelsKey, MenuPressed
  <2>2. ui' \in UiType BY <2>1, EngageType, NextPanelType
  <2> QED BY <2>1, <2>2, PressedType, RedrawType DEF Typing, Pcs
<1>15. CASE OpenKey
  <2>1. Pressed /\ UNCHANGED <<cap, pending>> /\ Redraw("late")
    BY <1>15 DEF OpenKey, MenuPressed
  <2>2. ui' \in UiType BY <1>15 DEF OpenKey, Typing, UiType
  <2> QED BY <2>1, <2>2, PressedType, RedrawType DEF Typing, Pcs
<1>16. CASE LeaveKey
  <2>1. Pressed /\ UNCHANGED <<cap, ui, pending>> BY <1>16 DEF LeaveKey, MenuPressed
  <2>2. \E a \in ActionType : End("late", a)
    <3>1. CASE \E a \in Powers \cup {"rescue"} : End("late", a)
      BY <3>1 DEF Powers, ActionType
    <3>2. CASE End("late", IF ui.focus = "power" THEN PowerAction(ui.power) ELSE loop.action)
      <4>1. ui.power \in Nat BY DEF Typing, UiType
      <4>2. PowerAction(ui.power) \in ActionType BY <4>1, PowerActionType
      <4> QED BY <3>2, <4>2, ActionKept
    <3> QED BY <1>16, <3>1, <3>2 DEF LeaveKey
  <2> QED BY <2>1, <2>2, PressedType, EndType DEF Typing, Pcs
<1>17. ASSUME NEW yes \in BOOLEAN, SideKey(yes) PROVE Typing'
  <2>1. Pressed /\ UNCHANGED <<cap, pending>> /\ Redraw("late") BY <1>17 DEF SideKey, MenuPressed
  <2>2. PICK to \in Nat : ui' = Select(to)
    <3> DEFINE n == Len(list)
               t == IF n = 0 THEN ui.sel
                    ELSE IF yes THEN IF ui.sel + 1 < n THEN ui.sel + 1 ELSE 0
                    ELSE IF ui.sel > 0 THEN ui.sel - 1 ELSE n - 1
    <3>1. t \in Nat BY DEF Typing, UiType
    <3>2. ui' = Select(t) BY <1>17 DEF SideKey
    <3> QED BY <3>1, <3>2
  <2> QED BY <2>1, <2>2, PressedType, RedrawType, SelectType DEF Typing, Pcs
<1>18. ASSUME NEW yes \in BOOLEAN, ColumnKey(yes) PROVE Typing'
  <2>1. Pressed /\ UNCHANGED <<cap, pending>> /\ Redraw("late") BY <1>18 DEF ColumnKey, MenuPressed
  <2>2. UNCHANGED ui \/ (\E p \in 0..2 : ui' = PowerAt(p)) \/ ui' = [ui EXCEPT !.focus = "entries"]
    <3>1. ui.power \in 0..2 BY DEF Typing, UiType
    <3> QED BY <1>18, <3>1 DEF ColumnKey
  <2>3. ui' \in UiType
    <3>1. CASE ui' = [ui EXCEPT !.focus = "entries"] BY <3>1 DEF Typing, UiType
    <3> QED BY <2>2, <3>1, PowerAtType DEF Typing
  <2> QED BY <2>1, <2>3, PressedType, RedrawType DEF Typing, Pcs
<1>19. ASSUME NEW i \in 0..8, DigitKey(i) PROVE Typing'
  <2>1. Pressed /\ UNCHANGED <<cap, pending>> /\ End("late", loop.action) /\ ui' = Select(i)
    BY <1>19 DEF DigitKey, MenuPressed
  <2>2. i \in Nat OBVIOUS
  <2> QED BY <2>1, <2>2, PressedType, EndType, ActionKept, SelectType DEF Typing, Pcs
<1>20. CASE OtherKey
  BY <1>20 DEF OtherKey, MenuPressed, Pressed, gui, history, Typing, LoopType,
     ClockType
<1>21. CASE Late
  <2>1. PICK ends \in BOOLEAN, polled \in BOOLEAN, c \in CapTick :
          /\ polled => MayPoll
          /\ ui.fade = "no" => ~ends
          /\ \E l \in IF polled THEN Lists ELSE {list} :
               /\ Listed(l)
               /\ ui' = [Faded(ends) EXCEPT !.sel = SelIn(l)]
               /\ meant' = IF meant = None THEN At(l, SelIn(l)) ELSE meant
          /\ page' = IF polled THEN Drawn(FALSE) ELSE page
          /\ cap' = IF Overlay THEN c ELSE cap
          /\ loop' = [loop EXCEPT !.pc = "top",
                        !.running = @ /\ ~(clock.counting /\ clock.left = 0),
                        !.dirty = DirtyAfter(polled) \/ cap' # cap]
    BY <1>21 DEF Late
  <2>2. PICK l \in Lists : Listed(l) /\ ui' = [Faded(ends) EXCEPT !.sel = SelIn(l)]
    BY <2>1, ListKept
  <2>3. l \in Seq(Entries) /\ list' = l BY <2>2, Polled DEF Listed
  <2>4. SelIn(l) \in Nat BY <2>3, SelInType
  <2>5. ui' \in UiType
    <3>1. Faded(ends) \in UiType BY FadedType
    <3> QED BY <2>2, <2>4, <3>1 DEF UiType
  <2>6. page' \in PageType /\ cap' \in CapType
    BY <2>1, DrawnType, CapTickType DEF Typing
  <2>7. loop' \in LoopType BY <2>1 DEF Typing, LoopType
  <2>8. UNCHANGED <<setup, pending, clock>> BY <1>21 DEF Late
  <2> QED BY <2>3, <2>5, <2>6, <2>7, <2>8 DEF Typing
<1>22. CASE TextPaint
  BY <1>22 DEF TextPaint, gui, history, Typing, LoopType
<1>23. CASE TextKey
  <2>1. UNCHANGED <<setup, list, gui>> /\ clock' = [clock EXCEPT !.counting = FALSE]
    BY <1>23 DEF TextKey
  <2>2. clock' \in ClockType BY <2>1 DEF Typing, ClockType
  <2>3. loop' \in LoopType /\ ui' \in UiType BY <1>23, TextKeys
  <2> QED BY <2>1, <2>2, <2>3 DEF Typing, gui
<1>24. CASE TextPoll
  <2>1. PICK l \in Lists :
          /\ Listed(l)
          /\ ui' = [ui EXCEPT !.sel = IF l # list /\ @ >= Len(l) /\ l # <<>>
                                      THEN Len(l) - 1 ELSE @]
          /\ loop' = [loop EXCEPT !.pc = "text", !.dirty = @ \/ l # list]
    BY <1>24, ListKept DEF TextPoll
  <2>2. l \in Seq(Entries) /\ list' = l BY <2>1, Polled DEF Listed
  <2>3. \E n \in Nat : ui' = [ui EXCEPT !.sel = n]
    <3>1. ui.sel \in Nat BY DEF Typing, UiType
    <3>2. l # <<>> => Len(l) - 1 \in Nat BY <2>2
    <3> QED BY <2>1, <3>1, <3>2
  <2>4. ui' \in UiType BY <2>3 DEF Typing, UiType
  <2>5. loop' \in LoopType BY <2>1 DEF Typing, LoopType
  <2> QED BY <1>24, <2>2, <2>4, <2>5 DEF TextPoll, Typing, gui
<1>25. CASE Leave
  BY <1>25 DEF Leave, Goto, gui, history, Typing, LoopType
<1>26. CASE UNCHANGED vars
  BY <1>26 DEF vars, gui, history, Typing
<1> QED
  BY <1>1, <1>2, <1>3, <1>4, <1>5, <1>6, <1>7, <1>8, <1>9, <1>10, <1>11, <1>12,
     <1>13, <1>14, <1>15, <1>16, <1>17, <1>18, <1>19, <1>20, <1>21, <1>22,
     <1>23, <1>24, <1>25, <1>26 DEF Next, Pass, Key

-----------------------------------------------------------------------------
(* What a step of the user does, whatever was pressed or pointed at: the     *)
(* picture is up to date, marked as out of date, or the menu is over; and    *)
(* the selection stays or goes where the user went.                          *)
Redrawn ==
    \/ loop'.dirty \/ ~loop'.running
    \/ /\ UNCHANGED <<ui, cards, cap>> /\ clock'.counting = clock.counting
       /\ loop'.dirty = loop.dirty /\ loop'.running = loop.running
WentTo ==
    \/ meant' = At(list, ui'.sel)
    \/ meant' = meant /\ ui'.sel = ui.sel

LEMMA WheelEffect ==
    ASSUME Typing, NEW up \in BOOLEAN, Wheel(up)
    PROVE  /\ loop.pc = "pointer" /\ loop'.pc = "key"
           /\ UNCHANGED <<setup, list, changes, seen, pending>> /\ Redrawn /\ WentTo
<1> DEFINE next == IF up /\ ui.sel + 1 < Len(list) THEN ui.sel + 1
                   ELSE IF ~up /\ ui.sel > 0 THEN ui.sel - 1 ELSE ui.sel
           redraws == <<ui', cards'>> # <<ui, cards>>
<1>1. /\ loop' = [loop EXCEPT !.pc = "key", !.dirty = @ \/ redraws]
      /\ clock' = IF redraws THEN [clock EXCEPT !.idle = 0] ELSE clock
      /\ ui' = IF ui.panel = "none" /\ ~ui.browse /\ next # ui.sel THEN Select(next) ELSE ui
      /\ meant' = IF ui' # ui THEN At(list, next) ELSE meant
      /\ UNCHANGED <<setup, list, changes, seen, pending, cap>> /\ loop.pc = "pointer"
  BY DEF Wheel
<1>2. next \in Nat BY DEF Typing, UiType
<1>3. WentTo
  <2>1. CASE ui' = ui BY <1>1, <2>1 DEF WentTo
  <2>2. CASE ui' # ui BY <1>1, <1>2, <2>2, SelectType DEF WentTo
  <2> QED BY <2>1, <2>2
<1>4. redraws \/ UNCHANGED <<ui, cards>> OBVIOUS
<1> HIDE DEF redraws
<1>5. loop'.pc = "key" /\ loop'.running = loop.running /\ loop'.dirty = (loop.dirty \/ redraws)
  <2>1. redraws \in BOOLEAN BY DEF redraws
  <2> QED BY <1>1, <2>1 DEF Typing, LoopType
<1>6. Redrawn
  <2>1. CASE redraws BY <1>5, <2>1 DEF Redrawn
  <2>2. CASE ~redraws BY <1>1, <1>4, <1>5, <2>2 DEF Redrawn, Typing, LoopType
  <2> QED BY <2>1, <2>2
<1> QED BY <1>1, <1>3, <1>5, <1>6

LEMMA PointEffect ==
    ASSUME Typing, NEW at \in Places, NEW moved \in BOOLEAN, NEW down \in BOOLEAN,
           Point(at, moved, down)
    PROVE  /\ loop.pc = "pointer" /\ loop'.pc = "key"
           /\ UNCHANGED <<setup, list, changes, seen, pending>> /\ Redrawn /\ WentTo
<1> DEFINE held == ui.panel # "none" \/ ui.browse
           clicked == ~held /\ down /\ ~btn /\ at.what # "nothing"
           hovers == ~held /\ (moved \/ (clicked /\ at.what = "entry"))
<1>1. /\ ui' = IF ~hovers \/ at.what = "nothing" THEN ui
               ELSE IF at.what = "entry" THEN Select(at.n) ELSE PowerAt(at.n)
      /\ meant' = IF hovers /\ at.what = "entry" THEN At(list, at.n) ELSE meant
      /\ IF clicked
         THEN End("key", IF at.what = "entry" THEN "boot" ELSE PowerAction(at.n))
         ELSE loop' = [loop EXCEPT !.pc = "key", !.dirty =
                          @ \/ ui' # ui \/ clock'.counting # clock.counting]
      /\ UNCHANGED <<setup, list, changes, seen, pending, cards, cap>> /\ loop.pc = "pointer"
  BY DEF Point
<1> HIDE DEF held, clicked, hovers
<1>2. WentTo
  <2>1. CASE hovers /\ at.what = "entry"
    BY <1>1, <2>1, PlacesType, SelectType DEF WentTo
  <2>2. CASE ~(hovers /\ at.what = "entry")
    BY <1>1, <2>2, PlacesType, PowerAtType DEF WentTo
  <2> QED BY <2>1, <2>2
<1>3. CASE clicked
  <2>1. loop'.pc = "key" /\ loop'.running = FALSE BY <1>1, <1>3 DEF End, Typing, LoopType
  <2> QED BY <1>1, <1>2, <2>1 DEF Redrawn
<1>4. CASE ~clicked
  <2> DEFINE new == ui' # ui \/ clock'.counting # clock.counting
  <2>1. loop' = [loop EXCEPT !.pc = "key", !.dirty = @ \/ new] BY <1>1, <1>4
  <2>2. new \in BOOLEAN /\ (new \/ (ui' = ui /\ clock'.counting = clock.counting)) OBVIOUS
  <2> HIDE DEF new
  <2>3. loop'.pc = "key" /\ loop'.running = loop.running /\ loop'.dirty = (loop.dirty \/ new)
    BY <2>1, <2>2 DEF Typing, LoopType
  <2>4. Redrawn
    <3>1. CASE new BY <2>3, <3>1 DEF Redrawn
    <3>2. CASE ~new BY <1>1, <2>2, <2>3, <3>2 DEF Redrawn, Typing, LoopType
    <3> QED BY <3>1, <3>2
  <2> QED BY <1>1, <1>2, <2>3, <2>4
<1> QED BY <1>3, <1>4

(* The same of the keys.                                                     *)
LEMMA KeyEffect ==
    ASSUME Typing, Key
    PROVE  /\ loop.pc = "key" /\ loop'.pc \in {"top", "late"}
           /\ UNCHANGED <<setup, list, changes, seen>> /\ Redrawn /\ WentTo
<1> DEFINE Goal == /\ loop.pc = "key" /\ loop'.pc \in {"top", "late"}
                   /\ UNCHANGED <<setup, list, changes, seen>> /\ Redrawn /\ WentTo
<1>1. CASE NoKey
  <2>1. /\ loop.pc = "key" /\ Goto("late")
        /\ UNCHANGED <<setup, list, changes, seen, ui, cards, cap, clock, meant>>
    BY <1>1 DEF NoKey, history
  <2> QED BY <2>1, GotoType DEF Redrawn, WentTo, Pcs
<1>2. CASE CaptureKey
  <2>1. Pressed /\ Redraw("top") /\ UNCHANGED <<ui, meant>> BY <1>2 DEF CaptureKey
  <2> QED BY <2>1, PressedType, RedrawType DEF Redrawn, WentTo, Pcs
<1>3. CASE EditKey
  <2>1. Pressed /\ Redraw("top") /\ UNCHANGED meant BY <1>3 DEF EditKey
  <2>2. ui'.sel = ui.sel BY <1>3 DEF EditKey, Typing, UiType
  <2> QED BY <2>1, <2>2, PressedType, RedrawType DEF Redrawn, WentTo, Pcs
<1>4. CASE BrowseKey
  <2>1. Pressed /\ (Redraw("top") \/ End("top", loop.action)) /\ UNCHANGED meant
    BY <1>4 DEF BrowseKey
  <2>2. ui'.sel = ui.sel BY <1>4 DEF BrowseKey, Typing, UiType
  <2> QED BY <2>1, <2>2, PressedType, RedrawType, EndType, ActionKept DEF Redrawn, WentTo, Pcs
<1>5. CASE PanelKey
  <2>1. Pressed /\ UNCHANGED meant BY <1>5 DEF PanelKey
  <2>2. \/ Redraw("top") \/ \E a \in ActionType : End("top", a)
    BY <1>5, ActionKept DEF PanelKey, Redraw, Powers, ActionType
  <2>3. \/ UNCHANGED ui \/ Engage(NextPanel(Chosen))
        \/ ui' = IF setup.center \/ ~setup.anim
                 THEN [ui EXCEPT !.panel = "none", !.fade = "no", !.next = "none"]
                 ELSE [ui EXCEPT !.fade = "out", !.next = "none"]
    BY <1>5 DEF PanelKey
  <2>4. ui'.sel = ui.sel
    <3>1. CASE UNCHANGED ui BY <3>1
    <3>2. CASE Engage(NextPanel(Chosen)) BY <3>2, EngageType, NextPanelType
    <3>3. CASE ui' = IF setup.center \/ ~setup.anim
                     THEN [ui EXCEPT !.panel = "none", !.fade = "no", !.next = "none"]
                     ELSE [ui EXCEPT !.fade = "out", !.next = "none"]
      BY <3>3 DEF Typing, UiType
    <3> QED BY <2>3, <3>1, <3>2, <3>3
  <2> QED BY <2>1, <2>2, <2>4, PressedType, RedrawType, EndType DEF Redrawn, WentTo, Pcs
<1>6. CASE PanelsKey
  <2>1. Pressed /\ Redraw("late") /\ UNCHANGED meant /\ Engage(NextPanel(Chosen))
    BY <1>6 DEF PanelsKey, MenuPressed
  <2> QED BY <2>1, PressedType, RedrawType, EngageType, NextPanelType DEF Redrawn, WentTo, Pcs
<1>7. CASE OpenKey
  <2>1. Pressed /\ Redraw("late") /\ UNCHANGED meant BY <1>7 DEF OpenKey, MenuPressed
  <2>2. ui'.sel = ui.sel BY <1>7 DEF OpenKey, Typing, UiType
  <2> QED BY <2>1, <2>2, PressedType, RedrawType DEF Redrawn, WentTo, Pcs
<1>8. CASE LeaveKey
  <2>1. Pressed /\ UNCHANGED <<ui, meant>> BY <1>8 DEF LeaveKey, MenuPressed
  <2>2. \E a : End("late", a) BY <1>8 DEF LeaveKey
  <2>3. loop'.pc = "late" /\ ~loop'.running BY <2>2 DEF End, Typing, LoopType
  <2> QED BY <2>1, <2>3, PressedType DEF Redrawn, WentTo
<1>9. ASSUME NEW yes \in BOOLEAN, SideKey(yes) PROVE Goal
  <2>1. Pressed /\ Redraw("late") BY <1>9 DEF SideKey, MenuPressed
  <2>2. PICK to \in Nat : ui' = Select(to) /\ meant' = At(list, to)
    <3> DEFINE n == Len(list)
               t == IF n = 0 THEN ui.sel
                    ELSE IF yes THEN IF ui.sel + 1 < n THEN ui.sel + 1 ELSE 0
                    ELSE IF ui.sel > 0 THEN ui.sel - 1 ELSE n - 1
    <3>1. t \in Nat BY DEF Typing, UiType
    <3>2. ui' = Select(t) /\ meant' = At(list, t) BY <1>9 DEF SideKey
    <3> QED BY <3>1, <3>2
  <2> QED BY <2>1, <2>2, PressedType, RedrawType, SelectType DEF Redrawn, WentTo, Pcs
<1>10. ASSUME NEW yes \in BOOLEAN, ColumnKey(yes) PROVE Goal
  <2>1. Pressed /\ Redraw("late") /\ UNCHANGED meant BY <1>10 DEF ColumnKey, MenuPressed
  <2>2. UNCHANGED ui \/ (\E p \in 0..2 : ui' = PowerAt(p)) \/ ui' = [ui EXCEPT !.focus = "entries"]
    <3>1. ui.power \in 0..2 BY DEF Typing, UiType
    <3> QED BY <1>10, <3>1 DEF ColumnKey
  <2>3. ui'.sel = ui.sel
    <3>1. CASE ui' = [ui EXCEPT !.focus = "entries"] BY <3>1 DEF Typing, UiType
    <3> QED BY <2>2, <3>1, PowerAtType
  <2> QED BY <2>1, <2>3, PressedType, RedrawType DEF Redrawn, WentTo, Pcs
<1>11. ASSUME NEW i \in 0..8, DigitKey(i) PROVE Goal
  <2>1. /\ Pressed /\ End("late", loop.action)
        /\ ui' = Select(i) /\ meant' = At(list, i) /\ i \in Nat
    BY <1>11 DEF DigitKey, MenuPressed
  <2> QED BY <2>1, PressedType, EndType, ActionKept, SelectType DEF Redrawn, WentTo, Pcs
<1>12. CASE OtherKey
  <2>1. /\ Pressed /\ UNCHANGED <<ui, cards, cap, meant>>
        /\ loop' = [loop EXCEPT !.pc = "late", !.dirty = @ \/ clock.counting]
    BY <1>12 DEF OtherKey, MenuPressed
  <2>2. /\ loop'.pc = "late" /\ loop'.running = loop.running
        /\ loop'.dirty = (loop.dirty \/ clock.counting)
    BY <2>1 DEF Typing, LoopType, ClockType
  <2>3. loop.dirty \in BOOLEAN /\ clock.counting \in BOOLEAN BY DEF Typing, LoopType, ClockType
  <2>4. Redrawn
    <3>1. CASE clock.counting BY <2>2, <3>1 DEF Redrawn
    <3>2. CASE clock.counting = FALSE
      <4>1. clock'.counting = FALSE BY <2>1, PressedType
      <4> QED BY <2>1, <2>2, <2>3, <3>2, <4>1 DEF Redrawn
    <3> QED BY <2>3, <3>1, <3>2
  <2> QED BY <2>1, <2>2, <2>4, PressedType DEF WentTo
<1> QED BY <1>1, <1>2, <1>3, <1>4, <1>5, <1>6, <1>7, <1>8, <1>9, <1>10, <1>11, <1>12 DEF Key

(* The end of a pass: the list may change, nothing else does without being   *)
(* drawn again, and a selection that has a meaning keeps it.                 *)
LEMMA LateEffect ==
    ASSUME Typing, ListInv, Late
    PROVE  \E l \in Lists :
             /\ list' = l /\ changes' = changes \cup Changes(l)
             /\ ui'.sel = SelIn(l)
             /\ meant' = IF meant = None THEN At(l, SelIn(l)) ELSE meant
             /\ loop.pc = "late" /\ loop'.pc = "top"
             /\ loop'.running => loop.running
             /\ UNCHANGED <<setup, cards, pending, clock, seen>>
             /\ loop'.dirty \/ (l = list /\ ui' = ui /\ cap' = cap /\ ~loop.dirty)
<1>1. PICK ends \in BOOLEAN, polled \in BOOLEAN, c \in CapTick :
        /\ polled => MayPoll
        /\ ui.fade = "no" => ~ends
        /\ \E l \in IF polled THEN Lists ELSE {list} :
             /\ Listed(l)
             /\ ui' = [Faded(ends) EXCEPT !.sel = SelIn(l)]
             /\ meant' = IF meant = None THEN At(l, SelIn(l)) ELSE meant
        /\ page' = IF polled THEN Drawn(FALSE) ELSE page
        /\ cap' = IF Overlay THEN c ELSE cap
        /\ loop' = [loop EXCEPT !.pc = "top",
                      !.running = @ /\ ~(clock.counting /\ clock.left = 0),
                      !.dirty = DirtyAfter(polled) \/ cap' # cap]
  BY DEF Late
<1>2. PICK l \in Lists :
        /\ ~polled => l = list
        /\ Listed(l) /\ ui' = [Faded(ends) EXCEPT !.sel = SelIn(l)]
        /\ meant' = IF meant = None THEN At(l, SelIn(l)) ELSE meant
  BY <1>1, ListKept
<1>3. ui'.sel = SelIn(l)
  <2>1. Faded(ends) \in UiType BY FadedType
  <2> QED BY <1>2, <2>1 DEF UiType
<1>4. /\ loop'.pc = "top" /\ (loop'.running => loop.running)
      /\ loop'.dirty = (DirtyAfter(polled) \/ cap' # cap)
  BY <1>1 DEF Typing, LoopType
<1>5. loop'.dirty \/ (l = list /\ ui' = ui /\ cap' = cap /\ ~loop.dirty)
  <2>1. SUFFICES ASSUME ~(DirtyAfter(polled) \/ cap' # cap)
                 PROVE  l = list /\ ui' = ui /\ cap' = cap /\ ~loop.dirty
    BY <1>4
  <2>2. ~polled /\ ui.fade = "no" /\ cap' = cap /\ ~loop.dirty BY <2>1 DEF DirtyAfter
  <2>3. l = list /\ Faded(ends) = ui /\ SelIn(l) = ui.sel BY <1>2, <2>2, FadedType DEF SelIn
  <2>4. ui' = [ui EXCEPT !.sel = ui.sel] BY <1>2, <2>3
  <2>5. ui' = ui BY <2>4 DEF Typing, UiType
  <2> QED BY <2>2, <2>3, <2>5
<1>6. loop.pc = "late" /\ UNCHANGED <<setup, cards, pending, clock, seen>> BY DEF Late
<1> QED BY <1>2, <1>3, <1>4, <1>5, <1>6 DEF Listed

(* The poll of the text menu.                                                *)
LEMMA TextPollEffect ==
    ASSUME Typing, ListInv, TextPoll
    PROVE  \E l \in Lists :
             /\ list' = l /\ changes' = changes \cup Changes(l)
             /\ ui'.cursor = ui.cursor /\ ui'.rows = ui.rows /\ (l = list => ui' = ui)
             /\ meant' = meant
             /\ loop.pc = "textkey" /\ loop'.pc = "text"
             /\ loop'.running = loop.running /\ loop'.action = loop.action
             /\ UNCHANGED <<setup, cards, pending, cap, clock, seen>>
             /\ loop'.dirty \/ (l = list /\ ~loop.dirty)
<1>1. PICK l \in Lists :
        /\ Listed(l)
        /\ ui' = [ui EXCEPT !.sel = IF l # list /\ @ >= Len(l) /\ l # <<>>
                                    THEN Len(l) - 1 ELSE @]
        /\ loop' = [loop EXCEPT !.pc = "text", !.dirty = @ \/ l # list]
  BY ListKept DEF TextPoll
<1>2. ui'.cursor = ui.cursor /\ ui'.rows = ui.rows BY <1>1 DEF Typing, UiType
<1>3. l = list => ui' = ui
  <2>1. SUFFICES ASSUME l = list PROVE ui' = ui OBVIOUS
  <2>2. ui' = [ui EXCEPT !.sel = ui.sel] BY <1>1, <2>1
  <2> QED BY <2>2 DEF Typing, UiType
<1>4. /\ loop'.pc = "text" /\ loop'.running = loop.running /\ loop'.action = loop.action
      /\ loop'.dirty = (loop.dirty \/ l # list)
  BY <1>1 DEF Typing, LoopType
<1>5. /\ loop.pc = "textkey" /\ meant' = meant
      /\ UNCHANGED <<setup, cards, pending, cap, clock, seen>>
  BY DEF TextPoll, gui
<1> QED BY <1>1, <1>2, <1>3, <1>4, <1>5 DEF Listed

(* Drawing: a picture, or nothing that would need one.                       *)
LEMMA PaintEffect ==
    ASSUME Typing, Paint
    PROVE  /\ loop.pc = "top" /\ loop'.pc = "pointer" /\ loop.running
           /\ loop'.running = loop.running /\ loop'.action = loop.action
           /\ UNCHANGED <<setup, list, ui, cards, pending, meant, changes>>
           /\ clock'.counting = clock.counting
           /\ seen' = Screen' \/ (seen' = seen /\ cap' = cap /\ loop'.dirty = loop.dirty)
<1>1. /\ loop.pc = "top" /\ loop.running
      /\ UNCHANGED <<setup, list, ui, cards, pending, meant, changes>>
  BY DEF Paint, history
<1>2. clock'.counting = clock.counting BY DEF Paint, Typing, ClockType
<1>3. CASE loop.dirty \/ cap.mode = "recording"
  <2>1. seen' = Screen' /\ loop' = [loop EXCEPT !.pc = "pointer", !.dirty = page'.moving]
    BY <1>3 DEF Paint
  <2>2. loop'.pc = "pointer" /\ loop'.running = loop.running /\ loop'.action = loop.action
    BY <2>1 DEF Typing, LoopType
  <2> QED BY <1>1, <1>2, <2>1, <2>2
<1>4. CASE ~(loop.dirty \/ cap.mode = "recording")
  <2>1. seen' = seen /\ cap' = cap /\ Goto("pointer") BY <1>4 DEF Paint
  <2> QED BY <1>1, <1>2, <2>1, GotoType DEF Pcs
<1> QED BY <1>3, <1>4

LEMMA TextPaintEffect ==
    ASSUME Typing, TextPaint
    PROVE  /\ loop.pc = "text" /\ loop.running /\ loop'.action = loop.action
           /\ UNCHANGED <<setup, list, ui, cards, pending, cap, clock, meant, changes>>
           /\ \/ loop'.pc = "text" /\ ~loop'.running /\ clock.counting
              \/ /\ loop'.pc = "textkey" /\ loop'.running
                 /\ seen' = IF loop.dirty THEN Screen ELSE seen
<1>1. /\ loop.pc = "text" /\ loop.running
      /\ UNCHANGED <<setup, list, ui, cards, pending, cap, clock, meant, changes>>
  BY DEF TextPaint, gui, history
<1>2. CASE clock.counting /\ clock.left = 0
  <2>1. loop' = [loop EXCEPT !.running = FALSE] BY <1>2 DEF TextPaint
  <2> QED BY <1>1, <1>2, <2>1 DEF Typing, LoopType
<1>3. CASE ~(clock.counting /\ clock.left = 0)
  <2>1. /\ loop' = [loop EXCEPT !.pc = "textkey", !.dirty = FALSE]
        /\ seen' = IF loop.dirty THEN Screen ELSE seen
    BY <1>3 DEF TextPaint
  <2> QED BY <1>1, <2>1 DEF Typing, LoopType
<1> QED BY <1>2, <1>3

-----------------------------------------------------------------------------
(* Every step keeps each part of the invariant.                              *)
LEMMA StepPc == ASSUME Typing, ListInv, PcInv, [Next]_vars PROVE PcInv'
<1>1. CASE Tick
  BY <1>1 DEF Tick, history, PcInv, Typing, LoopType
<1>2. CASE Wake
  BY <1>2 DEF Wake, history, PcInv, Typing, LoopType
<1>3. CASE Darken
  BY <1>3 DEF Darken, history, PcInv, Typing, LoopType
<1>4. CASE FallAsleep
  BY <1>4 DEF FallAsleep, history, PcInv, Typing, LoopType
<1>5. CASE Paint
  BY <1>5, PaintEffect DEF PcInv
<1>6. CASE NoPointer
  BY <1>6 DEF NoPointer, history, Goto, PcInv, Typing, LoopType
<1>7. ASSUME NEW up \in BOOLEAN, Wheel(up) PROVE PcInv'
  BY <1>7, WheelEffect DEF PcInv
<1>8. ASSUME NEW at \in Places, NEW moved \in BOOLEAN, NEW down \in BOOLEAN, Point(at, moved, down)
      PROVE  PcInv'
  BY <1>8, PointEffect DEF PcInv
<1>9. CASE Key
  BY <1>9, KeyEffect DEF PcInv
<1>10. CASE Late
  BY <1>10, LateEffect DEF PcInv
<1>11. CASE TextPaint
  BY <1>11, TextPaintEffect DEF PcInv
<1>12. CASE TextKey
  BY <1>12, TextKeys DEF PcInv, TextKey, gui
<1>13. CASE TextPoll
  BY <1>13, TextPollEffect DEF PcInv
<1>14. CASE Leave
  BY <1>14 DEF Leave, history, gui, Goto, PcInv, Typing, LoopType
<1>15. CASE UNCHANGED vars
  BY <1>15 DEF vars, history, PcInv
<1> QED
  BY <1>1, <1>2, <1>3, <1>4, <1>5, <1>6, <1>7, <1>8, <1>9, <1>10, <1>11, <1>12,
     <1>13, <1>14, <1>15 DEF Next, Pass

LEMMA StepList == ASSUME Typing, ListInv, [Next]_vars PROVE ListInv'
<1>1. CASE Tick
  BY <1>1 DEF Tick, history, ListInv
<1>2. CASE Wake
  BY <1>2 DEF Wake, history, ListInv
<1>3. CASE Darken
  BY <1>3 DEF Darken, history, ListInv
<1>4. CASE FallAsleep
  BY <1>4 DEF FallAsleep, history, ListInv
<1>5. CASE Paint
  BY <1>5, PaintEffect DEF ListInv
<1>6. CASE NoPointer
  BY <1>6 DEF NoPointer, history, Goto, ListInv
<1>7. ASSUME NEW up \in BOOLEAN, Wheel(up) PROVE ListInv'
  BY <1>7, WheelEffect DEF ListInv
<1>8. ASSUME NEW at \in Places, NEW moved \in BOOLEAN, NEW down \in BOOLEAN, Point(at, moved, down)
      PROVE  ListInv'
  BY <1>8, PointEffect DEF ListInv
<1>9. CASE Key
  BY <1>9, KeyEffect DEF ListInv
<1>10. CASE Late
  BY <1>10, LateEffect, Polled DEF ListInv
<1>11. CASE TextPaint
  BY <1>11, TextPaintEffect DEF ListInv
<1>12. CASE TextKey
  BY <1>12 DEF TextKey, ListInv
<1>13. CASE TextPoll
  BY <1>13, TextPollEffect, Polled DEF ListInv
<1>14. CASE Leave
  BY <1>14 DEF Leave, history, gui, Goto, ListInv
<1>15. CASE UNCHANGED vars
  BY <1>15 DEF vars, history, ListInv
<1> QED
  BY <1>1, <1>2, <1>3, <1>4, <1>5, <1>6, <1>7, <1>8, <1>9, <1>10, <1>11, <1>12,
     <1>13, <1>14, <1>15 DEF Next, Pass

(* What the screen shows.                                                    *)
LEMMA ScreenSame ==
    ASSUME UNCHANGED <<setup, list, cards, cap>>, clock'.counting = clock.counting,
           IF setup.text THEN ui'.cursor = ui.cursor ELSE ui' = ui
    PROVE  Screen' = Screen
BY DEF Screen, Chosen, At

LEMMA RedrawnKeeps ==
    ASSUME Typing, ScreenInv, UNCHANGED <<setup, list, seen>>, Redrawn
    PROVE  ScreenInv'
<1>1. CASE loop'.dirty \/ ~loop'.running BY <1>1 DEF ScreenInv
<1>2. CASE /\ UNCHANGED <<ui, cards, cap>> /\ clock'.counting = clock.counting
           /\ loop'.dirty = loop.dirty /\ loop'.running = loop.running
  <2>1. Screen' = Screen BY <1>2, ScreenSame
  <2> QED BY <1>2, <2>1 DEF ScreenInv
<1> QED BY <1>1, <1>2 DEF Redrawn

LEMMA StepScreen ==
    ASSUME Typing, ListInv, PcInv, ScreenInv, [Next]_vars PROVE ScreenInv'
<1>1. CASE Tick
  <2>1. clock'.counting = clock.counting BY <1>1 DEF Tick, Typing, ClockType
  <2>2. Screen' = Screen BY <1>1, <2>1, ScreenSame DEF Tick
  <2> QED BY <1>1, <2>2 DEF Tick, ScreenInv
<1>2. CASE Wake
  <2>1. clock'.counting = clock.counting BY <1>2 DEF Wake, Typing, ClockType
  <2>2. Screen' = Screen BY <1>2, <2>1, ScreenSame DEF Wake
  <2> QED BY <1>2, <2>2 DEF Wake, ScreenInv
<1>3. CASE Darken
  <2>1. clock'.counting = clock.counting BY <1>3 DEF Darken, Typing, ClockType
  <2>2. Screen' = Screen BY <1>3, <2>1, ScreenSame DEF Darken
  <2> QED BY <1>3, <2>2 DEF Darken, ScreenInv
<1>4. CASE FallAsleep
  <2>1. clock'.counting = clock.counting BY <1>4 DEF FallAsleep, Typing, ClockType
  <2>2. Screen' = Screen BY <1>4, <2>1, ScreenSame DEF FallAsleep
  <2> QED BY <1>4, <2>2 DEF FallAsleep, ScreenInv
<1>5. CASE Paint
  <2>1. CASE seen' = Screen' BY <2>1 DEF ScreenInv
  <2>2. CASE seen' = seen /\ cap' = cap /\ loop'.dirty = loop.dirty
    <3>1. Screen' = Screen BY <1>5, <2>2, PaintEffect, ScreenSame
    <3> QED BY <1>5, <2>2, <3>1, PaintEffect DEF ScreenInv
  <2> QED BY <1>5, <2>1, <2>2, PaintEffect
<1>6. CASE NoPointer
  <2>1. Screen' = Screen BY <1>6, ScreenSame DEF NoPointer
  <2>2. Goto("key") /\ seen' = seen BY <1>6 DEF NoPointer
  <2> QED BY <2>1, <2>2, GotoType DEF ScreenInv, Pcs
<1>7. ASSUME NEW up \in BOOLEAN, Wheel(up) PROVE ScreenInv'
  <2>1. UNCHANGED <<setup, list, seen>> /\ Redrawn BY <1>7, WheelEffect
  <2> QED BY <2>1, RedrawnKeeps
<1>8. ASSUME NEW at \in Places, NEW moved \in BOOLEAN, NEW down \in BOOLEAN, Point(at, moved, down)
      PROVE  ScreenInv'
  <2>1. UNCHANGED <<setup, list, seen>> /\ Redrawn BY <1>8, PointEffect
  <2> QED BY <2>1, RedrawnKeeps
<1>9. CASE Key
  <2>1. UNCHANGED <<setup, list, seen>> /\ Redrawn BY <1>9, KeyEffect
  <2> QED BY <2>1, RedrawnKeeps
<1>10. CASE Late
  <2>1. PICK l \in Lists :
          /\ list' = l /\ (loop'.running => loop.running)
          /\ UNCHANGED <<setup, cards, clock, seen>>
          /\ loop'.dirty \/ (l = list /\ ui' = ui /\ cap' = cap /\ ~loop.dirty)
    BY <1>10, LateEffect
  <2>2. CASE loop'.dirty BY <2>2 DEF ScreenInv
  <2>3. CASE l = list /\ ui' = ui /\ cap' = cap /\ ~loop.dirty
    <3>1. Screen' = Screen BY <2>1, <2>3, ScreenSame
    <3> QED BY <2>1, <2>3, <3>1 DEF ScreenInv
  <2> QED BY <2>1, <2>2, <2>3
<1>11. CASE TextPaint
  <2>1. Screen' = Screen BY <1>11, TextPaintEffect, ScreenSame
  <2> QED BY <1>11, <2>1, TextPaintEffect DEF ScreenInv
<1>12. CASE TextKey
  <2>1. /\ UNCHANGED <<setup, list, cards, cap, seen>> /\ loop.pc = "textkey"
        /\ clock' = [clock EXCEPT !.counting = FALSE]
    BY <1>12 DEF TextKey, gui
  <2>2. clock'.counting = FALSE BY <2>1 DEF Typing, ClockType
  <2>3. CASE ~loop'.running \/ loop'.dirty BY <2>3 DEF ScreenInv
  <2>4. CASE /\ ui' = ui /\ loop'.running = loop.running
             /\ loop'.dirty = (loop.dirty \/ clock.counting)
    <3>1. CASE loop.dirty \/ clock.counting BY <2>4, <3>1 DEF ScreenInv
    <3>2. CASE ~(loop.dirty \/ clock.counting)
      <4>1. clock'.counting = clock.counting BY <2>2, <3>2 DEF Typing, ClockType
      <4>2. Screen' = Screen BY <2>1, <2>4, <4>1, ScreenSame
      <4> QED BY <2>1, <2>4, <3>2, <4>2 DEF ScreenInv
    <3> QED BY <3>1, <3>2
  <2> QED BY <1>12, <2>3, <2>4, TextKeys
<1>13. CASE TextPoll
  <2>1. PICK l \in Lists :
          /\ list' = l /\ ui'.cursor = ui.cursor /\ (l = list => ui' = ui)
          /\ loop'.running = loop.running
          /\ UNCHANGED <<setup, cards, cap, clock, seen>>
          /\ loop'.dirty \/ (l = list /\ ~loop.dirty)
    BY <1>13, TextPollEffect
  <2>2. CASE loop'.dirty BY <2>2 DEF ScreenInv
  <2>3. CASE l = list /\ ~loop.dirty
    <3>1. Screen' = Screen BY <2>1, <2>3, ScreenSame
    <3> QED BY <2>1, <2>3, <3>1 DEF ScreenInv
  <2> QED BY <2>1, <2>2, <2>3
<1>14. CASE Leave
  <2>1. ~loop.running /\ Goto("done") BY <1>14 DEF Leave
  <2> QED BY <2>1, GotoType DEF ScreenInv, Pcs
<1>15. CASE UNCHANGED vars
  <2>1. Screen' = Screen BY <1>15, ScreenSame DEF vars
  <2> QED BY <1>15, <2>1 DEF ScreenInv, vars
<1> QED
  BY <1>1, <1>2, <1>3, <1>4, <1>5, <1>6, <1>7, <1>8, <1>9, <1>10, <1>11, <1>12,
     <1>13, <1>14, <1>15 DEF Next, Pass

(* A snapshot's overrides come with the last key.                            *)
LEMMA PendingKept ==
    ASSUME SnapInv, loop.running \/ loop.pc \notin {"top", "done"}, pending' = pending
    PROVE  SnapInv'
BY DEF SnapInv, Brought

LEMMA KeySnap == ASSUME Typing, SnapInv, Key PROVE SnapInv'
<1>1. loop.pc = "key" BY KeyEffect
<1>2. \A f \in Fields : ~Brought(f) BY <1>1 DEF SnapInv
<1>3. CASE pending' = pending BY <1>1, <1>3, PendingKept
<1>4. CASE \E g \in Fields : \E s : pending' = [pending EXCEPT ![g] = s] /\ s.kind # "snap"
  <2>1. \A f \in Fields : ~Brought(f)' BY <1>2, <1>4 DEF Brought, Typing
  <2> QED BY <2>1 DEF SnapInv, Brought
<1>5. CASE \E g, h \in Fields : \E s : /\ pending' = [pending EXCEPT ![g] = s, ![h] = s]
                                   /\ s.kind # "snap"
  <2>1. \A f \in Fields : ~Brought(f)' BY <1>2, <1>5 DEF Brought, Typing
  <2> QED BY <2>1 DEF SnapInv, Brought
<1>6. CASE EditKey
  <2>1. pending' = pending \/ pending' = [pending EXCEPT !["cmdline"] = Source("edit", Chosen, 0)]
    BY <1>6 DEF EditKey
  <2>2. "cmdline" \in Fields /\ Source("edit", Chosen, 0).kind # "snap" BY DEF Source, Fields
  <2> QED BY <2>1, <2>2, <1>3, <1>4
<1>7. CASE BrowseKey
  <2> DEFINE s == Source("file", None, 0)
  <2>1. \/ pending' = pending
        \/ pending' = [pending EXCEPT !["initrd"] = s]
        \/ pending' = [pending EXCEPT !["kernel"] = s]
        \/ pending' = [pending EXCEPT !["kernel"] = s, !["initrd"] = s]
    BY <1>7 DEF BrowseKey
  <2>2. "kernel" \in Fields /\ "initrd" \in Fields /\ s.kind # "snap" BY DEF Source, Fields
  <2> HIDE DEF s
  <2> QED BY <2>1, <2>2, <1>3, <1>4, <1>5
<1>8. CASE PanelKey
  <2>1. \/ pending' = pending
        \/ pending' = OfSnapshot(Chosen) /\ End("top", loop.action) /\ ui' = ui
    BY <1>8 DEF PanelKey
  <2>2. CASE pending' = OfSnapshot(Chosen) /\ End("top", loop.action) /\ ui' = ui
    <3>1. Chosen' = Chosen BY <2>2, KeyEffect DEF Chosen, At
    <3>2. ~loop'.running /\ loop'.pc = "top" BY <2>2, EndType, ActionKept DEF Pcs
    <3>3. \A f \in Fields : \/ pending'[f] = None
                            \/ pending'[f] = Source("snap", Chosen, cards.snap[Chosen])
      BY <2>2 DEF OfSnapshot
    <3>4. \A f \in Fields : pending'[f] = None
                            \/ (pending'[f] # None /\ pending'[f].kind = "snap"
                                /\ pending'[f].of = Chosen')
      BY <3>1, <3>3 DEF Source
    <3> QED BY <3>2, <3>4 DEF SnapInv, Brought
  <2> QED BY <2>1, <2>2, <1>3
<1> QED
  BY <1>3, <1>6, <1>7, <1>8 DEF Key, NoKey, CaptureKey, PanelsKey, OpenKey, LeaveKey,
     SideKey, ColumnKey, DigitKey, OtherKey

LEMMA StepSnap ==
    ASSUME Typing, ListInv, PcInv, SnapInv, [Next]_vars PROVE SnapInv'
<1>1. CASE Tick
  <2>1. UNCHANGED <<loop, list, ui, pending>> BY <1>1 DEF Tick
  <2> QED BY <2>1 DEF SnapInv, Brought, Chosen, At
<1>2. CASE Wake
  BY <1>2, PendingKept DEF Wake
<1>3. CASE Darken
  BY <1>3, PendingKept DEF Darken
<1>4. CASE FallAsleep
  BY <1>4, PendingKept DEF FallAsleep
<1>5. CASE Paint
  BY <1>5, PaintEffect, PendingKept
<1>6. CASE NoPointer
  BY <1>6, PendingKept DEF NoPointer
<1>7. ASSUME NEW up \in BOOLEAN, Wheel(up) PROVE SnapInv'
  BY <1>7, WheelEffect, PendingKept
<1>8. ASSUME NEW at \in Places, NEW moved \in BOOLEAN, NEW down \in BOOLEAN, Point(at, moved, down)
      PROVE  SnapInv'
  BY <1>8, PointEffect, PendingKept
<1>9. CASE Key
  BY <1>9, KeySnap
<1>10. CASE Late
  BY <1>10, LateEffect, PendingKept
<1>11. CASE TextPaint
  BY <1>11, TextPaintEffect, PendingKept
<1>12. CASE TextKey
  BY <1>12, PendingKept DEF TextKey, gui
<1>13. CASE TextPoll
  BY <1>13, TextPollEffect, PendingKept
<1>14. CASE Leave
  <2>1. /\ UNCHANGED <<list, ui, pending>> /\ ~loop.running /\ Goto("done")
    BY <1>14 DEF Leave, gui
  <2>2. ~loop'.running /\ loop'.pc = "done" BY <2>1, GotoType DEF Pcs, Typing, LoopType
  <2> QED BY <2>1, <2>2 DEF SnapInv, Brought, Chosen, At
<1>15. CASE UNCHANGED vars
  BY <1>15 DEF SnapInv, Brought, Chosen, At, vars
<1> QED
  BY <1>1, <1>2, <1>3, <1>4, <1>5, <1>6, <1>7, <1>8, <1>9, <1>10, <1>11, <1>12,
     <1>13, <1>14, <1>15 DEF Next, Pass

(* Where the user went, in the graphical menu.                               *)
LEMMA MeantKept ==
    ASSUME MeantInv, UNCHANGED <<setup, list, changes>>, WentTo PROVE MeantInv'
BY DEF MeantInv, WentTo, Chosen, At

LEMMA TextHas ==
    ASSUME PcInv, loop.pc \in {"text", "textkey"}, setup' = setup, MeantInv PROVE MeantInv'
BY DEF MeantInv, PcInv

LEMMA StepMeant ==
    ASSUME Typing, ListInv, PcInv, MeantInv, [Next]_vars PROVE MeantInv'
<1>1. CASE Tick
  BY <1>1, MeantKept DEF Tick, WentTo, history
<1>2. CASE Wake
  BY <1>2, MeantKept DEF Wake, WentTo, history
<1>3. CASE Darken
  BY <1>3, MeantKept DEF Darken, WentTo, history
<1>4. CASE FallAsleep
  BY <1>4, MeantKept DEF FallAsleep, WentTo, history
<1>5. CASE Paint
  BY <1>5, PaintEffect, MeantKept DEF WentTo
<1>6. CASE NoPointer
  BY <1>6, MeantKept DEF NoPointer, WentTo, history
<1>7. ASSUME NEW up \in BOOLEAN, Wheel(up) PROVE MeantInv'
  BY <1>7, WheelEffect, MeantKept
<1>8. ASSUME NEW at \in Places, NEW moved \in BOOLEAN, NEW down \in BOOLEAN, Point(at, moved, down)
      PROVE  MeantInv'
  BY <1>8, PointEffect, MeantKept
<1>9. CASE Key
  BY <1>9, KeyEffect, MeantKept
<1>10. CASE Late
  <2>1. PICK l \in Lists :
          /\ list' = l /\ changes' = changes \cup Changes(l)
          /\ ui'.sel = SelIn(l) /\ setup' = setup
          /\ meant' = IF meant = None THEN At(l, SelIn(l)) ELSE meant
    BY <1>10, LateEffect
  <2>2. Chosen' = At(l, SelIn(l)) BY <2>1 DEF Chosen, At
  <2>3. CASE meant = None BY <2>1, <2>2, <2>3 DEF MeantInv
  <2>4. CASE meant # None /\ ~setup.text /\ "shrank" \notin changes'
    <3>1. ~Lost(l) /\ "shrank" \notin changes BY <2>1, <2>4 DEF Changes
    <3>2. meant = At(list, ui.sel) BY <2>4, <3>1 DEF MeantInv, Chosen
    <3>3. ui.sel \in Nat /\ ui.sel < Len(list) /\ meant = list[ui.sel + 1]
      BY <2>4, <3>2 DEF At, Typing, UiType
    <3>4. CASE l = list
      <4>1. SelIn(l) = ui.sel BY <3>4 DEF SelIn
      <4> QED BY <2>1, <2>2, <2>4, <3>2, <3>4, <4>1 DEF MeantInv
    <3>5. CASE /\ l # list /\ Grew(l) /\ Len(l) = Len(list) + 1
               /\ \A i \in DOMAIN list : l[i] = list[i]
      <4>1. Len(list) \in Nat /\ ui.sel + 1 \in DOMAIN list BY <3>3 DEF Typing
      <4>2. SelIn(l) = ui.sel BY <3>3, <3>5, <4>1 DEF SelIn
      <4>3. At(l, ui.sel) = meant BY <3>3, <3>5, <4>1 DEF At
      <4> QED BY <2>1, <2>2, <2>4, <4>2, <4>3 DEF MeantInv
    <3> QED BY <3>1, <3>4, <3>5, Polled
  <2> QED BY <2>1, <2>3, <2>4 DEF MeantInv
<1>11. CASE TextPaint
  BY <1>11, TextPaintEffect, TextHas
<1>12. CASE TextKey
  BY <1>12, TextHas DEF TextKey
<1>13. CASE TextPoll
  BY <1>13, TextPollEffect, TextHas
<1>14. CASE Leave
  BY <1>14, MeantKept DEF Leave, WentTo, history
<1>15. CASE UNCHANGED vars
  BY <1>15, MeantKept DEF vars, WentTo
<1> QED
  BY <1>1, <1>2, <1>3, <1>4, <1>5, <1>6, <1>7, <1>8, <1>9, <1>10, <1>11, <1>12,
     <1>13, <1>14, <1>15 DEF Next, Pass

(* Where the user went, in the text menu.                                    *)
LEMMA GuiHas ==
    ASSUME PcInv, loop.pc \in {"top", "pointer", "key", "late"}, setup' = setup, TextInv
    PROVE  TextInv'
BY DEF TextInv, PcInv

LEMMA StepText ==
    ASSUME Typing, ListInv, PcInv, TextInv, [Next]_vars PROVE TextInv'
<1>1. CASE Tick
  <2>1. UNCHANGED <<setup, list, ui, loop, meant, changes>> BY <1>1 DEF Tick, history
  <2>2. clock'.counting = clock.counting BY <1>1 DEF Tick, Typing, ClockType
  <2> QED BY <2>1, <2>2 DEF TextInv, Chosen, At
<1>2. CASE Wake
  BY <1>2, GuiHas DEF Wake
<1>3. CASE Darken
  BY <1>3, GuiHas DEF Darken
<1>4. CASE FallAsleep
  BY <1>4, GuiHas DEF FallAsleep
<1>5. CASE Paint
  BY <1>5, PaintEffect, GuiHas
<1>6. CASE NoPointer
  BY <1>6, GuiHas DEF NoPointer
<1>7. ASSUME NEW up \in BOOLEAN, Wheel(up) PROVE TextInv'
  BY <1>7, WheelEffect, GuiHas
<1>8. ASSUME NEW at \in Places, NEW moved \in BOOLEAN, NEW down \in BOOLEAN, Point(at, moved, down)
      PROVE  TextInv'
  BY <1>8, PointEffect, GuiHas
<1>9. CASE Key
  BY <1>9, KeyEffect, GuiHas
<1>10. CASE Late
  BY <1>10, LateEffect, GuiHas
<1>11. CASE TextPaint
  <2>1. Chosen' = Chosen /\ At(list, ui.cursor)' = At(list, ui.cursor)
    BY <1>11, TextPaintEffect DEF Chosen, At
  <2> QED BY <1>11, <2>1, TextPaintEffect DEF TextInv
<1>12. CASE TextKey
  <2>1. /\ UNCHANGED <<setup, list, changes>> /\ loop.pc = "textkey"
        /\ clock' = [clock EXCEPT !.counting = FALSE]
    BY <1>12 DEF TextKey
  <2>2. clock'.counting = FALSE /\ loop.running BY <2>1 DEF Typing, ClockType, PcInv
  <2>3. Chosen' = At(list, ui'.sel) /\ At(list, ui.cursor)' = At(list, ui'.cursor)
    BY <2>1 DEF Chosen, At
  <2> SUFFICES ASSUME setup.text, changes = {} PROVE TextInv'
    BY <2>1 DEF TextInv
  <2>4. /\ ui.rows = Len(list) + 3 /\ ui.cursor < ui.rows
        /\ meant # None => meant = At(list, ui.cursor)
    BY <2>2 DEF TextInv
  <2>5. CASE ui' = ui /\ meant' = meant /\ loop'.running = FALSE /\ loop'.action # "boot"
    BY <2>1, <2>2, <2>4, <2>5 DEF TextInv
  <2>6. CASE /\ ui'.sel = ui.cursor /\ ui'.cursor = ui.cursor /\ ui'.rows = ui.rows
             /\ meant' = meant /\ loop'.running = FALSE
    BY <2>1, <2>2, <2>3, <2>4, <2>6 DEF TextInv
  <2>7. CASE /\ \E i \in DOMAIN list : ui'.sel = i - 1 /\ meant' = list[i]
             /\ ui'.cursor = ui.cursor /\ ui'.rows = ui.rows /\ loop'.running = FALSE
    <3>1. PICK i \in DOMAIN list : ui'.sel = i - 1 /\ meant' = list[i] BY <2>7
    <3>2. At(list, ui'.sel) = list[i] BY <3>1 DEF At, Typing
    <3> QED BY <2>1, <2>2, <2>3, <2>4, <2>7, <3>1, <3>2 DEF TextInv
  <2>8. CASE /\ ui'.cursor < ui.rows /\ ui'.rows = ui.rows /\ meant' = At(list, ui'.cursor)
             /\ loop'.running = loop.running
    BY <2>1, <2>2, <2>3, <2>4, <2>8 DEF TextInv
  <2>9. CASE ui' = ui /\ meant' = meant /\ loop'.running = loop.running
    BY <2>1, <2>2, <2>3, <2>4, <2>9 DEF TextInv
  <2> QED BY <1>12, <2>4, <2>5, <2>6, <2>7, <2>8, <2>9, TextKeys
<1>13. CASE TextPoll
  <2>1. PICK l \in Lists :
          /\ list' = l /\ changes' = changes \cup Changes(l)
          /\ ui'.cursor = ui.cursor /\ ui'.rows = ui.rows /\ (l = list => ui' = ui)
          /\ meant' = meant /\ loop'.running = loop.running /\ loop'.action = loop.action
          /\ UNCHANGED <<setup, clock>>
    BY <1>13, TextPollEffect
  <2> SUFFICES ASSUME setup.text, changes' = {} PROVE TextInv'
    BY <2>1 DEF TextInv
  <2>2. l = list BY <2>1, Polled DEF Changes
  <2>3. Chosen' = Chosen /\ At(list, ui.cursor)' = At(list, ui.cursor)
    BY <2>1, <2>2 DEF Chosen, At
  <2> QED BY <2>1, <2>2, <2>3 DEF TextInv
<1>14. CASE Leave
  <2>1. UNCHANGED <<setup, list, ui, clock, meant, changes>> /\ Goto("done")
    BY <1>14 DEF Leave, history
  <2>2. loop'.running = loop.running /\ loop'.action = loop.action BY <2>1, GotoType DEF Pcs
  <2>3. Chosen' = Chosen /\ At(list, ui.cursor)' = At(list, ui.cursor)
    BY <2>1 DEF Chosen, At
  <2> QED BY <2>1, <2>2, <2>3 DEF TextInv
<1>15. CASE UNCHANGED vars
  BY <1>15 DEF vars, TextInv, Chosen, At
<1> QED
  BY <1>1, <1>2, <1>3, <1>4, <1>5, <1>6, <1>7, <1>8, <1>9, <1>10, <1>11, <1>12,
     <1>13, <1>14, <1>15 DEF Next, Pass

-----------------------------------------------------------------------------
(* The inductive invariant holds in every reachable state.                   *)
THEOREM Invariant == Spec => []IInv
<1>1. Init => IInv BY InitInv
<1>2. IInv /\ [Next]_vars => IInv'
  BY StepTyping, StepPc, StepList, StepScreen, StepSnap, StepMeant, StepText DEF IInv
<1> QED BY <1>1, <1>2, PTL DEF Spec

(* The entry that boots is the one the user last went to, or the preselected *)
(* one, unless an entry in front of it was removed.                          *)
THEOREM SpecMeantBoots == Spec => []MeantBoots
<1>1. IInv => MeantBoots
  <2> SUFFICES ASSUME IInv, loop.pc = "done", loop.action = "boot", meant # None,
                      "shrank" \notin changes, setup.text => changes = {}
               PROVE  Booted = meant
    BY DEF MeantBoots
  <2>1. ~loop.running /\ Booted = Chosen BY DEF IInv, PcInv, Booted, Chosen
  <2>2. CASE setup.text BY <2>1, <2>2 DEF IInv, TextInv
  <2>3. CASE ~setup.text BY <2>1, <2>3 DEF IInv, MeantInv
  <2> QED BY <2>2, <2>3
<1> QED BY <1>1, Invariant, PTL

(* A snapshot's options, kernel or initrd boot with that snapshot's entry,   *)
(* and never beside an edit or a file picked in the browser.                 *)
THEOREM SpecSnapshotAlone == Spec => []SnapshotAlone
<1>1. IInv => SnapshotAlone
  BY DEF IInv, SnapInv, Brought, SnapshotAlone, Booted, Chosen
<1> QED BY <1>1, Invariant, PTL

(* Whenever a key is read and no drawing is due, the screen shows the state. *)
THEOREM SpecScreenTells == Spec => []ScreenTells
<1>1. IInv => ScreenTells BY DEF IInv, ScreenInv, ScreenTells
<1> QED BY <1>1, Invariant, PTL
=============================================================================
