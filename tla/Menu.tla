-------------------------------- MODULE Menu --------------------------------
(* The two boot menus: gui_run with its pointer, panels, screensaver,        *)
(* capture and hot-plug, and text_menu_run.  One pass of gui_run's loop is   *)
(* four steps - the saver and the drawing, the pointer, a key, and what the  *)
(* loop does last - because its early `continue's skip some of them.         *)
(* Positions count from 0, as in the code.                                   *)
EXTENDS Naturals, Sequences, FiniteSets, Functions, SequencesExt

CONSTANTS
    Setups,      \* boot.conf and the machine (records, see MCMenu)
    Entries,     \* all entries that can be in the list
    Removable,   \* those whose volume may be pulled
    Deploys,     \* an entry -> how many deployments it has
    DeployDefault, \* an entry -> the deployment booted by default
    Snaps,       \* an entry -> its snapshots: sets of what they override
    None,
    Plugs        \* bound: hot-plug changes in a session

Fields == {"cmdline", "kernel", "initrd"}
Actions == <<"shutdown", "reboot", "firmware", "retry", "menu", "rescue">>
Powers == {"shutdown", "reboot", "firmware"}
(* VISOR_ACTION_SHUTDOWN + i, which may be a number nobody knows.            *)
PowerAction(i) == IF i < Len(Actions) THEN Actions[i + 1] ELSE "none"

ASSUME MenuAssumption ==
    /\ None \notin Entries /\ Removable \subseteq Entries
    /\ \A s \in Setups :
          /\ s.text \in BOOLEAN /\ s.perPage \in Nat \ {0} /\ s.default \in Nat
          /\ s.start \in Seq(Entries)
          /\ \A i, j \in DOMAIN s.start : s.start[i] = s.start[j] => i = j
    /\ \A e \in Entries : Deploys[e] > 0 => DeployDefault[e] < Deploys[e]

VARIABLES
    setup,
    list,        \* state->entries
    loop,        \* pc, running, action, dirty (need_redraw)
    ui,          \* what the keys move: selected, focus, panels, editor, browser
    cards,       \* deploy_sel, snap_sel and the deployment whose fields each
                 \* entry carries
    pending,     \* override_*: where each override comes from
    page,        \* page_anim, prev_page, the entries with a hit box
    cap,         \* cap_mode and the toast
    clock,       \* countdown, screensaver and idle time
    btn,         \* prev_btn
    plugs,       \* hot-plug changes so far
    seen,        \* history: what is on the screen
    meant,       \* history: the entry the user last went to
    changes      \* history: "grew" and "shrank"

vars == <<setup, list, loop, ui, cards, pending, page, cap, clock, btn, plugs, seen,
          meant, changes>>
history == <<meant, changes>>

At(l, i) == IF i < Len(l) THEN l[i + 1] ELSE None
Chosen == At(list, ui.sel)
Counts == setup.timeout = "counts"
Dark == clock.saver # "awake"
Overlay == cap.mode # "off" \/ cap.toast
Source(kind, e, n) == [kind |-> kind, of |-> e, n |-> n]
NoEdits == [f \in Fields |-> None]

Screen ==
    IF setup.text
    THEN [list |-> list, at |-> ui.cursor, counting |-> clock.counting]
    ELSE [list |-> list, at |-> ui, counting |-> clock.counting, cap |-> cap,
          card |-> IF Chosen = None THEN None
                   ELSE [f \in DOMAIN cards |-> cards[f][Chosen]]]

Init ==
    /\ setup \in Setups
    /\ list = setup.start
    /\ loop = [pc |-> IF setup.text THEN "text" ELSE "top",
               running |-> setup.timeout # "now", action |-> "boot", dirty |-> TRUE]
    /\ ui = [sel |-> IF setup.default < Len(setup.start) THEN setup.default ELSE 0,
             focus |-> "entries", power |-> 0, panel |-> "none", fade |-> "no",
             next |-> "none", editing |-> FALSE, browse |-> FALSE,
             cursor |-> IF setup.default < Len(setup.start) THEN setup.default ELSE 0,
             rows |-> Len(setup.start) + 3]
    /\ cards = [dep |-> DeployDefault, fields |-> DeployDefault,
                snap |-> [e \in Entries |-> 0]]
    /\ pending = NoEdits
    /\ page = [moving |-> FALSE, prev |-> None, hits |-> {}]
    /\ cap = [mode |-> "off", toast |-> FALSE]
    /\ clock = [counting |-> Counts, left |-> IF Counts THEN 2 ELSE 0, idle |-> 0,
                saver |-> "awake"]
    /\ btn = FALSE /\ plugs = 0 /\ seen = None
    /\ meant = Chosen /\ changes = {}

(* Seconds pass.                                                             *)
Tick ==
    /\ loop.pc # "done"
    /\ LET left == IF clock.counting /\ clock.left > 0 THEN clock.left - 1 ELSE clock.left
           idle == IF setup.saver /\ clock.idle < 2 THEN clock.idle + 1 ELSE clock.idle
       IN  clock' = [clock EXCEPT !.left = left, !.idle = idle]
    /\ UNCHANGED <<setup, list, loop, ui, cards, pending, page, cap, btn, plugs, seen,
                   history>>

Goto(l) == loop' = [loop EXCEPT !.pc = l]
Redraw(l) == loop' = [loop EXCEPT !.pc = l, !.dirty = TRUE]
(* A key that ends the menu in the middle of a pass.                         *)
End(l, action) == loop' = [loop EXCEPT !.pc = l, !.running = FALSE, !.action = action]

-----------------------------------------------------------------------------
(* gui_draw_menu: the page of the selected entry and the boxes the pointer   *)
(* can hit; while a page slides in the boxes of the old one stay.            *)
Hits(p) == {i \in p * setup.perPage .. (p + 1) * setup.perPage - 1 : i < Len(list)}
Drawn(finished) ==
    LET p == ui.sel \div setup.perPage
        starts == setup.anim /\ page.prev # None /\ p # page.prev /\ ~page.moving
    IN  IF list = <<>> THEN page
        ELSE IF starts THEN [page EXCEPT !.moving = TRUE]
        ELSE IF page.moving
        THEN [page EXCEPT !.moving = ~finished, !.prev = IF finished THEN p ELSE @]
        ELSE [moving |-> FALSE, prev |-> p, hits |-> Hits(p)]

(* ss_input_pending drains the keyboard and the pointer: the wake-up input   *)
(* does nothing else.                                                        *)
Wake ==
    /\ loop.pc = "top" /\ loop.running /\ Dark
    /\ clock' = [clock EXCEPT !.saver = "awake", !.idle = 0, !.left = IF Counts THEN 2 ELSE 0]
    /\ page' = Drawn(FALSE)
    /\ loop' = [loop EXCEPT !.dirty = FALSE] /\ seen' = Screen
    /\ UNCHANGED <<setup, list, ui, cards, pending, cap, btn, plugs, history>>

Darken ==
    /\ loop.pc = "top" /\ loop.running
    /\ clock.saver = "dim" /\ setup.blanks /\ clock.idle = 2
    /\ clock' = [clock EXCEPT !.saver = "blank"]
    /\ UNCHANGED <<setup, list, loop, ui, cards, pending, page, cap, btn, plugs, seen,
                   history>>

(* ss_tick.  Faulty: a running countdown does not count as activity.         *)
IdleForgetsCountdown ==
    setup.saver /\ clock.idle > 0 /\ ~(ui.editing \/ ui.browse \/ Overlay)
Idle ==
    setup.saver /\ clock.idle > 0
    /\ ~(clock.counting \/ ui.editing \/ ui.browse \/ Overlay)

FallAsleep ==
    /\ loop.pc = "top" /\ loop.running /\ ~Dark /\ Idle
    /\ clock' = [clock EXCEPT !.saver = "dim"]
    /\ UNCHANGED <<setup, list, loop, ui, cards, pending, page, cap, btn, plugs, seen,
                   history>>

(* Drawing.  A frame that cannot be encoded ends the recording, and before   *)
(* the loop goes on the file of a finished one has been written.             *)
Paint ==
    /\ loop.pc = "top" /\ loop.running /\ ~Dark /\ ~Idle
    /\ IF loop.dirty \/ cap.mode = "recording"
       THEN \E finished, encoded \in BOOLEAN :
            /\ page' = Drawn(finished)
            /\ cap' = IF cap.mode = "saving" \/ (cap.mode = "recording" /\ ~encoded)
                      THEN [mode |-> "off", toast |-> TRUE] ELSE cap
            /\ loop' = [loop EXCEPT !.pc = "pointer", !.dirty = page'.moving]
       ELSE Goto("pointer") /\ UNCHANGED <<page, cap>>
    /\ clock' = IF clock.counting \/ ui.editing \/ ui.browse \/ Overlay
                THEN [clock EXCEPT !.idle = 0] ELSE clock
    /\ UNCHANGED <<setup, list, ui, cards, pending, btn, plugs, history>>
    /\ seen' = IF loop.dirty \/ cap.mode = "recording" THEN Screen' ELSE seen

-----------------------------------------------------------------------------
(* poll_pointer: the wheel, and a pointer that moves or presses over a place *)
(* of the screen - the box of an entry, a power action, or neither.          *)
Select(i) == [ui EXCEPT !.sel = i, !.focus = "entries"]
PowerAt(p) == [ui EXCEPT !.focus = "power", !.power = p]
Places == [what : {"entry"}, n : page.hits] \cup [what : {"power"}, n : 0..2]
          \cup {[what |-> "nothing", n |-> 0]}

(* apply_deploy: the entry takes the fields of its chosen deployment.        *)
Deploy(e, d) == [cards EXCEPT !.dep[e] = d, !.fields[e] = d]
Snap(e, n) == [cards EXCEPT !.snap[e] = n]
Turned(e, up) ==
    LET d == cards.dep[e]  n == cards.snap[e]
    IN  IF e = None THEN cards
        ELSE IF ui.panel = "snaps"
        THEN IF up /\ n + 1 < Len(Snaps[e]) THEN Snap(e, n + 1)
             ELSE IF ~up /\ n > 0 THEN Snap(e, n - 1) ELSE cards
        ELSE IF up /\ d + 1 < Deploys[e] THEN Deploy(e, d + 1)
             ELSE IF ~up /\ d > 0 THEN Deploy(e, d - 1) ELSE cards

NoPointer ==
    /\ loop.pc = "pointer" /\ Goto("key")
    /\ btn' = IF ui.editing \/ ~setup.mouse THEN btn ELSE FALSE
    /\ UNCHANGED <<setup, list, ui, cards, pending, page, cap, clock, plugs, seen, history>>

Wheel(up) ==
    /\ loop.pc = "pointer" /\ setup.mouse /\ ~ui.editing
    /\ btn' = FALSE
    /\ LET next == IF up /\ ui.sel + 1 < Len(list) THEN ui.sel + 1
                   ELSE IF ~up /\ ui.sel > 0 THEN ui.sel - 1 ELSE ui.sel
       IN  /\ cards' = IF ui.panel # "none" THEN Turned(Chosen, up) ELSE cards
           /\ ui' = IF ui.panel = "none" /\ ~ui.browse /\ next # ui.sel
                    THEN Select(next) ELSE ui
           /\ meant' = IF ui' # ui THEN At(list, next) ELSE meant
    /\ LET redraws == <<ui', cards'>> # <<ui, cards>>
       IN  /\ loop' = [loop EXCEPT !.pc = "key", !.dirty = @ \/ redraws]
           /\ clock' = IF redraws THEN [clock EXCEPT !.idle = 0] ELSE clock
    /\ UNCHANGED <<setup, list, pending, page, cap, plugs, seen, changes>>

Point(at, moved, down) ==
    /\ loop.pc = "pointer" /\ setup.mouse /\ ~ui.editing
    /\ btn' = down
    /\ LET held == ui.panel # "none" \/ ui.browse
           clicked == ~held /\ down /\ ~btn /\ at.what # "nothing"
           hovers == ~held /\ (moved \/ (clicked /\ at.what = "entry"))
       IN  /\ ui' = IF ~hovers \/ at.what = "nothing" THEN ui
                    ELSE IF at.what = "entry" THEN Select(at.n) ELSE PowerAt(at.n)
           /\ meant' = IF hovers /\ at.what = "entry" THEN At(list, at.n) ELSE meant
           /\ clock' = [clock EXCEPT !.counting = @ /\ (held \/ ~moved),
                                     !.idle = IF moved \/ clicked THEN 0 ELSE @]
           /\ IF clicked
              THEN End("key", IF at.what = "entry" THEN "boot" ELSE PowerAction(at.n))
              ELSE loop' = [loop EXCEPT !.pc = "key", !.dirty =
                               @ \/ ui' # ui \/ clock'.counting # clock.counting]
    /\ UNCHANGED <<setup, list, cards, pending, page, cap, plugs, seen, changes>>

-----------------------------------------------------------------------------
(* The keyboard.  Any key stops the countdown.                               *)
Pressed ==
    /\ loop.pc = "key"
    /\ clock' = [clock EXCEPT !.counting = FALSE, !.idle = 0]
    /\ UNCHANGED <<setup, list, page, btn, plugs, seen, changes>>

NoKey ==
    /\ loop.pc = "key" /\ Goto("late")
    /\ UNCHANGED <<setup, list, ui, cards, pending, page, cap, clock, btn, plugs, seen,
                   history>>

(* F6: a screenshot.  F10: the recording, which may not get its memory, or   *)
(* its end.                                                                  *)
CaptureKey ==
    /\ Pressed /\ setup.capture
    /\ \/ cap' = IF cap.mode = "off" THEN [cap EXCEPT !.toast = TRUE] ELSE cap
       \/ cap.mode = "off" /\ cap' \in {[mode |-> "count", toast |-> FALSE],
                                         [mode |-> "off", toast |-> TRUE]}
       \/ cap.mode # "off" /\ cap' = [mode |-> "off", toast |-> TRUE]
    /\ Redraw("top")
    /\ UNCHANGED <<ui, cards, pending, meant>>

(* editor_key: Enter keeps the edited options, and the menu goes on.         *)
EditKey ==
    /\ Pressed /\ ui.editing
    /\ \/ ui' = [ui EXCEPT !.editing = FALSE]
          /\ pending' \in {pending, [pending EXCEPT !.cmdline = Source("edit", Chosen, 0)]}
       \/ UNCHANGED <<ui, pending>>
    /\ Redraw("top")
    /\ UNCHANGED <<cards, cap, meant>>

(* The browser: what it picks is the Browser module's business.              *)
BrowseKey ==
    /\ Pressed /\ ui.browse /\ ~ui.editing
    /\ \/ UNCHANGED <<ui, pending>> /\ Redraw("top")
       \/ /\ ui' = [ui EXCEPT !.browse = FALSE]
          /\ \/ pending' \in {pending, [pending EXCEPT !.initrd = Source("file", None, 0)]}
                /\ Redraw("top")
             \/ /\ pending' \in {[pending EXCEPT !.kernel = Source("file", None, 0)],
                                 [pending EXCEPT !.kernel = Source("file", None, 0),
                                                 !.initrd = Source("file", None, 0)]}
                /\ End("top", loop.action)
    /\ UNCHANGED <<cards, cap, meant>>

(* v_cycle_next and v_cycle_engage: entry, deployments, snapshots, entry.    *)
NextPanel(e) ==
    IF e = None THEN "none"
    ELSE IF ui.panel = "none" /\ Deploys[e] > 1 THEN "deploys"
    ELSE IF ui.panel # "snaps" /\ Snaps[e] # <<>> THEN "snaps" ELSE "none"
Engage(what) ==
    /\ cards' = CASE what = ui.panel \/ Chosen = None -> cards
                  [] what = "deploys" -> Deploy(Chosen, DeployDefault[Chosen])
                  [] what = "snaps" -> Snap(Chosen, 0)
                  [] OTHER -> cards
    /\ ui' = IF what = ui.panel THEN ui
             ELSE IF ~setup.anim THEN [ui EXCEPT !.panel = what, !.fade = "no", !.next = "none"]
             ELSE IF ui.panel = "none" THEN [ui EXCEPT !.panel = what, !.fade = "in"]
             ELSE [ui EXCEPT !.fade = "out", !.next = what]

(* Faulty: an edited command line survives a snapshot that brings none.      *)
OfSnapshotKeepsEdit(e) ==
    [f \in Fields |-> IF f \in Snaps[e][cards.snap[e] + 1]
                      THEN Source("snap", e, cards.snap[e]) ELSE pending[f]]
(* Enter on a snapshot replaces every override by the snapshot's.            *)
OfSnapshot(e) ==
    [f \in Fields |-> IF f \in Snaps[e][cards.snap[e] + 1]
                      THEN Source("snap", e, cards.snap[e]) ELSE None]
(* Esc goes back to the default deployment.                                  *)
Left(e) == IF ui.panel = "deploys" /\ e # None THEN Deploy(e, DeployDefault[e]) ELSE cards

PanelOpen == ui.panel # "none" /\ ~ui.editing /\ ~ui.browse
PanelKey ==
    /\ Pressed /\ PanelOpen
    /\ UNCHANGED <<cap, meant>>
    /\ \/ Engage(NextPanel(Chosen)) /\ Redraw("top") /\ UNCHANGED pending
       \/ /\ pending' = IF ui.panel = "snaps" /\ Chosen # None /\ Snaps[Chosen] # <<>>
                        THEN OfSnapshot(Chosen) ELSE pending
          /\ End("top", loop.action) /\ UNCHANGED <<ui, cards>>
       \/ /\ cards' = Left(Chosen)
          /\ ui' = IF setup.center \/ ~setup.anim
                   THEN [ui EXCEPT !.panel = "none", !.fade = "no", !.next = "none"]
                   ELSE [ui EXCEPT !.fade = "out", !.next = "none"]
          /\ Redraw("top") /\ UNCHANGED pending
       \/ \E up \in BOOLEAN : cards' = Turned(Chosen, up)
          /\ loop' = [loop EXCEPT !.pc = "top", !.dirty = TRUE]
          /\ UNCHANGED <<ui, pending>>
       \/ \E p \in Powers : End("top", p) /\ UNCHANGED <<ui, cards, pending>>

-----------------------------------------------------------------------------
(* The keys of the menu itself: one action per group.                        *)
MenuPressed ==
    /\ Pressed /\ ui.panel = "none" /\ ~ui.editing /\ ~ui.browse
    /\ UNCHANGED cap

PanelsKey ==
    /\ MenuPressed /\ ui.focus = "entries" /\ NextPanel(Chosen) # "none"
    /\ Engage(NextPanel(Chosen)) /\ Redraw("late")
    /\ UNCHANGED <<pending, meant>>

OpenKey ==
    /\ MenuPressed
    /\ \/ ui.focus = "entries" /\ setup.editor /\ list # <<>>
          /\ ui' = [ui EXCEPT !.editing = TRUE]
       \/ setup.volumes /\ ui' = [ui EXCEPT !.browse = TRUE]
    /\ Redraw("late")
    /\ UNCHANGED <<cards, pending, meant>>

LeaveKey ==
    /\ MenuPressed
    /\ \/ \E a \in Powers \cup {"rescue"} : End("late", a)
       \/ End("late", IF ui.focus = "power" THEN PowerAction(ui.power) ELSE loop.action)
    /\ UNCHANGED <<ui, cards, pending, meant>>

SideKey(right) ==
    LET n == Len(list)
        to == IF n = 0 THEN ui.sel
              ELSE IF right THEN IF ui.sel + 1 < n THEN ui.sel + 1 ELSE 0
              ELSE IF ui.sel > 0 THEN ui.sel - 1 ELSE n - 1
    IN  /\ MenuPressed
        /\ ui' = Select(to) /\ meant' = At(list, to)
        /\ Redraw("late")
        /\ UNCHANGED <<cards, pending>>

(* Up and Down: the power column lies above the entries or below them.       *)
ColumnKey(down) ==
    LET inColumn == ui.focus = "power"
        into == down # setup.powerTop
        first == IF setup.powerTop THEN 2 ELSE 0
        last == IF setup.powerTop THEN 0 ELSE 2
        forth == IF setup.powerTop THEN ui.power - 1 ELSE ui.power + 1
        back == IF setup.powerTop THEN ui.power + 1 ELSE ui.power - 1
    IN  /\ MenuPressed
        /\ ui' = IF into THEN IF ~inColumn THEN PowerAt(first)
                              ELSE IF ui.power # last THEN PowerAt(forth) ELSE ui
                 ELSE IF ~inColumn THEN ui
                      ELSE IF ui.power # first THEN PowerAt(back)
                      ELSE [ui EXCEPT !.focus = "entries"]
        /\ Redraw("late")
        /\ UNCHANGED <<cards, pending, meant>>

DigitKey(i) ==
    /\ MenuPressed /\ i < Len(list)
    /\ ui' = Select(i) /\ meant' = At(list, i)
    /\ End("late", loop.action)
    /\ UNCHANGED <<cards, pending>>

OtherKey ==
    /\ MenuPressed
    /\ loop' = [loop EXCEPT !.pc = "late", !.dirty = @ \/ clock.counting]
    /\ UNCHANGED <<ui, cards, pending, meant>>

Key == \/ NoKey \/ CaptureKey \/ EditKey \/ BrowseKey \/ PanelKey \/ PanelsKey \/ OpenKey
       \/ LeaveKey \/ OtherKey
       \/ \E yes \in BOOLEAN : SideKey(yes) \/ ColumnKey(yes)
       \/ \E i \in 0..8 : DigitKey(i)

-----------------------------------------------------------------------------
(* What hot-plug makes of the list: a volume's entries leave, and a found    *)
(* entry is appended.                                                        *)
Lists ==
    LET kept == {list} \cup {RemoveAt(list, i) :
                               i \in {j \in DOMAIN list : list[j] \in Removable}}
        new == {<<>>} \cup {<<e>> : e \in Removable \ Range(list)}
    IN  {list} \cup IF plugs = Plugs THEN {} ELSE {l \o n : l \in kept, n \in new}
Grew(l) == Len(l) > Len(list) /\ Range(list) \subseteq Range(l)
Lost(l) == ~(Range(list) \subseteq Range(l))
(* gui_entries_added, gui_entries_removed, and both at once.                 *)
(* Faulty: a new entry takes the selection.                                  *)
SelInTakesNew(l) == IF l = list THEN ui.sel ELSE IF Grew(l) THEN Len(list)
                    ELSE IF ui.sel >= Len(l) /\ l # <<>> THEN Len(l) - 1 ELSE ui.sel
SelIn(l) == IF l = list THEN ui.sel
            ELSE IF Grew(l) THEN IF ui.sel >= Len(l) THEN 0 ELSE ui.sel
            ELSE IF ui.sel >= Len(l) /\ l # <<>> THEN Len(l) - 1 ELSE ui.sel
Changes(l) == (IF Lost(l) THEN {"shrank"} ELSE {}) \cup (IF Grew(l) THEN {"grew"} ELSE {})
Listed(l) ==
    /\ list' = l /\ plugs' = IF l = list THEN plugs ELSE plugs + 1
    /\ changes' = changes \cup Changes(l)

(* The end of a pass: a panel's fade, the hot-plug poll with its drawing,    *)
(* the countdown, the recording's clock.                                     *)
Faded(ends) ==
    IF ui.fade = "no" \/ ~ends THEN ui
    ELSE IF ui.fade = "in" THEN [ui EXCEPT !.fade = "no"]
    ELSE [ui EXCEPT !.panel = ui.next, !.next = "none",
                    !.fade = IF ui.next = "none" THEN "no" ELSE "in"]
CapTick ==
    CASE cap.mode = "count" -> {cap, [cap EXCEPT !.mode = "recording"]}
      [] cap.mode = "recording" -> {cap, [cap EXCEPT !.mode = "saving"]}
      [] OTHER -> {cap, [cap EXCEPT !.toast = FALSE]}
MayPoll == setup.hotplug /\ ~ui.editing /\ ~page.moving /\ ~Overlay
(* Faulty: only a changed number of entries is drawn again.                  *)
DirtyIfCounted(polled) == loop.dirty \/ ui.fade # "no" \/ Len(list') # Len(list)
DirtyAfter(polled) == loop.dirty \/ ui.fade # "no" \/ polled
Late ==
    /\ loop.pc = "late"
    /\ \E ends, polled \in BOOLEAN, c \in CapTick :
       /\ polled => MayPoll
       /\ ui.fade = "no" => ~ends
       /\ \E l \in IF polled THEN Lists ELSE {list} :
            /\ Listed(l)
            /\ ui' = [Faded(ends) EXCEPT !.sel = SelIn(l)]
            /\ meant' = IF meant = None THEN At(l, SelIn(l)) ELSE meant
       /\ page' = IF polled THEN Drawn(FALSE) ELSE page
       /\ cap' = IF Overlay THEN c ELSE cap
       /\ loop' = [loop EXCEPT !.pc = "top",
                     !.running = @ /\ ~(clock.counting /\ clock.left = 0),
                     !.dirty = DirtyAfter(polled) \/ cap' # cap]
    /\ UNCHANGED <<setup, cards, pending, clock, btn, seen>>

-----------------------------------------------------------------------------
(* text_menu_run: its cursor runs over the entries and the power actions;    *)
(* rows is counted once, at the start.                                       *)
gui == <<cards, pending, page, cap, btn>>
TextPaint ==
    /\ loop.pc = "text" /\ loop.running
    /\ IF clock.counting /\ clock.left = 0
       THEN loop' = [loop EXCEPT !.running = FALSE] /\ UNCHANGED seen
       ELSE /\ loop' = [loop EXCEPT !.pc = "textkey", !.dirty = FALSE]
            /\ seen' = IF loop.dirty THEN Screen ELSE seen
    /\ UNCHANGED <<setup, list, ui, gui, clock, plugs, history>>

TextKey ==
    /\ loop.pc = "textkey"
    /\ clock' = [clock EXCEPT !.counting = FALSE]
    /\ UNCHANGED <<setup, list, gui, plugs, seen, changes>>
    /\ \/ \E a \in Powers \cup {"rescue"} : End("text", a) /\ UNCHANGED <<ui, meant>>
       \/ IF ui.cursor >= Len(list)
          THEN End("text", PowerAction(ui.cursor - Len(list))) /\ UNCHANGED <<ui, meant>>
          ELSE End("text", loop.action) /\ ui' = Select(ui.cursor) /\ UNCHANGED meant
       \/ \E i \in DOMAIN list : /\ i <= 9 /\ ui' = Select(i - 1) /\ meant' = list[i]
                                 /\ End("text", loop.action)
       \/ \E up \in BOOLEAN :
             LET to == IF up THEN IF ui.cursor > 0 THEN ui.cursor - 1 ELSE ui.rows - 1
                       ELSE IF ui.cursor + 1 < ui.rows THEN ui.cursor + 1 ELSE 0
             IN  ui' = [ui EXCEPT !.cursor = to] /\ meant' = At(list, to) /\ Redraw("text")
       \/ /\ loop' = [loop EXCEPT !.pc = "text", !.dirty = @ \/ clock.counting]
          /\ UNCHANGED <<ui, meant>>

TextPoll ==
    /\ loop.pc = "textkey"
    /\ \E l \in IF setup.hotplug THEN Lists ELSE {list} :
         /\ Listed(l)
         /\ ui' = [ui EXCEPT !.sel = IF l # list /\ @ >= Len(l) /\ l # <<>> THEN Len(l) - 1 ELSE @]
         /\ loop' = [loop EXCEPT !.pc = "text", !.dirty = @ \/ l # list]
    /\ UNCHANGED <<setup, gui, clock, seen, meant>>

-----------------------------------------------------------------------------
Leave ==
    /\ loop.pc \in {"top", "text"} /\ ~loop.running
    /\ Goto("done")
    /\ UNCHANGED <<setup, list, ui, gui, clock, plugs, seen, history>>

Pass == \/ Wake \/ Darken \/ FallAsleep \/ Paint
        \/ NoPointer \/ (\E up \in BOOLEAN : Wheel(up))
        \/ (\E at \in Places, moved, down \in BOOLEAN : Point(at, moved, down))
        \/ Key \/ Late \/ TextPaint \/ TextKey \/ TextPoll \/ Leave
Next == Tick \/ Pass
(* The loop goes round and time passes; nobody has to press anything.        *)
Fairness == WF_vars(Pass) /\ WF_vars(Tick)
Spec == Init /\ [][Next]_vars /\ Fairness

(* What gui_run and text_menu_run return.                                    *)
Booted == IF loop.action = "boot" THEN At(list, ui.sel) ELSE None

-----------------------------------------------------------------------------
(* The entry that boots is the one the user last went to, or the preselected *)
(* one: no panel, key, wheel, fade or drawing and no entry that hot-plug     *)
(* adds moves the choice.  (Entries removed in front of it do, and in the    *)
(* text menu an added one moves the power actions; both are excluded here.)  *)
MeantBoots ==
    loop.pc = "done" /\ loop.action = "boot" /\ meant # None
    /\ "shrank" \notin changes /\ (setup.text => changes = {})
    => Booted = meant

(* What is overridden comes from one place: a snapshot's options, kernel or  *)
(* initrd boot with that snapshot's entry and never beside options edited    *)
(* for a boot or a file picked in the browser.                               *)
SnapshotAlone ==
    loop.pc = "done" /\ loop.action = "boot"
    => \A f, g \in Fields :
          pending[f] # None /\ pending[f].kind = "snap"
          => pending[f].of = Booted /\ (pending[g] = None \/ pending[g].kind = "snap")

(* Options edited with `e' boot the entry they were edited for: Enter in the *)
(* editor "boots with the change (one-shot, not saved)".                     *)
EditedBoots ==
    loop.pc = "done" /\ loop.action = "boot"
    /\ pending.cmdline # None /\ pending.cmdline.kind = "edit"
    => Booted = pending.cmdline.of

(* Whenever a key is read and no drawing is due, the screen shows the entry, *)
(* panel, deployment and snapshot that Enter would boot.                     *)
ScreenTells ==
    loop.pc \in {"key", "textkey"} /\ loop.running /\ ~loop.dirty => seen = Screen

(* A countdown that nobody stops boots: neither the screensaver, hot-plug,   *)
(* a page that slides nor a recording keeps the menu up for ever.            *)
UnattendedBoots == clock.counting ~> (~clock.counting \/ loop.pc = "done")
=============================================================================
