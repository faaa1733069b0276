------------------------------ MODULE Desktop ------------------------------
(***************************************************************************)
(* The desktop under its user: the packets of drivers/input/mouse.c, the   *)
(* queue and the listeners of kernel/input/input_manager.c, the keys of    *)
(* drivers/input/keyboard.c and what they do to the windows (WindowList).  *)
(* Interrupt handlers are atomic, so each packet and each key is a step.   *)
(* Of desktop_draw this module has the two writes; DesktopDraw has all.    *)
(***************************************************************************)
EXTENDS WindowList

CONSTANTS
  INPUT_QUEUE_SIZE,  \* 64 in include/input_events.h
  MaxIds             \* bound: windows ever created

ASSUME DesktopAssumption ==
  /\ MAX_WINDOWS \in Nat \ {0} /\ INPUT_QUEUE_SIZE \in Nat \ {0} /\ MaxIds \in Nat
  /\ NewLook \in Look

VARIABLES
  desk,     \* g_desktop
  input,    \* g_input: queued events, the pointer, the left button
  driver    \* mouse.c: the left button in the last packet (prev_buttons)

deskVars == <<desk, input, driver>>

Init ==
  \E p \in Position :
    /\ desk = Create(desktop_init(p), Notepad)   \* kmain opens a notepad
    /\ input = [count |-> 0, pointer |-> p, left |-> FALSE]
    /\ driver = FALSE

-----------------------------------------------------------------------------
(* Mouse events, on the pair [input, desk].                                *)

\* input_post_event: a full queue drops the event.  Nobody polls the queue.
Accepts(s) == s.input.count < INPUT_QUEUE_SIZE

PostButton(s, button, pressed, target, look) ==
  IF ~Accepts(s) THEN s
  ELSE [input |-> [s.input EXCEPT !.count = @ + 1,
                                  !.left = IF button = "left" THEN pressed ELSE @],
        desk  |-> IF pressed THEN HandlePress(s.desk, s.input.pointer, button, target, look)
                  ELSE HandleRelease(s.desk, button)]

\* The event carries the coordinates from before the movement it reports.
PostMove(s, to, look) ==
  IF ~Accepts(s) THEN s
  ELSE [input |-> [s.input EXCEPT !.count = @ + 1, !.pointer = to],
        desk  |-> HandleMove(s.desk, s.input.pointer, s.input.left, look)]

\* A packet that moves the pointer is taken for nothing but a movement.
MovementHidesButtons(s, left, other, moved, to, look, target) ==
  IF moved THEN PostMove(s, to, look)
  ELSE IF left = driver THEN s ELSE PostButton(s, "left", left, target, look)

\* What a packet says of the right and the middle button, as far as there is
\* room for it.  They do the same, so one change alone is the right one's.
OtherChanges ==
  {c \in [{"right", "middle"} -> {"none", "press", "release"}] :
     /\ c["middle"] # "none" => c["right"] # "none"
     /\ input.count = INPUT_QUEUE_SIZE => c["right"] = "none"}

PostOther(s, change, target, look) ==
  IF change = "none" THEN s ELSE PostButton(s, "other", change = "press", target, look)

\* mouse_handler with a complete packet: the left button if it changed, the
\* right one, the middle one, then the movement.
mouse_handler(s, left, other, moved, to, look, target) ==
  LET s1 == IF left = driver THEN s ELSE PostButton(s, "left", left, target, look)
      s2 == PostOther(PostOther(s1, other["right"], target, look), other["middle"], target, look)
  IN  IF moved THEN PostMove(s2, to, look) ELSE s2

Packet(left, other, moved, to, look, target) ==
  LET s == mouse_handler([input |-> input, desk |-> desk], left, other, moved, to, look, target)
  IN  /\ s.desk.next_window_id <= MaxIds + 1
      /\ driver' = left
      /\ input' = s.input /\ desk' = s.desk

\* The state of the other buttons is left out, so any packet may report them.
\* Lost bytes make another packet out of one; packets are arbitrary here.
\* Without the left button no look can change.
MousePacket ==
  \E left \in BOOLEAN, other \in OtherChanges, moved \in BOOLEAN :
  \E to \in IF moved THEN Position ELSE {input.pointer}, look \in IF left THEN Look ELSE {NewLook} :
  \E target \in IF left /\ ~driver THEN TargetsOf(desk) ELSE [kind : {"wallpaper"}] :
    Packet(left, other, moved, to, look, target)

-----------------------------------------------------------------------------
(* Keys.  The keyboard handler calls desktop_handle_key and not the input  *)
(* manager.  Ctrl+Q, which halts the machine, ends a behaviour and is no   *)
(* step.                                                                   *)

Key(d) ==
  /\ desk' = d /\ d.next_window_id <= MaxIds + 1
  /\ UNCHANGED <<input, driver>>

\* 1, 2 and 3 close an open menu; F1, F2 and F3 leave it open.
DigitKey(a)    == Key(IF desk.start_menu_open THEN CloseMenu(Create(desk, a))
                      ELSE desktop_set_dirty(Create(desk, a)))
FunctionKey(a) == Key(desktop_set_dirty(Create(desk, a)))
StarterKey     == Key(desktop_set_dirty(
                    Create(Create(Create(desk, Notepad), Calculator), Sysinfo)))

\* Escape closes an open menu, and it opens a closed one as the launcher
\* keys do.
MenuKey  == Key(ToggleMenu(desk))
CycleKey == Key(desktop_set_dirty(desktop_cycle_focus(desk)))

CloseKey ==
  /\ desk.focused_window # 0
  /\ Key(desktop_close_window(desk, desk.focused_window))

\* Maximising, and keys that go to the application.
LookKey(look) ==
  /\ desk.focused_window \in Ids(desk.windows)
  /\ Key(Redress(desk, desk.focused_window, look))

RaiseKey ==
  /\ desk.focused_window \in Ids(desk.windows)
  /\ Key(desktop_focus_window(desk, desk.focused_window))

-----------------------------------------------------------------------------
(* What desktop_draw writes: it takes up the request, then it reads where  *)
(* the pointer is.                                                         *)

TakeUpRequest ==
  /\ desk.needs_redraw
  /\ desk' = [desk EXCEPT !.needs_redraw = FALSE]
  /\ UNCHANGED <<input, driver>>

ReadPointer ==
  /\ desk' = [desk EXCEPT !.mouse = input.pointer]
  /\ UNCHANGED <<input, driver>>

UserStep ==
  \/ MousePacket
  \/ \E a \in App : DigitKey(a) \/ FunctionKey(a)
  \/ StarterKey \/ MenuKey \/ CycleKey \/ CloseKey \/ RaiseKey
  \/ \E look \in Look : LookKey(look)

Next == UserStep \/ TakeUpRequest \/ ReadPointer

Spec == Init /\ [][Next]_deskVars

-----------------------------------------------------------------------------

(* The array of windows (desktop.h:67) is never overrun.                   *)
TypeOK ==
  /\ desk \in DesktopT /\ Len(desk.windows) <= MAX_WINDOWS
  /\ input \in [count : 0 .. INPUT_QUEUE_SIZE, pointer : Position, left : BOOLEAN]
  /\ driver \in BOOLEAN

(* The focus, which closing, creating, clicking and cycling all move       *)
(* (desktop.c:652-701), is on the topmost window; it is the only window    *)
(* drawn as focused, and with no window there is no focus.                 *)
FocusOnTop ==
  LET top == Len(desk.windows)
  IN  /\ desk.focused_window = IF top = 0 THEN 0 ELSE desk.windows[top].id
      /\ \A i \in 1 .. top : desk.windows[i].focused <=> i = top

(* A drag or a resize is of a window that is still open, though a key may  *)
(* close it in the middle (desktop.c:663-666), and lasts only while the    *)
(* left button is down (desktop.c:260-267).                                *)
InteractionIsReal ==
  desk.active_window # 0 => desk.active_window \in Ids(desk.windows) /\ input.left

(* No two open windows of an application write the same state, whatever    *)
(* was opened and closed before (notepad.c:14-31).                         *)
OwnState ==
  \A i, j \in DOMAIN desk.windows :
    LET v == desk.windows[i]  w == desk.windows[j]
    IN  v.app = w.app /\ v.data = w.data /\ v.data # NoState => i = j

(* No step changes the order of two windows unless it brings one of them   *)
(* to the top (desktop_bring_to_front, desktop.c:137-145), and a window    *)
(* never loses its state or its identity on the way.                       *)
ZOrderStable ==
  [][\A i, j \in DOMAIN desk.windows, k, l \in DOMAIN desk'.windows :
       /\ desk'.windows[k].id = desk.windows[i].id
       /\ desk'.windows[l].id = desk.windows[j].id
       => /\ i < j /\ l < k => k = Len(desk'.windows)
          /\ desk'.windows[k].data = desk.windows[i].data]_deskVars

(* The buttons that the listeners saw are those that the driver compares   *)
(* the next packet with (mouse.c:151-183), while the queue, which nobody   *)
(* polls, has room.  Once it is full (input_manager.c:61-71) they may      *)
(* differ for ever.                                                        *)
ListenersSeeButtons ==
  input.count < INPUT_QUEUE_SIZE => driver = input.left
=============================================================================
