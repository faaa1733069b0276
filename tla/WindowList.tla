----------------------------- MODULE WindowList -----------------------------
(***************************************************************************)
(* The window manager of kernel/ux/desktop.c as operators on its state     *)
(* g_desktop: windows from the bottom to the top, the focus, the window    *)
(* under interaction, the start menu and the request to draw.  Where a     *)
(* window is, how large it is and what its application shows is one value, *)
(* its look; which window and region a press hits is an argument.          *)
(***************************************************************************)
EXTENDS Integers, SequencesExt

CONSTANTS
  MAX_WINDOWS,   \* 8 in include/desktop.h; also the states each application has
  Notepad, Calculator, Sysinfo,
  Look,          \* what a window may look like
  NewLook,       \* what it looks like when it is created
  Position       \* where the pointer may be

App == {Notepad, Calculator, Sysinfo}

\* A press on the title bar or on the resize grip grips the window.
Hit == {"client", "grip", "maximize", "close"}

NoState == -1

WindowT ==
  [id : Nat \ {0}, app : App, data : 0 .. MAX_WINDOWS - 1 \union {NoState}, look : Look,
   focused : BOOLEAN]

DesktopT ==
  [windows : Seq(WindowT), next_window_id : Nat \ {0}, states_used : [App -> 0 .. MAX_WINDOWS],
   focused_window : Nat, active_window : Nat, active_hit : Hit \union {"none"},
   start_menu_open : BOOLEAN, needs_redraw : BOOLEAN, mouse : Position]

\* What may lie under the pointer when the left button goes down; an open
\* menu takes the press before the taskbar and the windows.
TargetsOf(d) ==
  [kind : {"start", "wallpaper"}] \union
  IF d.start_menu_open THEN [kind : {"item"}, app : App]
  ELSE [kind : {"taskbar"}, index : DOMAIN d.windows]
         \union [kind : {"window"}, index : DOMAIN d.windows, hit : Hit]

desktop_init(pointer) ==
  [windows |-> <<>>, next_window_id |-> 1, states_used |-> [a \in App |-> 0],
   focused_window |-> 0, active_window |-> 0, active_hit |-> "none",
   start_menu_open |-> FALSE, needs_redraw |-> TRUE, mouse |-> pointer]

desktop_set_dirty(d) == [d EXCEPT !.needs_redraw = TRUE]

Ids(ws) == {ws[i].id : i \in DOMAIN ws}

\* The index of the window with this identifier, which ws has.
IndexOf(ws, id) == CHOOSE i \in DOMAIN ws : ws[i].id = id

SwapWithTop(ws, i) == [ws EXCEPT ![i] = ws[Len(ws)], ![Len(ws)] = ws[i]]

desktop_bring_to_front(ws, i) == Append(RemoveAt(ws, i), ws[i])

\* The windows above the closed one move down a slot.
Without(ws, id) == IF id \in Ids(ws) THEN RemoveAt(ws, IndexOf(ws, id)) ELSE ws

desktop_focus_window(d, id) ==
  IF id \notin Ids(d.windows) THEN d
  ELSE LET ws == desktop_bring_to_front(d.windows, IndexOf(d.windows, id))
       IN  desktop_set_dirty(
             [d EXCEPT !.windows = [i \in DOMAIN ws |-> [ws[i] EXCEPT !.focused = (i = Len(ws))]],
                       !.focused_window = id])

-----------------------------------------------------------------------------
(* Creating and closing.                                                   *)

StateOnePastPool(d, app) ==
  IF d.states_used[app] <= MAX_WINDOWS THEN d.states_used[app] ELSE NoState

StateByOpenWindows(d, app) == Len(SelectSeq(d.windows, LAMBDA w : w.app = app))

\* get_notepad_state and its like draw from a pool that is never refilled.
StateFor(d, app) ==
  IF d.states_used[app] < MAX_WINDOWS THEN d.states_used[app] ELSE NoState

\* notepad_create and its like: desktop_create_window, then the state.
Create(d, app) ==
  IF Len(d.windows) >= MAX_WINDOWS THEN d
  ELSE LET new == [id |-> d.next_window_id, app |-> app, data |-> StateFor(d, app),
                   look |-> NewLook, focused |-> FALSE]
       IN  desktop_focus_window(
             [d EXCEPT !.windows = Append(@, new), !.next_window_id = @ + 1,
                       !.states_used[app] = IF new.data = NoState THEN @ ELSE @ + 1],
             new.id)

CloseKeepingActive(d, id) ==
  LET left == Without(d.windows, id)
      e    == [d EXCEPT !.windows = left, !.focused_window = 0, !.needs_redraw = TRUE]
  IN  IF left = <<>> THEN e ELSE desktop_focus_window(e, Last(left).id)

CloseWithoutFocusing(d, id) ==
  [d EXCEPT !.windows = Without(@, id), !.needs_redraw = TRUE,
            !.focused_window = IF @ = id THEN 0 ELSE @,
            !.active_window = IF @ = id THEN 0 ELSE @]

desktop_close_window(d, id) ==
  LET left == Without(d.windows, id)
      e    == [d EXCEPT !.windows = left, !.focused_window = 0, !.needs_redraw = TRUE,
                        !.active_window = IF @ = id THEN 0 ELSE @,
                        !.active_hit = IF d.active_window = id THEN "none" ELSE @]
  IN  IF left = <<>> THEN e ELSE desktop_focus_window(e, Last(left).id)

-----------------------------------------------------------------------------
(* What keys and mouse events do.                                          *)

\* Before the focused window in the list comes the one that is focused next.
desktop_cycle_focus(d) ==
  LET top == Len(d.windows) IN
  CASE d.windows # <<>> /\ d.focused_window = 0 -> desktop_focus_window(d, d.windows[top].id)
    [] d.focused_window \in Ids(d.windows) ->
         LET i == IndexOf(d.windows, d.focused_window)
         IN  desktop_focus_window(d, d.windows[IF i = 1 THEN top ELSE i - 1].id)
    [] OTHER -> d

\* The window with this identifier changes what it looks like.
Redress(d, id, look) ==
  [d EXCEPT !.windows = [i \in DOMAIN @ |-> IF @[i].id = id THEN [@[i] EXCEPT !.look = look]
                                            ELSE @[i]],
            !.needs_redraw = TRUE]

ToggleMenu(d) == [d EXCEPT !.start_menu_open = ~@, !.needs_redraw = TRUE]
CloseMenu(d)  == [d EXCEPT !.start_menu_open = FALSE, !.needs_redraw = TRUE]

\* desktop_input_handler, INPUT_EVENT_MOUSE_MOVE: at is where the event
\* says the pointer is, left the left button, look what dragging or resizing
\* makes of the active window.
HandleMove(d, at, left, look) ==
  IF at = d.mouse THEN d
  ELSE LET e == desktop_set_dirty([d EXCEPT !.mouse = at])
       IN  IF left /\ d.active_hit = "grip"
           THEN Redress(e, d.active_window, look) ELSE e

PressWindow(d, i, hit, look) ==
  LET id == d.windows[i].id
      f  == desktop_focus_window(d, id)
  IN  CASE hit = "close"    -> desktop_close_window(d, id)
        [] hit = "maximize" -> Redress(f, id, look)
        [] hit = "client"   -> Redress([f EXCEPT !.active_window = id, !.active_hit = hit], id, look)
        [] OTHER -> desktop_set_dirty([f EXCEPT !.active_window = id, !.active_hit = hit])

\* INPUT_EVENT_MOUSE_PRESS of the left button.
PressLeft(d, target, look) ==
  CASE target.kind = "start"   -> ToggleMenu(d)
    [] target.kind = "item"    -> CloseMenu(Create(d, target.app))
    [] target.kind = "taskbar" ->
         desktop_set_dirty(desktop_focus_window(d, d.windows[target.index].id))
    [] target.kind = "window"  -> PressWindow(d, target.index, target.hit, look)
    [] target.kind = "wallpaper" -> IF d.start_menu_open THEN desktop_set_dirty(d) ELSE d

HandlePress(d, at, button, target, look) ==
  LET e == [d EXCEPT !.mouse = at]
  IN  IF button = "left" THEN PressLeft(e, target, look) ELSE e

ReleaseKeepsActive(d, button) == d

HandleRelease(d, button) ==
  IF button = "left" THEN [d EXCEPT !.active_window = 0, !.active_hit = "none"] ELSE d
=============================================================================
