---------------------------- MODULE DesktopDraw ----------------------------
(***************************************************************************)
(* The loop of kmain that draws the desktop, and its user.  desktop_draw   *)
(* runs with interrupts on, so its reads of the window list are separate   *)
(* steps: a key or a mouse packet (Desktop) may change the list between    *)
(* any two of them, also between two reads of one window.                  *)
(***************************************************************************)
EXTENDS Desktop

CONSTANT
  TaskbarSlots   \* buttons the taskbar has room for; 3 in the source

ASSUME TaskbarAssumption == TaskbarSlots \in Nat

VARIABLES
  drawing,  \* what desktop_draw paints next, and of which window
  frame,    \* the layers of paint in the back buffer; when nothing is being
            \* drawn, also the screen
  paused    \* Alt+Q painted over the screen after the last redraw began

drawVars == <<drawing, frame, paused>>
vars == <<deskVars, drawVars>>

At(part, slot) == [part |-> part, slot |-> slot]
Idle == At("idle", 0)

\* The drawing function of the application by, called for a slot.
Called(by, slot) == [part |-> "content", slot |-> slot, by |-> by]

\* Layers of paint, by what the code reads for each.
Start(d)  == <<"start", d.start_menu_open>>
Button(w) == <<"button", w.app, w.focused>>
Menu(d)   == <<"menu", d.start_menu_open>>
Chrome(w) == <<"chrome", w.app, w.focused, w.look>>

\* What the drawing function of the application by paints for the window w,
\* which is of another application when the slot changed hands meanwhile.
Content(by, w) == <<"content", by, w.app, w.data, w.look>>

\* desktop_close_window leaves a copy of the top window past the list.
LeftBehind == <<"content", "left behind">>

\* Once Alt+Q has painted over a picture, it is not followed any further.
Paint(layer, next) ==
  /\ frame' = IF paused THEN <<>> ELSE Append(frame, layer)
  /\ drawing' = next
  /\ UNCHANGED <<deskVars, paused>>

DrawInit ==
  /\ Init
  /\ drawing = Idle /\ frame = <<>> /\ paused = FALSE

DrawBegin ==
  /\ drawing = Idle /\ TakeUpRequest
  /\ drawing' = At("wallpaper", 0) /\ paused' = FALSE
  /\ UNCHANGED frame

\* The wallpaper covers everything, and the start button is drawn.
DrawBackground ==
  /\ drawing.part = "wallpaper" /\ ReadPointer
  /\ drawing' = At("taskbar", 1)
  /\ frame' = IF paused THEN <<>> ELSE <<Start(desk)>>
  /\ UNCHANGED paused

\* The taskbar shows the lowest windows, as many as there is room for.
HasButton(i) == i \in DOMAIN desk.windows /\ i <= TaskbarSlots

desktop_draw_taskbar ==
  LET i == drawing.slot IN
  /\ drawing.part = "taskbar" /\ HasButton(i)
  /\ Paint(Button(desk.windows[i]), At("taskbar", i + 1))

desktop_draw_menu ==
  /\ drawing.part = "taskbar" /\ ~HasButton(drawing.slot)
  /\ Paint(Menu(desk), At("window", 1))

\* The frame of a window; then the code loads its drawing function.
desktop_draw_window ==
  LET i == drawing.slot IN
  /\ drawing.part = "window" /\ i \in DOMAIN desk.windows
  /\ Paint(Chrome(desk.windows[i]), Called(desk.windows[i].app, i))

\* The drawing function reads the state of whichever window is in the slot.
draw_content ==
  LET i == drawing.slot IN
  /\ drawing.part = "content"
  /\ Paint(IF i \in DOMAIN desk.windows THEN Content(drawing.by, desk.windows[i])
           ELSE LeftBehind,
           At("window", i + 1))

AllDrawn == drawing.part = "window" /\ drawing.slot > Len(desk.windows)

\* needs_redraw is cleared when the picture is complete.
ClearsRequestLast ==
  /\ AllDrawn
  /\ desk' = [desk EXCEPT !.needs_redraw = FALSE]
  /\ drawing' = Idle
  /\ UNCHANGED <<input, driver, frame, paused>>

\* The cursor is drawn once more, by desktop_draw_mouse_direct.
PresentAsksAgain ==
  /\ AllDrawn
  /\ desk' = desktop_set_dirty(desk)
  /\ drawing' = Idle
  /\ UNCHANGED <<input, driver, frame, paused>>

Present ==
  /\ AllDrawn
  /\ drawing' = Idle
  /\ UNCHANGED <<deskVars, frame, paused>>

\* Alt+Q: ux_handle_hotkey clears the back buffer and shows it.
PauseHotkey ==
  /\ frame' = <<>> /\ paused' = TRUE
  /\ UNCHANGED <<deskVars, drawing>>

Draw ==
  \/ DrawBegin \/ DrawBackground \/ desktop_draw_taskbar \/ desktop_draw_menu
  \/ desktop_draw_window \/ draw_content \/ Present

DrawNext ==
  \/ UserStep /\ UNCHANGED drawVars
  \/ PauseHotkey
  \/ Draw

\* kmain draws again after every interrupt; nothing obliges the user.
DrawSpec == DrawInit /\ [][DrawNext]_vars /\ WF_vars(Draw)

-----------------------------------------------------------------------------

\* The desktop as it should look: the start button, the buttons of the
\* taskbar, the menu, and the windows from the bottom to the top.
ButtonsShown == LET n == Len(desk.windows) IN IF n < TaskbarSlots THEN n ELSE TaskbarSlots

WindowLayer(k) ==
  LET w == desk.windows[(k + 1) \div 2] IN IF k % 2 = 1 THEN Chrome(w) ELSE Content(w.app, w)

Layer(k) ==
  CASE k = 1                     -> Start(desk)
    [] k \in 2 .. ButtonsShown + 1 -> Button(desk.windows[k - 1])
    [] k = ButtonsShown + 2      -> Menu(desk)
    [] k > ButtonsShown + 2      -> WindowLayer(k - ButtonsShown - 2)

Layers(n) == [k \in 1 .. n |-> Layer(k)]

Picture == Layers(ButtonsShown + 2 + 2 * Len(desk.windows))

(* Whatever a key or a packet changes while desktop_draw reads the windows *)
(* (desktop.c:718-732), also between the drawing function of a window and  *)
(* the state it draws (desktop.c:480-481), when the loop has nothing left  *)
(* to draw the screen shows the windows, their order, looks and focus, the *)
(* taskbar and the menu as they are.  Alt+Q, which paints without a        *)
(* request to draw, is set apart.                                          *)
QuietScreenIsCurrent ==
  drawing = Idle /\ ~desk.needs_redraw /\ ~paused => frame = Picture

(* When the user pauses, the screen catches up and stays so until the next *)
(* key or packet (kernel.c:115-118).                                       *)
ScreenCatchesUp ==
  []<><<~Draw>>_vars \/ <>[](drawing = Idle /\ ~desk.needs_redraw)
=============================================================================
