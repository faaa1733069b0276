-------------------------------- MODULE Gfx ---------------------------------
(***************************************************************************)
(* The graphics server of kernel/graphics/gfx_server.c and its client      *)
(* library lib/libgfx.c, joined by the inbox of the server process         *)
(* (MessageRing).  A graphics message is a union of up to 88 bytes and     *)
(* message_t carries the first eight: the server sees the window           *)
(* identifier and the x position of a request and reads zero for its       *)
(* sizes, flags, colour and text.  Pixels and titles are left out.         *)
(***************************************************************************)
EXTENDS MessageRing, FiniteSets

CONSTANTS
  Process,          \* the processes, by pid; the server's is 1
  GFX_MAX_WINDOWS,  \* window slots of the server; 16 in the code
  MaxWindowId       \* bound on the identifiers handed out

WindowOps == {"CREATE_WINDOW", "DESTROY_WINDOW", "SHOW_WINDOW", "HIDE_WINDOW",
              "SET_TITLE", "CLEAR", "DRAW_LINE", "DRAW_RECT", "FILL_RECT",
              "DRAW_TEXT", "PRESENT"}

\* What of a gfx_message_t fits in data1 and data2 and is looked at; the
\* first word of a create request is its unset window_id, which nobody reads.
GfxMessage == [type : WindowOps, window : 0 .. MaxWindowId]

ServerPid == 1
WindowSlots == 0 .. GFX_MAX_WINDOWS - 1

VARIABLES
  inbox,         \* the queue of the server's process
  current,       \* process_get_current(): the first process, for good
  windows,       \* g_gfx_server.windows
  next_id,       \* g_gfx_server.next_window_id
  client,        \* g_gfx_client
  promised       \* history: identifiers gfx_create_window returned, not destroyed

vars == <<inbox, current, windows, next_id, client, promised>>

NoWindow == [id |-> 0, buffer |-> FALSE, visible |-> FALSE, damaged |-> FALSE]

-----------------------------------------------------------------------------
(* The server: gfx_server.c.                                               *)

\* find_window: the slots with this identifier and a buffer, one at most.
Named(id) == {i \in WindowSlots : windows[i].id = id /\ windows[i].buffer}

\* find_free_window.
Free(i) == windows[i].id = 0 \/ ~windows[i].buffer

\* The size of the buffer a create request asks for after its journey:
\* width and height are beyond the eighth byte and read as zero.
RequestedSize(m) == 0

\* kmalloc (kheap.c): nothing for a request of zero bytes, else a block or not.
kmalloc(n) == IF n = 0 THEN {FALSE} ELSE BOOLEAN

\* The first free slot gets the window, if the buffer could be made.
handle_create_window(m) ==
  IF \A i \in WindowSlots : ~Free(i)
  THEN UNCHANGED <<windows, next_id>>
  ELSE \E i \in WindowSlots, made \in kmalloc(RequestedSize(m)) :
         /\ Free(i) /\ \A j \in 0 .. i - 1 : ~Free(j)
         /\ windows' = [windows EXCEPT ![i] =
              IF made
              THEN [id |-> next_id, buffer |-> TRUE, visible |-> FALSE, damaged |-> TRUE]
              ELSE [@ EXCEPT !.buffer = FALSE]]
         /\ next_id' = IF made THEN next_id + 1 ELSE next_id

\* What a request for a window that exists does to it.
Applied(type, w) ==
  CASE type = "DESTROY_WINDOW" -> [w EXCEPT !.id = 0, !.buffer = FALSE]
    [] type = "SHOW_WINDOW" -> [w EXCEPT !.visible = TRUE, !.damaged = TRUE]
    [] type = "HIDE_WINDOW" -> [w EXCEPT !.visible = FALSE]
    [] type = "DRAW_LINE" -> w            \* no case of the switch: INVALID_PARAM
    [] OTHER -> [w EXCEPT !.damaged = TRUE]

process_message(m) ==
  IF m.type = "CREATE_WINDOW"
  THEN handle_create_window(m)
  ELSE /\ windows' = [i \in WindowSlots |->
                       IF i \in Named(m.window) THEN Applied(m.type, windows[i])
                                                ELSE windows[i]]
       /\ UNCHANGED next_id

\* redraw_all clears the damage of the windows it shows; a hidden one stays
\* damaged and has the screen redrawn in every round.
Redrawn(ws) ==
  IF \E i \in WindowSlots : ws[i].damaged
  THEN [i \in WindowSlots |->
          IF ws[i].id # 0 /\ ws[i].visible /\ ws[i].buffer
          THEN [ws[i] EXCEPT !.damaged = FALSE] ELSE ws[i]]
  ELSE ws

\* A round of gfx_server_run: a message of the current process, if it is the
\* server that runs; the response is dropped.
Handle == /\ current = ServerPid
          /\ message_queue_dequeue(inbox).result = 0
          /\ inbox' = message_queue_dequeue(inbox).queue
          /\ process_message(message_queue_dequeue(inbox).msg)
          /\ UNCHANGED <<current, client, promised>>

\* The rest of the round; an application's message may come between.
Redraw == /\ windows' = Redrawn(windows)
          /\ windows' # windows
          /\ UNCHANGED <<inbox, current, next_id, client, promised>>

-----------------------------------------------------------------------------
(* The client library: libgfx.c.                                           *)

gfx_connect ==
  /\ client' = [connected |-> TRUE, next_window_id |-> 1]
  /\ UNCHANGED <<inbox, current, windows, next_id, promised>>

gfx_disconnect ==
  /\ client' = [client EXCEPT !.connected = FALSE]
  /\ UNCHANGED <<inbox, current, windows, next_id, promised>>

\* gfx_send_request returned GFX_OK: connected, and the queue had room.
Sent(m) == /\ client.connected
           /\ message_queue_enqueue(inbox, m).result = 0
           /\ inbox' = message_queue_enqueue(inbox, m).queue

\* The client counts identifiers itself and asks nobody.
gfx_create_window ==
  /\ client.next_window_id <= MaxWindowId
  /\ Sent([type |-> "CREATE_WINDOW", window |-> 0])
  /\ promised' = promised \union {client.next_window_id}
  /\ client' = [client EXCEPT !.next_window_id = @ + 1]
  /\ UNCHANGED <<current, windows, next_id>>

gfx_destroy_window(id) ==
  /\ Sent([type |-> "DESTROY_WINDOW", window |-> id])
  /\ promised' = promised \ {id}
  /\ UNCHANGED <<current, windows, next_id, client>>

\* The other calls: clear, draw_rect, fill_rect, draw_line, draw_text,
\* present, set_visible and set_title.
WindowCall(type, id) ==
  /\ Sent([type |-> type, window |-> id])
  /\ UNCHANGED <<current, windows, next_id, client, promised>>

-----------------------------------------------------------------------------
\* After gfx_server_init, the client library's state zero.
Init ==
  /\ inbox = message_queue_init
  /\ current \in Process
  /\ windows = [i \in WindowSlots |-> NoWindow]
  /\ next_id = 1
  /\ client = [connected |-> FALSE, next_window_id |-> 0]
  /\ promised = {}

Next ==
  \/ gfx_connect \/ gfx_disconnect \/ gfx_create_window
  \/ \E id \in 1 .. MaxWindowId :
       \/ gfx_destroy_window(id)
       \/ \E type \in WindowOps \ {"CREATE_WINDOW", "DESTROY_WINDOW"} : WindowCall(type, id)
  \/ Handle \/ Redraw

Spec == Init /\ [][Next]_vars

-----------------------------------------------------------------------------
\* include/gfx_protocol.h:213 says gfx_create_window returns "Window ID, or 0
\* on failure": once the server has handled every request, an identifier it
\* returned and nobody destroyed names a window of the server.
ReturnedIdIsAWindow ==
  message_queue_is_empty(inbox) => \A id \in promised : Named(id) # {}
=============================================================================
