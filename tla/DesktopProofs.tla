--------------------------- MODULE DesktopProofs ---------------------------
(***************************************************************************)
(* The safety of Desktop and of the picture that DesktopDraw paints, for   *)
(* any number of windows, any size of the input queue and of the taskbar   *)
(* and any applications, looks and places.                                 *)
(***************************************************************************)
EXTENDS DesktopDraw, SequenceTheorems, TLAPS

(* A list of windows as the operations leave it: short enough, each window *)
(* with an identifier and a state of its own, both drawn already.          *)
GoodList(ws, next, used) ==
  /\ ws \in Seq(WindowT) /\ Len(ws) <= MAX_WINDOWS
  /\ \A i \in DOMAIN ws :
       ws[i].id < next /\ (ws[i].data # NoState => ws[i].data < used[ws[i].app])
  /\ \A i, j \in DOMAIN ws :
       i # j => /\ ws[i].id # ws[j].id
                /\ ws[i].app = ws[j].app /\ ws[i].data = ws[j].data => ws[i].data = NoState

LEMMA DomainIs ==
  ASSUME NEW S, NEW s \in Seq(S)
  PROVE  /\ DOMAIN s = 1 .. Len(s) /\ Len(s) \in Nat
         /\ \A i \in 1 .. Len(s) : s[i] \in S
BY LenProperties, ElementOfSeq

LEMMA SeqOfFunction ==
  ASSUME NEW S, NEW n \in Nat, NEW s, DOMAIN s = 1 .. n, s = [i \in 1 .. n |-> s[i]],
         \A i \in 1 .. n : s[i] \in S
  PROVE  s \in Seq(S) /\ Len(s) = n /\ DOMAIN s = 1 .. Len(s)
<1>1. s \in [1 .. n -> S]
  OBVIOUS
<1>2. s \in Seq(S)
  BY <1>1, SeqDef
<1>. QED BY <1>1, <1>2, LenProperties

LEMMA AppendIs ==
  ASSUME NEW S, NEW s \in Seq(S), NEW e
  PROVE  /\ Len(Append(s, e)) = Len(s) + 1 /\ DOMAIN Append(s, e) = 1 .. Len(s) + 1
         /\ \A i \in 1 .. Len(s) : Append(s, e)[i] = s[i]
         /\ Append(s, e)[Len(s) + 1] = e
<1>. DEFINE T == S \union {e}
<1>1. s \in Seq(T) /\ e \in T
  <2>1. Len(s) \in Nat /\ s \in [1 .. Len(s) -> S]
    BY LenProperties, SeqDef
  <2>2. s \in [1 .. Len(s) -> T]
    BY <2>1
  <2>. HIDE DEF T
  <2>3. s \in Seq(T)
    BY <2>1, <2>2, SeqDef
  <2>. QED BY <2>3 DEF T
<1>. HIDE DEF T
<1>2. Append(s, e) \in Seq(T)
  BY <1>1, AppendProperties
<1>. QED BY <1>1, <1>2, AppendProperties, LenProperties

LEMMA IndexIs ==
  ASSUME NEW ws, NEW id \in Ids(ws)
  PROVE  IndexOf(ws, id) \in DOMAIN ws /\ ws[IndexOf(ws, id)].id = id
BY DEF Ids, IndexOf

(* What SequencesExt calls RemoveAt shifts the elements above down.        *)
LEMMA RemoveAtShifts ==
  ASSUME NEW S, NEW s \in Seq(S), NEW i \in 1 .. Len(s)
  PROVE  /\ RemoveAt(s, i) \in Seq(S) /\ Len(RemoveAt(s, i)) = Len(s) - 1
         /\ \A j \in 1 .. Len(s) - 1 :
              RemoveAt(s, i)[j] = IF j < i THEN s[j] ELSE s[j + 1]
<1>. DEFINE low == SubSeq(s, 1, i - 1)
            high == SubSeq(s, i + 1, Len(s))
<1>1. Len(s) \in Nat /\ \A j \in 1 .. Len(s) : s[j] \in S
  BY DomainIs
<1>2. /\ low \in Seq(S) /\ Len(low) = i - 1
      /\ \A j \in 1 .. i - 1 : low[j] = s[j]
  <2>1. 1 \in Int /\ i - 1 \in Int /\ \A j \in 1 .. i - 1 : s[j] \in S
    BY <1>1
  <2>2. /\ low \in Seq(S) /\ Len(low) = (IF 1 <= i - 1 THEN i - 1 - 1 + 1 ELSE 0)
        /\ \A j \in 1 .. i - 1 - 1 + 1 : low[j] = s[1 + j - 1]
    BY <2>1, SubSeqProperties
  <2>. QED BY <2>2, <1>1
<1>3. /\ high \in Seq(S) /\ Len(high) = Len(s) - i
      /\ \A j \in 1 .. Len(s) - i : high[j] = s[i + j]
  <2>1. i + 1 \in Int /\ Len(s) \in Int /\ \A j \in i + 1 .. Len(s) : s[j] \in S
    BY <1>1
  <2>2. /\ high \in Seq(S)
        /\ Len(high) = (IF i + 1 <= Len(s) THEN Len(s) - (i + 1) + 1 ELSE 0)
        /\ \A j \in 1 .. Len(s) - (i + 1) + 1 : high[j] = s[i + 1 + j - 1]
    BY <2>1, SubSeqProperties
  <2>. QED BY <2>2, <1>1
<1>4. /\ low \o high \in Seq(S) /\ Len(low \o high) = Len(low) + Len(high)
      /\ \A j \in 1 .. Len(low) + Len(high) :
           (low \o high)[j] = IF j <= Len(low) THEN low[j] ELSE high[j - Len(low)]
  <2>. HIDE DEF low, high
  <2>. QED BY <1>2, <1>3, ConcatProperties
<1>5. RemoveAt(s, i) = low \o high
  BY DEF RemoveAt
<1>. HIDE DEF low, high
<1>6. ASSUME NEW j \in 1 .. Len(s) - 1
      PROVE  RemoveAt(s, i)[j] = IF j < i THEN s[j] ELSE s[j + 1]
  <2>1. CASE j < i
    <3>1. j \in 1 .. i - 1 /\ j <= Len(low) /\ j \in 1 .. Len(low) + Len(high)
      BY <1>1, <1>2, <1>3, <2>1
    <3>. QED BY <3>1, <1>2, <1>4, <1>5, <2>1
  <2>2. CASE ~(j < i)
    <3>1. /\ j - Len(low) \in 1 .. Len(s) - i /\ ~(j <= Len(low)) /\ i + (j - Len(low)) = j + 1
          /\ j \in 1 .. Len(low) + Len(high)
      BY <1>1, <1>2, <1>3, <2>2
    <3>2. (low \o high)[j] = high[j - Len(low)] /\ high[j - Len(low)] = s[i + (j - Len(low))]
      BY <3>1, <1>3, <1>4
    <3>. QED BY <3>1, <3>2, <1>5, <2>2
  <2>. QED BY <2>1, <2>2
<1>7. RemoveAt(s, i) \in Seq(S) /\ Len(RemoveAt(s, i)) = Len(s) - 1
  <2>1. i - 1 + (Len(s) - i) = Len(s) - 1
    BY <1>1
  <2>2. Len(RemoveAt(s, i)) = i - 1 + (Len(s) - i)
    BY <1>2, <1>3, <1>4, <1>5, Zenon
  <2>3. RemoveAt(s, i) \in Seq(S)
    BY <1>4, <1>5, Zenon
  <2>. QED BY <2>1, <2>2, <2>3
<1>. QED BY <1>6, <1>7

LEMMA FrontMoves ==
  ASSUME NEW ws \in Seq(WindowT), NEW i \in 1 .. Len(ws),
         NEW vs, vs = desktop_bring_to_front(ws, i)
  PROVE  /\ vs \in Seq(WindowT) /\ Len(vs) = Len(ws)
         /\ \A j \in 1 .. Len(ws) - 1 : vs[j] = IF j < i THEN ws[j] ELSE ws[j + 1]
         /\ vs[Len(ws)] = ws[i]
<1>1. Len(ws) \in Nat /\ ws[i] \in WindowT
  BY DomainIs
<1>. DEFINE rest == RemoveAt(ws, i)
<1>2. /\ rest \in Seq(WindowT) /\ Len(rest) = Len(ws) - 1
      /\ \A j \in 1 .. Len(ws) - 1 : rest[j] = IF j < i THEN ws[j] ELSE ws[j + 1]
  BY RemoveAtShifts
<1>3. vs = Append(rest, ws[i])
  BY DEF desktop_bring_to_front
<1>. HIDE DEF rest
<1>4. /\ vs \in Seq(WindowT) /\ Len(vs) = Len(rest) + 1
      /\ \A j \in 1 .. Len(rest) : vs[j] = rest[j]
      /\ vs[Len(rest) + 1] = ws[i]
  BY <1>1, <1>2, <1>3, AppendProperties
<1>. QED BY <1>1, <1>2, <1>4

\* Window j of vs is window p[j] of ws, redrawn perhaps.
Selects(vs, ws, p) ==
  /\ vs \in Seq(WindowT) /\ Len(vs) <= Len(ws)
  /\ p \in [1 .. Len(vs) -> 1 .. Len(ws)]
  /\ \A j, k \in 1 .. Len(vs) : j # k => p[j] # p[k]
  /\ \A j \in 1 .. Len(vs) : /\ vs[j].id = ws[p[j]].id /\ vs[j].app = ws[p[j]].app
                             /\ vs[j].data = ws[p[j]].data

LEMMA SelectionGood ==
  ASSUME NEW ws, NEW vs, NEW next, NEW used, GoodList(ws, next, used), NEW p, Selects(vs, ws, p)
  PROVE  GoodList(vs, next, used) /\ Ids(vs) \subseteq Ids(ws)
<1>. USE DEF Selects
<1>1. /\ DOMAIN ws = 1 .. Len(ws) /\ DOMAIN vs = 1 .. Len(vs)
      /\ Len(ws) \in Nat /\ Len(vs) \in Nat
  BY DomainIs DEF GoodList
<1>2. Len(vs) <= MAX_WINDOWS
  BY <1>1, DesktopAssumption DEF GoodList
<1>3. ASSUME NEW i \in DOMAIN vs
      PROVE  vs[i].id < next /\ (vs[i].data # NoState => vs[i].data < used[vs[i].app])
  BY <1>1 DEF GoodList
<1>4. ASSUME NEW i \in DOMAIN vs, NEW j \in DOMAIN vs, i # j
      PROVE  /\ vs[i].id # vs[j].id
             /\ vs[i].app = vs[j].app /\ vs[i].data = vs[j].data => vs[i].data = NoState
  BY <1>1, <1>4 DEF GoodList
<1>5. Ids(vs) \subseteq Ids(ws)
  BY <1>1 DEF Ids
<1>. QED BY <1>2, <1>3, <1>4, <1>5 DEF GoodList

(* Redrawing each window keeps the list good.                              *)
LEMMA SameListGood ==
  ASSUME NEW ws, NEW vs \in Seq(WindowT), NEW next, NEW used, GoodList(ws, next, used),
         Len(vs) = Len(ws),
         \A j \in 1 .. Len(ws) : /\ vs[j].id = ws[j].id /\ vs[j].app = ws[j].app
                                 /\ vs[j].data = ws[j].data
  PROVE  GoodList(vs, next, used) /\ Ids(vs) = Ids(ws)
<1>1. /\ DOMAIN ws = 1 .. Len(ws) /\ DOMAIN vs = 1 .. Len(vs) /\ Len(ws) \in Nat
  BY DomainIs DEF GoodList
<1>2. Ids(vs) = Ids(ws)
  BY <1>1 DEF Ids
<1>3. GoodList(vs, next, used)
  BY <1>1 DEF GoodList
<1>. QED BY <1>2, <1>3

LEMMA FrontGood ==
  ASSUME NEW ws, NEW next, NEW used, GoodList(ws, next, used), NEW i \in 1 .. Len(ws),
         NEW vs, vs = desktop_bring_to_front(ws, i)
  PROVE  /\ GoodList(vs, next, used) /\ Ids(vs) = Ids(ws)
         /\ Len(vs) = Len(ws) /\ vs[Len(vs)] = ws[i]
<1>1. /\ ws \in Seq(WindowT) /\ DOMAIN ws = 1 .. Len(ws) /\ Len(ws) \in Nat
  BY DomainIs DEF GoodList
<1>2. /\ vs \in Seq(WindowT) /\ Len(vs) = Len(ws)
      /\ \A j \in 1 .. Len(ws) - 1 : vs[j] = IF j < i THEN ws[j] ELSE ws[j + 1]
      /\ vs[Len(ws)] = ws[i]
  BY <1>1, FrontMoves
<1>. DEFINE p == [j \in 1 .. Len(vs) |-> IF j < i THEN j ELSE IF j < Len(ws) THEN j + 1 ELSE i]
<1>3. p \in [1 .. Len(vs) -> 1 .. Len(ws)] /\ \A j, k \in 1 .. Len(vs) : j # k => p[j] # p[k]
  BY <1>1, <1>2
<1>4. \A j \in 1 .. Len(vs) : vs[j] = ws[p[j]]
  BY <1>1, <1>2
<1>5. Len(vs) <= Len(ws)
  BY <1>1, <1>2
<1>6. ASSUME NEW k \in 1 .. Len(ws)
      PROVE  \E j \in 1 .. Len(vs) : p[j] = k
  <2>1. CASE k = i
    BY <2>1, <1>1, <1>2
  <2>2. CASE k < i
    BY <2>2, <1>1, <1>2
  <2>3. CASE k > i
    <3>1. k - 1 \in 1 .. Len(vs) /\ p[k - 1] = k
      BY <2>3, <1>1, <1>2
    <3>. QED BY <3>1
  <2>. QED BY <2>1, <2>2, <2>3, <1>1
<1>7. DOMAIN vs = 1 .. Len(vs)
  BY <1>2, DomainIs
<1>. HIDE DEF p
<1>8. GoodList(vs, next, used) /\ Ids(vs) \subseteq Ids(ws)
  <2>1. Selects(vs, ws, p)
    BY <1>2, <1>3, <1>4, <1>5 DEF Selects
  <2>. QED BY <2>1, SelectionGood
<1>9. Ids(ws) \subseteq Ids(vs)
  BY <1>1, <1>4, <1>6, <1>7 DEF Ids
<1>. QED BY <1>2, <1>8, <1>9

LEMMA WithoutGood ==
  ASSUME NEW ws, NEW next, NEW used, GoodList(ws, next, used), NEW id,
         NEW vs, vs = Without(ws, id)
  PROVE  GoodList(vs, next, used) /\ Ids(vs) = Ids(ws) \ {id}
<1>1. /\ ws \in Seq(WindowT) /\ DOMAIN ws = 1 .. Len(ws) /\ Len(ws) \in Nat
  BY DomainIs DEF GoodList
<1>2. CASE id \notin Ids(ws)
  BY <1>2 DEF Without
<1>3. CASE id \in Ids(ws)
  <2>. DEFINE i == IndexOf(ws, id)
  <2>1. i \in 1 .. Len(ws) /\ ws[i].id = id /\ vs = RemoveAt(ws, i)
    BY <1>1, <1>3, IndexIs DEF Without
  <2>. HIDE DEF i
  <2>2. /\ vs \in Seq(WindowT) /\ Len(vs) = Len(ws) - 1
        /\ \A j \in 1 .. Len(ws) - 1 : vs[j] = IF j < i THEN ws[j] ELSE ws[j + 1]
    BY <1>1, <2>1, RemoveAtShifts
  <2>. DEFINE p == [j \in 1 .. Len(vs) |-> IF j < i THEN j ELSE j + 1]
  <2>3. /\ p \in [1 .. Len(vs) -> 1 .. Len(ws)] /\ Len(vs) <= Len(ws)
        /\ \A j, k \in 1 .. Len(vs) : j # k => p[j] # p[k]
    BY <1>1, <2>1, <2>2
  <2>4. \A j \in 1 .. Len(vs) : vs[j] = ws[p[j]] /\ p[j] # i
    BY <1>1, <2>1, <2>2
  <2>5. ASSUME NEW k \in 1 .. Len(ws), k # i
        PROVE  \E j \in 1 .. Len(vs) : p[j] = k
    <3>1. CASE k < i
      <4>1. k \in 1 .. Len(vs) /\ p[k] = k
        BY <3>1, <1>1, <2>1, <2>2
      <4>. QED BY <4>1
    <3>2. CASE k > i
      <4>1. k - 1 \in 1 .. Len(vs) /\ p[k - 1] = k
        BY <3>2, <1>1, <2>1, <2>2
      <4>. QED BY <4>1
    <3>. QED BY <3>1, <3>2, <2>5, <1>1, <2>1
  <2>6. DOMAIN vs = 1 .. Len(vs)
    BY <2>2, DomainIs
  <2>. HIDE DEF p
  <2>7. GoodList(vs, next, used) /\ Ids(vs) \subseteq Ids(ws)
    <3>1. Selects(vs, ws, p)
      BY <2>2, <2>3, <2>4 DEF Selects
    <3>. QED BY <3>1, SelectionGood
  <2>8. \A k \in 1 .. Len(ws) : k # i => ws[k].id # id
    BY <1>1, <2>1 DEF GoodList
  <2>9. id \notin Ids(vs)
    <3>1. \A j \in 1 .. Len(vs) : p[j] \in 1 .. Len(ws) /\ p[j] # i /\ vs[j].id = ws[p[j]].id
      BY <2>3, <2>4
    <3>. QED BY <3>1, <2>6, <2>8 DEF Ids
  <2>10. Ids(ws) \ {id} \subseteq Ids(vs)
    BY <1>1, <2>1, <2>4, <2>5, <2>6 DEF Ids
  <2>. QED BY <2>7, <2>9, <2>10
<1>. QED BY <1>2, <1>3

-----------------------------------------------------------------------------
(* The desktop between two operations: its windows are a good list, the    *)
(* focus is on the topmost one, and a drag is of one of them.              *)

Sound(d) == d \in DesktopT /\ GoodList(d.windows, d.next_window_id, d.states_used)

Topped(d) ==
  /\ d.focused_window = IF Len(d.windows) = 0 THEN 0 ELSE d.windows[Len(d.windows)].id
  /\ \A i \in 1 .. Len(d.windows) : d.windows[i].focused <=> i = Len(d.windows)

Gripped(d) == d.active_window # 0 => d.active_window \in Ids(d.windows)

Good(d) == Sound(d) /\ Topped(d) /\ Gripped(d)

\* Nothing was changed but what the windows, their order and the focus do
\* not depend on.
SameWindows(d, e) ==
  /\ e \in DesktopT
  /\ e.windows = d.windows /\ e.next_window_id = d.next_window_id
  /\ e.states_used = d.states_used /\ e.focused_window = d.focused_window
  /\ e.active_window \in {0, d.active_window}

LEMMA SameWindowsGood ==
  ASSUME NEW d, NEW e, Good(d), SameWindows(d, e)
  PROVE  Good(e)
BY DEF SameWindows, Good, Sound, Topped, Gripped

LEMMA FlagsGood ==
  ASSUME NEW d, Good(d)
  PROVE  /\ Good(desktop_set_dirty(d)) /\ Good(ToggleMenu(d)) /\ Good(CloseMenu(d))
         /\ \A at \in Position : Good([d EXCEPT !.mouse = at])
<1>. d \in DesktopT
  BY DEF Good, Sound
<1>1. SameWindows(d, desktop_set_dirty(d))
  BY DEF SameWindows, DesktopT, desktop_set_dirty
<1>2. SameWindows(d, ToggleMenu(d))
  BY DEF SameWindows, DesktopT, ToggleMenu
<1>3. SameWindows(d, CloseMenu(d))
  BY DEF SameWindows, DesktopT, CloseMenu
<1>4. ASSUME NEW at \in Position PROVE SameWindows(d, [d EXCEPT !.mouse = at])
  BY DEF SameWindows, DesktopT
<1>. QED BY <1>1, <1>2, <1>3, <1>4, SameWindowsGood

(* Focusing makes the focus right whatever it was before.                  *)
LEMMA FocusGood ==
  ASSUME NEW d, Sound(d), NEW id \in Ids(d.windows), NEW e, e = desktop_focus_window(d, id)
  PROVE  /\ Sound(e) /\ Topped(e) /\ Ids(e.windows) = Ids(d.windows)
         /\ e.active_window = d.active_window /\ e.focused_window = id
<1>. DEFINE i  == IndexOf(d.windows, id)
            ws == desktop_bring_to_front(d.windows, i)
            vs == [j \in DOMAIN ws |-> [ws[j] EXCEPT !.focused = (j = Len(ws))]]
<1>1. /\ d.windows \in Seq(WindowT) /\ DOMAIN d.windows = 1 .. Len(d.windows)
      /\ Len(d.windows) \in Nat
  BY DomainIs DEF Sound, GoodList
<1>2. i \in 1 .. Len(d.windows) /\ d.windows[i].id = id
  BY <1>1, IndexIs
<1>3. e = desktop_set_dirty([d EXCEPT !.windows = vs, !.focused_window = id])
  BY DEF desktop_focus_window
<1>. HIDE DEF i
<1>4. /\ GoodList(ws, d.next_window_id, d.states_used) /\ Ids(ws) = Ids(d.windows)
      /\ Len(ws) = Len(d.windows) /\ ws[Len(ws)] = d.windows[i]
  BY <1>2, FrontGood DEF Sound
<1>. HIDE DEF ws
<1>5. /\ ws \in Seq(WindowT) /\ DOMAIN ws = 1 .. Len(ws) /\ Len(ws) \in Nat
      /\ \A j \in 1 .. Len(ws) : ws[j] \in WindowT
  BY <1>4, DomainIs DEF GoodList
<1>6. \A j \in 1 .. Len(ws) :
        /\ vs[j] \in WindowT /\ vs[j].id = ws[j].id /\ vs[j].app = ws[j].app
        /\ vs[j].data = ws[j].data /\ (vs[j].focused <=> j = Len(ws))
  BY <1>5 DEF WindowT
<1>7. vs \in Seq(WindowT) /\ Len(vs) = Len(ws) /\ DOMAIN vs = 1 .. Len(vs)
  BY <1>5, <1>6, SeqOfFunction
<1>. HIDE DEF vs
<1>8. GoodList(vs, d.next_window_id, d.states_used) /\ Ids(vs) = Ids(ws)
  BY <1>4, <1>5, <1>6, <1>7, SameListGood
<1>9. /\ e.windows = vs /\ e.focused_window = id /\ e.active_window = d.active_window
      /\ e.next_window_id = d.next_window_id /\ e.states_used = d.states_used
      /\ e \in DesktopT
  <2>1. id \in Nat
    <3>1. d.windows[i] \in WindowT
      BY <1>1, <1>2, DomainIs
    <3>. QED BY <3>1, <1>2 DEF WindowT
  <2>. QED BY <1>3, <1>7, <2>1 DEF Sound, DesktopT, desktop_set_dirty
<1>10. Topped(e)
  <2>1. Len(vs) # 0 /\ Len(vs) \in 1 .. Len(ws)
    BY <1>1, <1>2, <1>4, <1>7
  <2>2. vs[Len(vs)].id = id
    BY <2>1, <1>2, <1>4, <1>6, <1>7
  <2>. QED BY <2>1, <2>2, <1>6, <1>7, <1>9 DEF Topped
<1>. QED BY <1>4, <1>8, <1>9, <1>10 DEF Sound

LEMMA RefocusGood ==
  ASSUME NEW d, Good(d), NEW id, NEW e, e = desktop_focus_window(d, id)
  PROVE  /\ Good(e) /\ Ids(e.windows) = Ids(d.windows)
         /\ e.active_window = d.active_window
         /\ id \in Ids(d.windows) => e.focused_window = id
<1>1. CASE id \in Ids(d.windows)
  BY <1>1, FocusGood DEF Good, Gripped
<1>2. CASE id \notin Ids(d.windows)
  BY <1>2 DEF desktop_focus_window
<1>. QED BY <1>1, <1>2

(* A new window has a new identifier, and a new state or none.             *)
LEMMA AppendGood ==
  ASSUME NEW ws, NEW next \in Nat \ {0}, NEW used \in [App -> 0 .. MAX_WINDOWS],
         GoodList(ws, next, used), Len(ws) < MAX_WINDOWS,
         NEW w \in WindowT, w.id = next,
         NEW more \in [App -> 0 .. MAX_WINDOWS], \A a \in App : used[a] <= more[a],
         w.data = NoState \/ (w.data = used[w.app] /\ w.data < more[w.app])
  PROVE  GoodList(Append(ws, w), next + 1, more) /\ next \in Ids(Append(ws, w))
         /\ Ids(ws) \subseteq Ids(Append(ws, w))
<1>. DEFINE vs == Append(ws, w)
<1>1. /\ ws \in Seq(WindowT) /\ DOMAIN ws = 1 .. Len(ws) /\ Len(ws) \in Nat
      /\ \A i \in 1 .. Len(ws) : ws[i] \in WindowT
  BY DomainIs DEF GoodList
<1>2. /\ vs \in Seq(WindowT) /\ Len(vs) = Len(ws) + 1
      /\ \A i \in 1 .. Len(ws) : vs[i] = ws[i]
      /\ vs[Len(ws) + 1] = w
  BY <1>1, AppendProperties
<1>. HIDE DEF vs
<1>3. DOMAIN vs = 1 .. Len(vs)
  BY <1>2, DomainIs
<1>4. \A i \in 1 .. Len(vs) : i \in 1 .. Len(ws) \/ i = Len(ws) + 1
  BY <1>1, <1>2
<1>5. \A i \in 1 .. Len(ws) :
        /\ ws[i].id \in Nat /\ ws[i].id < next /\ ws[i].app \in App
        /\ ws[i].data # NoState => ws[i].data \in Nat /\ ws[i].data < used[ws[i].app]
  <2>1. ASSUME NEW i \in 1 .. Len(ws)
        PROVE  /\ ws[i].id \in Nat /\ ws[i].app \in App
               /\ ws[i].data \in 0 .. MAX_WINDOWS - 1 \union {NoState}
    BY <1>1 DEF WindowT
  <2>2. \A i \in 1 .. Len(ws) :
          ws[i].id < next /\ (ws[i].data # NoState => ws[i].data < used[ws[i].app])
    BY <1>1 DEF GoodList
  <2>3. \A i \in 1 .. Len(ws) : ws[i].data # NoState => ws[i].data \in Nat
    BY <2>1, DesktopAssumption
  <2>. QED BY <2>1, <2>2, <2>3
<1>6. \A a \in App : used[a] \in Nat /\ more[a] \in Nat
  BY DesktopAssumption
<1>7. w.app \in App /\ (w.data # NoState => w.data \in Nat)
  BY DEF WindowT, NoState
<1>8. ASSUME NEW i \in DOMAIN vs
      PROVE  vs[i].id < next + 1 /\ (vs[i].data # NoState => vs[i].data < more[vs[i].app])
  <2>1. CASE i \in 1 .. Len(ws)
    BY <2>1, <1>2, <1>5, <1>6
  <2>2. CASE i = Len(ws) + 1
    BY <2>2, <1>2, <1>6, <1>7
  <2>. QED BY <2>1, <2>2, <1>3, <1>4
<1>9. ASSUME NEW i \in DOMAIN vs, NEW j \in DOMAIN vs, i # j
      PROVE  /\ vs[i].id # vs[j].id
             /\ vs[i].app = vs[j].app /\ vs[i].data = vs[j].data => vs[i].data = NoState
  <2>1. CASE i \in 1 .. Len(ws) /\ j \in 1 .. Len(ws)
    BY <2>1, <1>1, <1>2, <1>9 DEF GoodList
  <2>2. CASE i \in 1 .. Len(ws) /\ j = Len(ws) + 1
    BY <2>2, <1>2, <1>5, <1>6, <1>7
  <2>3. CASE j \in 1 .. Len(ws) /\ i = Len(ws) + 1
    BY <2>3, <1>2, <1>5, <1>6, <1>7
  <2>. QED BY <2>1, <2>2, <2>3, <1>3, <1>4, <1>9
<1>10. next \in Ids(vs) /\ Ids(ws) \subseteq Ids(vs)
  <2>1. Len(ws) + 1 \in DOMAIN vs /\ \A i \in DOMAIN ws : i \in DOMAIN vs /\ ws[i].id = vs[i].id
    BY <1>1, <1>2, <1>3
  <2>. QED BY <2>1, <1>2 DEF Ids
<1>11. Len(vs) <= MAX_WINDOWS
  BY <1>1, <1>2, DesktopAssumption
<1>. QED BY <1>2, <1>8, <1>9, <1>10, <1>11 DEF GoodList, vs

\* The desktop with the new window, before the window is focused.
NewWindow(d, app) ==
  [id |-> d.next_window_id, app |-> app, data |-> StateFor(d, app), look |-> NewLook,
   focused |-> FALSE]

Opened(d, app) ==
  [d EXCEPT !.windows = Append(@, NewWindow(d, app)), !.next_window_id = @ + 1,
            !.states_used[app] = IF NewWindow(d, app).data = NoState THEN @ ELSE @ + 1]

LEMMA OpenedSound ==
  ASSUME NEW d, Good(d), NEW app \in App, ~(Len(d.windows) >= MAX_WINDOWS),
         NEW f, f = Opened(d, app)
  PROVE  /\ Sound(f) /\ Create(d, app) = desktop_focus_window(f, d.next_window_id)
         /\ f.windows = Append(d.windows, NewWindow(d, app))
         /\ f.next_window_id = d.next_window_id + 1 /\ f.active_window = d.active_window
         /\ d.next_window_id \in Ids(f.windows) /\ Ids(d.windows) \subseteq Ids(f.windows)
<1>. DEFINE new  == NewWindow(d, app)
            more == [d.states_used EXCEPT ![app] = IF new.data = NoState THEN @ ELSE @ + 1]
<1>1. /\ d.windows \in Seq(WindowT) /\ Len(d.windows) \in Nat
      /\ d.next_window_id \in Nat \ {0} /\ d.states_used \in [App -> 0 .. MAX_WINDOWS]
      /\ GoodList(d.windows, d.next_window_id, d.states_used) /\ d \in DesktopT
  BY DomainIs DEF Good, Sound, DesktopT
<1>2. new.data = (IF d.states_used[app] < MAX_WINDOWS THEN d.states_used[app] ELSE NoState)
  BY DEF StateFor, NewWindow
<1>3. /\ new \in WindowT /\ new.id = d.next_window_id /\ new.app = app
      /\ \/ new.data = NoState
         \/ new.data = d.states_used[app] /\ d.states_used[app] < MAX_WINDOWS
  <2>1. new.data \in 0 .. MAX_WINDOWS - 1 \union {NoState}
    <3>1. d.states_used[app] \in 0 .. MAX_WINDOWS
      BY <1>1
    <3>. QED BY <3>1, <1>2, DesktopAssumption
  <2>2. new \in WindowT
    BY <1>1, <2>1, DesktopAssumption DEF WindowT, NewWindow
  <2>3. new.id = d.next_window_id /\ new.app = app
    BY DEF NewWindow
  <2>4. new.data = NoState \/ (new.data = d.states_used[app] /\ d.states_used[app] < MAX_WINDOWS)
    BY <1>2
  <2>. HIDE DEF new
  <2>. QED BY <2>2, <2>3, <2>4
<1>4. /\ more \in [App -> 0 .. MAX_WINDOWS] /\ \A a \in App : d.states_used[a] <= more[a]
      /\ \/ new.data = NoState
         \/ new.data = d.states_used[app] /\ new.data < more[app]
  BY <1>1, <1>2, <1>3, DesktopAssumption DEF NoState
<1>5. /\ f.windows = Append(d.windows, new) /\ f.next_window_id = d.next_window_id + 1
      /\ f.states_used = more /\ f.active_window = d.active_window
  BY <1>1 DEF DesktopT, Opened
<1>6. Create(d, app) = desktop_focus_window(f, d.next_window_id)
  BY DEF Create, Opened, NewWindow
<1>. HIDE DEF new, more
<1>7. /\ GoodList(f.windows, f.next_window_id, f.states_used)
      /\ new.id \in Ids(f.windows) /\ Ids(d.windows) \subseteq Ids(f.windows)
  <2>1. Len(d.windows) < MAX_WINDOWS
    BY <1>1, DesktopAssumption
  <2>2. new.data = NoState \/ (new.data = d.states_used[new.app] /\ new.data < more[new.app])
    BY <1>3, <1>4
  <2>3. /\ GoodList(Append(d.windows, new), d.next_window_id + 1, more)
        /\ d.next_window_id \in Ids(Append(d.windows, new))
        /\ Ids(d.windows) \subseteq Ids(Append(d.windows, new))
    BY <2>1, <2>2, <1>1, <1>3, <1>4, AppendGood
  <2>. QED BY <2>3, <1>3, <1>5
<1>8. f \in DesktopT
  <2>1. f.windows \in Seq(WindowT) /\ f.next_window_id \in Nat \ {0}
    <3>1. d.next_window_id + 1 \in Nat \ {0}
      BY <1>1
    <3>. QED BY <3>1, <1>5, <1>7 DEF GoodList
  <2>2. f = [d EXCEPT !.windows = f.windows, !.next_window_id = f.next_window_id,
                      !.states_used = more]
    BY <1>1, <1>5 DEF DesktopT, Opened, more, new
  <2>. QED BY <2>1, <2>2, <1>1, <1>4 DEF DesktopT
<1>. QED BY <1>1, <1>3, <1>5, <1>6, <1>7, <1>8 DEF Sound, new

LEMMA CreateGood ==
  ASSUME NEW d, Good(d), NEW app \in App, NEW e, e = Create(d, app)
  PROVE  Good(e) /\ e.active_window = d.active_window
<1>1. CASE Len(d.windows) >= MAX_WINDOWS
  BY <1>1 DEF Create
<1>2. CASE ~(Len(d.windows) >= MAX_WINDOWS)
  <2>. DEFINE f == Opened(d, app)
  <2>1. /\ Sound(f) /\ e = desktop_focus_window(f, d.next_window_id)
        /\ f.active_window = d.active_window /\ d.next_window_id \in Ids(f.windows)
        /\ Ids(d.windows) \subseteq Ids(f.windows)
    BY <1>2, OpenedSound
  <2>. HIDE DEF f
  <2>2. /\ Sound(e) /\ Topped(e) /\ Ids(e.windows) = Ids(f.windows)
        /\ e.active_window = f.active_window
    BY <2>1, FocusGood
  <2>. QED BY <2>1, <2>2 DEF Good, Gripped
<1>. QED BY <1>1, <1>2

\* The desktop without the window, before another one is focused.
Closed(d, id) ==
  [d EXCEPT !.windows = Without(@, id), !.focused_window = 0, !.needs_redraw = TRUE,
            !.active_window = IF @ = id THEN 0 ELSE @,
            !.active_hit = IF d.active_window = id THEN "none" ELSE @]

LEMMA ClosedSound ==
  ASSUME NEW d, Good(d), NEW id, NEW f, f = Closed(d, id)
  PROVE  /\ Sound(f) /\ Gripped(f) /\ f.active_window \in {0, d.active_window}
         /\ f.windows = Without(d.windows, id) /\ f.focused_window = 0
         /\ f.next_window_id = d.next_window_id /\ f.needs_redraw = TRUE
<1>. DEFINE left == Without(d.windows, id)
<1>1. /\ GoodList(left, d.next_window_id, d.states_used) /\ Ids(left) = Ids(d.windows) \ {id}
      /\ d \in DesktopT
  BY WithoutGood DEF Good, Sound
<1>. HIDE DEF left
<1>2. left \in Seq(WindowT)
  BY <1>1 DEF GoodList
<1>3. /\ f.windows = left /\ f.focused_window = 0 /\ f.needs_redraw = TRUE
      /\ f.next_window_id = d.next_window_id /\ f.states_used = d.states_used
      /\ f.active_window = IF d.active_window = id THEN 0 ELSE d.active_window
  BY <1>1 DEF DesktopT, Closed, left
<1>4. f \in DesktopT
  BY <1>1, <1>2 DEF DesktopT, Closed, left
<1>. QED BY <1>1, <1>3, <1>4 DEF Good, Sound, Gripped, left

LEMMA CloseGood ==
  ASSUME NEW d, Good(d), NEW id, NEW e, e = desktop_close_window(d, id)
  PROVE  Good(e) /\ e.active_window \in {0, d.active_window}
<1>. DEFINE left == Without(d.windows, id)
            f == Closed(d, id)
<1>1. e = IF left = <<>> THEN f ELSE desktop_focus_window(f, Last(left).id)
  BY DEF desktop_close_window, Closed
<1>2. /\ Sound(f) /\ Gripped(f) /\ f.active_window \in {0, d.active_window}
      /\ f.windows = left /\ f.focused_window = 0
  BY ClosedSound
<1>. HIDE DEF f, left
<1>3. /\ left \in Seq(WindowT) /\ DOMAIN left = 1 .. Len(left) /\ Len(left) \in Nat
      /\ left = <<>> => Len(left) = 0
      /\ left # <<>> => Len(left) \in 1 .. Len(left)
  BY <1>2, DomainIs, EmptySeq DEF Sound, GoodList
<1>4. CASE left = <<>>
  <2>1. Topped(f)
    BY <1>2, <1>3, <1>4 DEF Topped
  <2>. QED BY <1>1, <1>2, <1>4, <2>1 DEF Good
<1>5. CASE left # <<>>
  <2>1. Last(left).id \in Ids(f.windows)
    BY <1>2, <1>3, <1>5 DEF Last, Ids
  <2>2. e = desktop_focus_window(f, Last(left).id)
    BY <1>1, <1>5
  <2>3. /\ Sound(e) /\ Topped(e) /\ Ids(e.windows) = Ids(f.windows)
        /\ e.active_window = f.active_window
    BY <1>2, <2>1, <2>2, FocusGood
  <2>. QED BY <1>2, <2>3 DEF Good, Gripped
<1>. QED BY <1>4, <1>5

LEMMA RedressGood ==
  ASSUME NEW d, Good(d), NEW id, NEW look \in Look, NEW e, e = Redress(d, id, look)
  PROVE  /\ Good(e) /\ e.active_window = d.active_window
         /\ Ids(e.windows) = Ids(d.windows)
<1>. DEFINE ws == d.windows
            vs == [i \in DOMAIN ws |-> IF ws[i].id = id THEN [ws[i] EXCEPT !.look = look]
                                       ELSE ws[i]]
<1>1. /\ ws \in Seq(WindowT) /\ DOMAIN ws = 1 .. Len(ws) /\ Len(ws) \in Nat
      /\ GoodList(ws, d.next_window_id, d.states_used) /\ d \in DesktopT
      /\ \A i \in 1 .. Len(ws) : ws[i] \in WindowT
  BY DomainIs DEF Good, Sound, GoodList
<1>2. e = [d EXCEPT !.windows = vs, !.needs_redraw = TRUE]
  BY DEF Redress
<1>3. \A i \in 1 .. Len(ws) :
        /\ vs[i] \in WindowT /\ vs[i].id = ws[i].id /\ vs[i].app = ws[i].app
        /\ vs[i].data = ws[i].data /\ vs[i].focused = ws[i].focused
  BY <1>1 DEF WindowT
<1>4. vs \in Seq(WindowT) /\ Len(vs) = Len(ws) /\ DOMAIN vs = 1 .. Len(vs)
  <2>1. DOMAIN vs = 1 .. Len(ws) /\ vs = [i \in 1 .. Len(ws) |-> vs[i]]
    BY <1>1
  <2>. HIDE DEF vs
  <2>. QED BY <1>1, <1>3, <2>1, SeqOfFunction
<1>. HIDE DEF vs
<1>5. GoodList(vs, d.next_window_id, d.states_used) /\ Ids(vs) = Ids(ws)
  BY <1>1, <1>3, <1>4, SameListGood
<1>6. /\ e \in DesktopT /\ e.windows = vs /\ e.next_window_id = d.next_window_id
      /\ e.states_used = d.states_used /\ e.focused_window = d.focused_window
      /\ e.active_window = d.active_window
  BY <1>1, <1>2, <1>4 DEF DesktopT
<1>7. Topped(e)
  <2>1. Len(ws) # 0 => Len(ws) \in 1 .. Len(ws)
    BY <1>1
  <2>. QED BY <2>1, <1>3, <1>4, <1>6 DEF Good, Topped
<1>. QED BY <1>5, <1>6, <1>7 DEF Good, Sound, Gripped

LEMMA CycleGood ==
  ASSUME NEW d, Good(d), NEW e, e = desktop_cycle_focus(d)
  PROVE  Good(e) /\ e.active_window = d.active_window
<1>1. e = d \/ \E id : e = desktop_focus_window(d, id)
  BY DEF desktop_cycle_focus
<1>. QED BY <1>1, RefocusGood

-----------------------------------------------------------------------------
(* Mouse events.                                                           *)

LEMMA MoveGood ==
  ASSUME NEW d, Good(d), NEW at \in Position, NEW left \in BOOLEAN, NEW look \in Look,
         NEW e, e = HandleMove(d, at, left, look)
  PROVE  Good(e) /\ e.active_window = d.active_window
<1>. DEFINE f == desktop_set_dirty([d EXCEPT !.mouse = at])
<1>1. Good(f) /\ f.active_window = d.active_window
  <2>1. Good([d EXCEPT !.mouse = at])
    BY FlagsGood
  <2>2. d \in DesktopT
    BY DEF Good, Sound
  <2>. QED BY <2>1, <2>2, FlagsGood DEF desktop_set_dirty, DesktopT
<1>2. e \in {d, f, Redress(f, d.active_window, look)}
  BY DEF HandleMove
<1>. HIDE DEF f
<1>. QED BY <1>1, <1>2, RedressGood

LEMMA PressWindowGood ==
  ASSUME NEW d, Good(d), NEW i \in DOMAIN d.windows, NEW hit \in Hit, NEW look \in Look,
         NEW e, e = PressWindow(d, i, hit, look)
  PROVE  Good(e)
<1>. DEFINE id == d.windows[i].id
            f  == desktop_focus_window(d, id)
            g  == [f EXCEPT !.active_window = id, !.active_hit = hit]
<1>1. id \in Ids(d.windows) /\ d \in DesktopT
  BY DEF Ids, Good, Sound
<1>2. Good(f) /\ Ids(f.windows) = Ids(d.windows)
  BY <1>1, RefocusGood
<1>3. id \in Nat
  <2>1. d.windows \in Seq(WindowT)
    BY <1>1 DEF DesktopT
  <2>2. d.windows[i] \in WindowT
    BY <2>1, DomainIs
  <2>. QED BY <2>2 DEF WindowT
<1>4. e \in {desktop_close_window(d, id), Redress(f, id, look), Redress(g, id, look),
              desktop_set_dirty(g)}
  BY DEF PressWindow, Hit
<1>. HIDE DEF f, id
<1>5. /\ g \in DesktopT /\ g.windows = f.windows /\ g.next_window_id = f.next_window_id
      /\ g.states_used = f.states_used /\ g.focused_window = f.focused_window
      /\ g.active_window = id
  BY <1>2, <1>3 DEF Good, Sound, DesktopT
<1>. HIDE DEF g
<1>6. Good(g)
  BY <1>1, <1>2, <1>5 DEF Good, Sound, Topped, Gripped
<1>. QED BY <1>2, <1>4, <1>6, CloseGood, RedressGood, FlagsGood

LEMMA PressLeftGood ==
  ASSUME NEW d, Good(d), NEW target \in TargetsOf(d), NEW look \in Look,
         NEW e, e = PressLeft(d, target, look)
  PROVE  Good(e)
<1>1. CASE target.kind = "start"
  BY <1>1, FlagsGood DEF PressLeft
<1>2. CASE target.kind = "item"
  <2>1. target.app \in App
    BY <1>2 DEF TargetsOf
  <2>2. Good(Create(d, target.app))
    BY <2>1, CreateGood
  <2>. QED BY <1>2, <2>2, FlagsGood DEF PressLeft
<1>3. CASE target.kind = "taskbar"
  BY <1>3, RefocusGood, FlagsGood DEF PressLeft
<1>4. CASE target.kind = "window"
  <2>1. target.index \in DOMAIN d.windows /\ target.hit \in Hit
    BY <1>4 DEF TargetsOf
  <2>. QED BY <1>4, <2>1, PressWindowGood DEF PressLeft
<1>5. CASE target.kind = "wallpaper"
  BY <1>5, FlagsGood DEF PressLeft
<1>6. target.kind \in {"start", "item", "taskbar", "window", "wallpaper"}
  BY DEF TargetsOf
<1>. QED BY <1>1, <1>2, <1>3, <1>4, <1>5, <1>6

LEMMA PressGood ==
  ASSUME NEW d, Good(d), NEW at \in Position, NEW button, NEW target, NEW look \in Look,
         button = "left" => target \in TargetsOf(d),
         NEW e, e = HandlePress(d, at, button, target, look)
  PROVE  Good(e) /\ (button # "left" => e.active_window = d.active_window)
<1>. DEFINE f == [d EXCEPT !.mouse = at]
<1>1. /\ Good(f) /\ f.active_window = d.active_window /\ TargetsOf(f) = TargetsOf(d)
  <2>1. Good(f)
    BY FlagsGood
  <2>2. d \in DesktopT
    BY DEF Good, Sound
  <2>. QED BY <2>1, <2>2 DEF DesktopT, TargetsOf
<1>2. e = IF button = "left" THEN PressLeft(f, target, look) ELSE f
  BY DEF HandlePress
<1>. HIDE DEF f
<1>. QED BY <1>1, <1>2, PressLeftGood

LEMMA ReleaseGood ==
  ASSUME NEW d, Good(d), NEW button, NEW e, e = HandleRelease(d, button)
  PROVE  /\ Good(e) /\ e.active_window \in {0, d.active_window}
         /\ button = "left" => e.active_window = 0
<1>1. d \in DesktopT
  BY DEF Good, Sound
<1>2. SameWindows(d, e)
  BY <1>1 DEF SameWindows, HandleRelease, DesktopT
<1>3. button = "left" => e.active_window = 0
  BY <1>1 DEF HandleRelease, DesktopT
<1>. QED BY <1>2, <1>3, SameWindowsGood DEF SameWindows

InputT == [count : 0 .. INPUT_QUEUE_SIZE, pointer : Position, left : BOOLEAN]

\* A pair of g_input and g_desktop between two events.
PairGood(s) ==
  /\ s.input \in InputT /\ Good(s.desk)
  /\ s.desk.active_window # 0 => s.input.left = TRUE

LEMMA ButtonGood ==
  ASSUME NEW s, PairGood(s), NEW button, NEW pressed \in BOOLEAN, NEW target, NEW look \in Look,
         button = "left" /\ pressed => target \in TargetsOf(s.desk),
         NEW t, t = PostButton(s, button, pressed, target, look)
  PROVE  PairGood(t)
<1>1. CASE ~Accepts(s)
  BY <1>1 DEF PostButton
<1>2. CASE Accepts(s)
  <2>1. s.input.count \in Nat /\ s.input.count + 1 \in 0 .. INPUT_QUEUE_SIZE
    BY <1>2, DesktopAssumption DEF PairGood, InputT, Accepts
  <2>2. /\ t.input = [s.input EXCEPT !.count = @ + 1,
                                     !.left = IF button = "left" THEN pressed ELSE @]
        /\ t.desk = IF pressed THEN HandlePress(s.desk, s.input.pointer, button, target, look)
                    ELSE HandleRelease(s.desk, button)
    BY <1>2 DEF PostButton
  <2>3. /\ t.input \in InputT
        /\ t.input.left = IF button = "left" THEN pressed ELSE s.input.left
    BY <2>1, <2>2 DEF PairGood, InputT
  <2>4. CASE pressed
    <3>1. /\ Good(t.desk)
          /\ button # "left" => t.desk.active_window = s.desk.active_window
      BY <2>2, <2>4, PressGood DEF PairGood, InputT
    <3>. QED BY <2>3, <2>4, <3>1 DEF PairGood
  <2>5. CASE ~pressed
    <3>1. /\ Good(t.desk) /\ t.desk.active_window \in {0, s.desk.active_window}
          /\ button = "left" => t.desk.active_window = 0
      BY <2>2, <2>5, ReleaseGood DEF PairGood
    <3>. QED BY <2>3, <3>1 DEF PairGood
  <2>. QED BY <2>4, <2>5
<1>. QED BY <1>1, <1>2

LEMMA MovementGood ==
  ASSUME NEW s, PairGood(s), NEW to \in Position, NEW look \in Look,
         NEW t, t = PostMove(s, to, look)
  PROVE  PairGood(t)
<1>1. CASE ~Accepts(s)
  BY <1>1 DEF PostMove
<1>2. CASE Accepts(s)
  <2>1. s.input.count \in Nat /\ s.input.count + 1 \in 0 .. INPUT_QUEUE_SIZE
    BY <1>2, DesktopAssumption DEF PairGood, InputT, Accepts
  <2>2. /\ t.input = [s.input EXCEPT !.count = @ + 1, !.pointer = to]
        /\ t.desk = HandleMove(s.desk, s.input.pointer, s.input.left, look)
    BY <1>2 DEF PostMove
  <2>3. t.input \in InputT /\ t.input.left = s.input.left
    BY <2>1, <2>2 DEF PairGood, InputT
  <2>4. Good(t.desk) /\ t.desk.active_window = s.desk.active_window
    BY <2>2, MoveGood DEF PairGood, InputT
  <2>. QED BY <2>3, <2>4 DEF PairGood
<1>. QED BY <1>1, <1>2

-----------------------------------------------------------------------------
(* The inductive invariant.                                                *)

IInv == PairGood([input |-> input, desk |-> desk]) /\ driver \in BOOLEAN

LEMMA IInvIs ==
  IInv <=> /\ input \in InputT /\ Good(desk) /\ driver \in BOOLEAN
           /\ desk.active_window # 0 => input.left = TRUE
BY DEF IInv, PairGood

\* Some packet, with everything in it as it should be.
LEMMA SomePacket ==
  ASSUME IInv, MousePacket
  PROVE  \E left \in BOOLEAN, other \in OtherChanges, moved \in BOOLEAN :
         \E to, target : \E look \in Look :
           /\ moved => to \in Position
           /\ left /\ ~driver => target \in TargetsOf(desk)
           /\ Packet(left, other, moved, to, look, target)
<1>1. PICK left \in BOOLEAN, other \in OtherChanges, moved \in BOOLEAN :
        \E to \in IF moved THEN Position ELSE {input.pointer},
           look \in IF left THEN Look ELSE {NewLook} :
        \E target \in IF left /\ ~driver THEN TargetsOf(desk) ELSE [kind : {"wallpaper"}] :
          Packet(left, other, moved, to, look, target)
  BY DEF MousePacket
<1>2. PICK to \in IF moved THEN Position ELSE {input.pointer},
           look \in IF left THEN Look ELSE {NewLook},
           target \in IF left /\ ~driver THEN TargetsOf(desk) ELSE [kind : {"wallpaper"}] :
        Packet(left, other, moved, to, look, target)
  BY <1>1
<1>3. look \in Look /\ (moved => to \in Position) /\ (left /\ ~driver => target \in TargetsOf(desk))
  BY DesktopAssumption DEF IInv
<1>. QED BY <1>2, <1>3

LEMMA InitGood ==
  ASSUME NEW p \in Position
  PROVE  Good(desktop_init(p)) /\ desktop_init(p).active_window = 0
<1>1. <<>> \in Seq(WindowT) /\ Len(<<>>) = 0 /\ DOMAIN <<>> = {}
  BY EmptySeq
<1>2. desktop_init(p) \in DesktopT
  <2>1. [a \in App |-> 0] \in [App -> 0 .. MAX_WINDOWS]
    BY DesktopAssumption
  <2>. QED BY <1>1, <2>1 DEF desktop_init, DesktopT
<1>3. GoodList(<<>>, 1, [a \in App |-> 0])
  BY <1>1, DesktopAssumption DEF GoodList
<1>. QED BY <1>1, <1>2, <1>3 DEF desktop_init, Good, Sound, Topped, Gripped

LEMMA InitIInv == Init => IInv
<1>. SUFFICES ASSUME NEW p \in Position,
                     desk = Create(desktop_init(p), Notepad),
                     input = [count |-> 0, pointer |-> p, left |-> FALSE], driver = FALSE
              PROVE  IInv
  BY DEF Init
<1>1. Good(desktop_init(p)) /\ desktop_init(p).active_window = 0
  BY InitGood
<1>2. Notepad \in App
  BY DEF App
<1>3. Good(desk) /\ desk.active_window = 0
  BY <1>1, <1>2, CreateGood
<1>4. input \in InputT
  BY DesktopAssumption DEF InputT
<1>. QED BY <1>3, <1>4, IInvIs

LEMMA OtherGood ==
  ASSUME NEW s, PairGood(s), NEW change, NEW look \in Look, NEW target
  PROVE  PairGood(PostOther(s, change, target, look))
<1>1. CASE change = "none"
  BY <1>1 DEF PostOther
<1>2. CASE change # "none"
  <2>. DEFINE pressed == change = "press"
  <2>1. pressed \in BOOLEAN /\ PostOther(s, change, target, look) = PostButton(s, "other", pressed, target, look)
    BY <1>2 DEF PostOther
  <2>. HIDE DEF pressed
  <2>. QED BY <2>1, ButtonGood
<1>. QED BY <1>1, <1>2

LEMMA PacketGood ==
  ASSUME NEW s, PairGood(s), driver \in BOOLEAN, NEW left \in BOOLEAN,
         NEW other, NEW moved \in BOOLEAN, NEW to, moved => to \in Position, NEW look \in Look,
         NEW target, left /\ ~driver => target \in TargetsOf(s.desk),
         NEW t, t = mouse_handler(s, left, other, moved, to, look, target)
  PROVE  PairGood(t)
<1>. DEFINE s1 == IF left = driver THEN s ELSE PostButton(s, "left", left, target, look)
            s3 == PostOther(s1, other["right"], target, look)
            s2 == PostOther(s3, other["middle"], target, look)
<1>1. PairGood(s1)
  BY ButtonGood
<1>2. t = IF moved THEN PostMove(s2, to, look) ELSE s2
  BY DEF mouse_handler
<1>. HIDE DEF s1
<1>3. PairGood(s3)
  BY <1>1, OtherGood
<1>. HIDE DEF s3
<1>4. PairGood(s2)
  BY <1>3, OtherGood
<1>. HIDE DEF s2
<1>. QED BY <1>2, <1>4, MovementGood

LEMMA PacketStep == IInv /\ MousePacket => IInv'
<1>. SUFFICES ASSUME IInv, MousePacket PROVE IInv'
  OBVIOUS
<1>1. PICK left \in BOOLEAN, other \in OtherChanges, moved \in BOOLEAN :
        \E to \in IF moved THEN Position ELSE {input.pointer},
           look \in IF left THEN Look ELSE {NewLook} :
        \E target \in IF left /\ ~driver THEN TargetsOf(desk) ELSE [kind : {"wallpaper"}] :
          Packet(left, other, moved, to, look, target)
  BY DEF MousePacket
<1>2. PICK to \in IF moved THEN Position ELSE {input.pointer},
           look \in IF left THEN Look ELSE {NewLook},
           target \in IF left /\ ~driver THEN TargetsOf(desk) ELSE [kind : {"wallpaper"}] :
        Packet(left, other, moved, to, look, target)
  BY <1>1
<1>. DEFINE s == [input |-> input, desk |-> desk]
            t == mouse_handler(s, left, other, moved, to, look, target)
<1>3. look \in Look /\ (moved => to \in Position) /\ driver \in BOOLEAN /\ PairGood(s)
      /\ (left /\ ~driver => target \in TargetsOf(s.desk))
  BY DesktopAssumption DEF IInv
<1>4. driver' = left /\ input' = t.input /\ desk' = t.desk
  BY <1>2 DEF Packet
<1>. HIDE DEF s
<1>5. PairGood(t)
  BY <1>3, PacketGood
<1>. HIDE DEF t
<1>6. /\ input' \in InputT /\ Good(desk') /\ driver' \in BOOLEAN
      /\ desk'.active_window # 0 => input'.left = TRUE
  BY <1>4, <1>5 DEF PairGood
<1>. QED BY <1>6 DEF IInv, PairGood

\* Keys change no button: a drag goes on, or its window was closed.
LEMMA KeyStep ==
  ASSUME IInv, NEW d, Good(d), d.active_window \in {0, desk.active_window}, Key(d)
  PROVE  IInv'
BY DEF Key, IInv, PairGood

LEMMA CreationKeys ==
  ASSUME IInv, NEW a \in App, DigitKey(a) \/ FunctionKey(a) \/ StarterKey
  PROVE  IInv'
<1>. DEFINE d1 == Create(desk, Notepad)
            d2 == Create(d1, Calculator)
            d3 == Create(d2, Sysinfo)
            d  == Create(desk, a)
<1>1. Good(desk) /\ Notepad \in App /\ Calculator \in App /\ Sysinfo \in App
  BY DEF IInv, PairGood, App
<1>2. Good(d) /\ d.active_window = desk.active_window
  BY <1>1, CreateGood
<1>3. Good(d1) /\ d1.active_window = desk.active_window
  BY <1>1, CreateGood
<1>. HIDE DEF d, d1
<1>4. Good(d2) /\ d2.active_window = desk.active_window
  BY <1>1, <1>3, CreateGood
<1>. HIDE DEF d2
<1>5. Good(d3) /\ d3.active_window = desk.active_window
  BY <1>1, <1>4, CreateGood
<1>. HIDE DEF d3
<1>6. ASSUME NEW e, Good(e), e.active_window = desk.active_window
      PROVE  /\ Good(desktop_set_dirty(e)) /\ Good(CloseMenu(e))
             /\ desktop_set_dirty(e).active_window = desk.active_window
             /\ CloseMenu(e).active_window = desk.active_window
  BY <1>6, FlagsGood DEF desktop_set_dirty, CloseMenu, Good, Sound, DesktopT
<1>7. CASE DigitKey(a)
  <2>1. Key(IF desk.start_menu_open THEN CloseMenu(d) ELSE desktop_set_dirty(d))
    BY <1>7 DEF DigitKey, d
  <2>. QED BY <1>2, <1>6, <2>1, KeyStep
<1>8. CASE FunctionKey(a)
  <2>1. Key(desktop_set_dirty(d))
    BY <1>8 DEF FunctionKey, d
  <2>. QED BY <1>2, <1>6, <2>1, KeyStep
<1>9. CASE StarterKey
  <2>1. Key(desktop_set_dirty(d3))
    BY <1>9 DEF StarterKey, d1, d2, d3
  <2>. QED BY <1>5, <1>6, <2>1, KeyStep
<1>. QED BY <1>7, <1>8, <1>9

LEMMA OtherKeys ==
  ASSUME IInv,
         MenuKey \/ CycleKey \/ CloseKey \/ RaiseKey \/ \E look \in Look : LookKey(look)
  PROVE  IInv'
<1>1. Good(desk) /\ desk \in DesktopT
  BY DEF IInv, PairGood, Good, Sound
<1>2. CASE MenuKey
  <2>1. Good(ToggleMenu(desk)) /\ ToggleMenu(desk).active_window = desk.active_window
    BY <1>1, FlagsGood DEF ToggleMenu, DesktopT
  <2>. QED BY <1>2, <2>1, KeyStep DEF MenuKey
<1>3. CASE CycleKey
  <2>. DEFINE d == desktop_cycle_focus(desk)
  <2>1. Good(d) /\ d.active_window = desk.active_window
    BY <1>1, CycleGood
  <2>2. Key(desktop_set_dirty(d))
    BY <1>3 DEF CycleKey
  <2>. HIDE DEF d
  <2>3. Good(desktop_set_dirty(d)) /\ desktop_set_dirty(d).active_window = desk.active_window
    BY <2>1, FlagsGood DEF desktop_set_dirty, Good, Sound, DesktopT
  <2>. QED BY <2>2, <2>3, KeyStep
<1>4. CASE CloseKey
  BY <1>1, <1>4, CloseGood, KeyStep DEF CloseKey
<1>5. CASE RaiseKey
  BY <1>1, <1>5, RefocusGood, KeyStep DEF RaiseKey
<1>6. CASE \E look \in Look : LookKey(look)
  BY <1>1, <1>6, RedressGood, KeyStep DEF LookKey
<1>. QED BY <1>2, <1>3, <1>4, <1>5, <1>6

LEMMA DrawStep == IInv /\ (TakeUpRequest \/ ReadPointer) => IInv'
<1>. SUFFICES ASSUME IInv, TakeUpRequest \/ ReadPointer PROVE IInv'
  OBVIOUS
<1>1. Good(desk) /\ desk \in DesktopT /\ input.pointer \in Position
  BY DEF IInv, PairGood, Good, Sound, InputT
<1>2. SameWindows(desk, desk') /\ desk'.active_window = desk.active_window
  BY <1>1 DEF TakeUpRequest, ReadPointer, SameWindows, DesktopT
<1>3. Good(desk')
  BY <1>1, <1>2, SameWindowsGood
<1>4. input' = input /\ driver' = driver
  BY DEF TakeUpRequest, ReadPointer
<1>. QED BY <1>2, <1>3, <1>4 DEF IInv, PairGood

LEMMA StepIInv == IInv /\ [Next]_deskVars => IInv'
<1>. SUFFICES ASSUME IInv, [Next]_deskVars PROVE IInv'
  OBVIOUS
<1>1. CASE MousePacket
  BY <1>1, PacketStep
<1>2. CASE \E a \in App : DigitKey(a) \/ FunctionKey(a)
  BY <1>2, CreationKeys
<1>3. CASE StarterKey
  <2>1. Notepad \in App
    BY DEF App
  <2>. QED BY <1>3, <2>1, CreationKeys
<1>4. CASE MenuKey \/ CycleKey \/ CloseKey \/ RaiseKey \/ \E look \in Look : LookKey(look)
  BY <1>4, OtherKeys
<1>5. CASE TakeUpRequest \/ ReadPointer
  BY <1>5, DrawStep
<1>6. CASE UNCHANGED deskVars
  BY <1>6 DEF deskVars, IInv, PairGood
<1>. QED BY <1>1, <1>2, <1>3, <1>4, <1>5, <1>6 DEF Next, UserStep

LEMMA Invariance == Spec => []IInv
BY InitIInv, StepIInv, PTL DEF Spec

-----------------------------------------------------------------------------
(* What the events do to the queue and to the button.                      *)

\* After an event that leaves room there was room before it, and it arrived.
Room(s) == s.input.count < INPUT_QUEUE_SIZE

LEMMA ButtonArrives ==
  ASSUME NEW s, s.input \in InputT, NEW button, NEW pressed \in BOOLEAN, NEW target, NEW look,
         NEW t, t = PostButton(s, button, pressed, target, look)
  PROVE  /\ t.input \in InputT
         /\ Room(t) => Room(s)
         /\ Room(t) => t.input.left = IF button = "left" THEN pressed ELSE s.input.left
<1>1. CASE ~Accepts(s)
  BY <1>1 DEF PostButton, Accepts, Room
<1>2. CASE Accepts(s)
  <2>1. s.input.count \in Nat /\ s.input.count + 1 \in 0 .. INPUT_QUEUE_SIZE
    BY <1>2, DesktopAssumption DEF InputT, Accepts
  <2>2. t.input = [s.input EXCEPT !.count = @ + 1,
                                  !.left = IF button = "left" THEN pressed ELSE @]
    BY <1>2 DEF PostButton
  <2>. QED BY <1>2, <2>1, <2>2 DEF InputT, Accepts, Room
<1>. QED BY <1>1, <1>2

LEMMA MovementArrives ==
  ASSUME NEW s, s.input \in InputT, NEW to \in Position, NEW look,
         NEW t, t = PostMove(s, to, look)
  PROVE  /\ Room(t) => Room(s)
         /\ t.input.left = s.input.left
<1>1. CASE ~Accepts(s)
  BY <1>1 DEF PostMove
<1>2. CASE Accepts(s)
  <2>1. t.input = [s.input EXCEPT !.count = @ + 1, !.pointer = to]
    BY <1>2 DEF PostMove
  <2>. QED BY <1>2, <2>1 DEF InputT, Accepts, Room
<1>. QED BY <1>1, <1>2

LEMMA OtherArrives ==
  ASSUME NEW s, s.input \in InputT, NEW change, NEW target, NEW look,
         NEW t, t = PostOther(s, change, target, look)
  PROVE  /\ t.input \in InputT
         /\ Room(t) => Room(s)
         /\ Room(t) => t.input.left = s.input.left
<1>1. CASE change = "none"
  BY <1>1 DEF PostOther
<1>2. CASE change # "none"
  <2>. DEFINE pressed == change = "press"
  <2>1. pressed \in BOOLEAN /\ t = PostButton(s, "other", pressed, target, look)
    BY <1>2 DEF PostOther
  <2>. HIDE DEF pressed
  <2>2. /\ t.input \in InputT
        /\ Room(t) => Room(s)
        /\ Room(t) => t.input.left = IF "other" = "left" THEN pressed ELSE s.input.left
    BY <2>1, ButtonArrives
  <2>. QED BY <2>2
<1>. QED BY <1>1, <1>2

LEMMA PacketArrives ==
  ASSUME NEW s, s.input \in InputT, Room(s) => driver = s.input.left, NEW left \in BOOLEAN,
         NEW other, NEW moved \in BOOLEAN, NEW to, moved => to \in Position, NEW look, NEW target,
         NEW t, t = mouse_handler(s, left, other, moved, to, look, target)
  PROVE  Room(t) => left = t.input.left
<1>. DEFINE s1 == IF left = driver THEN s ELSE PostButton(s, "left", left, target, look)
            s3 == PostOther(s1, other["right"], target, look)
            s2 == PostOther(s3, other["middle"], target, look)
<1>1. s1.input \in InputT /\ (Room(s1) => left = s1.input.left)
  <2>1. CASE left = driver
    BY <2>1
  <2>2. CASE left # driver
    BY <2>2, ButtonArrives
  <2>. QED BY <2>1, <2>2
<1>2. t = IF moved THEN PostMove(s2, to, look) ELSE s2
  BY DEF mouse_handler
<1>. HIDE DEF s1
<1>3. s3.input \in InputT /\ (Room(s3) => left = s3.input.left)
  <2>. HIDE DEF s3
  <2>. QED BY <1>1, OtherArrives DEF s3
<1>. HIDE DEF s3
<1>6. s2.input \in InputT /\ (Room(s2) => left = s2.input.left)
  <2>. HIDE DEF s2
  <2>. QED BY <1>3, OtherArrives DEF s2
<1>. HIDE DEF s2
<1>4. CASE moved
  BY <1>2, <1>6, <1>4, MovementArrives
<1>5. CASE ~moved
  BY <1>2, <1>6, <1>5
<1>. QED BY <1>4, <1>5

LEMMA StepButtons ==
  IInv /\ ListenersSeeButtons /\ [Next]_deskVars => ListenersSeeButtons'
<1>. SUFFICES ASSUME IInv, ListenersSeeButtons, [Next]_deskVars PROVE ListenersSeeButtons'
  OBVIOUS
<1>1. CASE MousePacket
  <2>1. PICK left \in BOOLEAN, other \in OtherChanges, moved \in BOOLEAN :
          \E to \in IF moved THEN Position ELSE {input.pointer},
             look \in IF left THEN Look ELSE {NewLook} :
          \E target \in IF left /\ ~driver THEN TargetsOf(desk) ELSE [kind : {"wallpaper"}] :
            Packet(left, other, moved, to, look, target)
    BY <1>1 DEF MousePacket
  <2>2. PICK to \in IF moved THEN Position ELSE {input.pointer},
             look \in IF left THEN Look ELSE {NewLook},
             target \in IF left /\ ~driver THEN TargetsOf(desk) ELSE [kind : {"wallpaper"}] :
          Packet(left, other, moved, to, look, target)
    BY <2>1
  <2>. DEFINE s == [input |-> input, desk |-> desk]
              t == mouse_handler(s, left, other, moved, to, look, target)
  <2>3. driver' = left /\ input' = t.input
    BY <2>2 DEF Packet
  <2>4. s.input \in InputT /\ (Room(s) => driver = s.input.left)
    BY DEF IInv, PairGood, ListenersSeeButtons, Room
  <2>. HIDE DEF s
  <2>5. Room(t) => left = t.input.left
    BY <2>4, PacketArrives
  <2>. HIDE DEF t
  <2>. QED BY <2>3, <2>5 DEF ListenersSeeButtons, Room
<1>2. CASE UNCHANGED <<input, driver>>
  BY <1>2 DEF ListenersSeeButtons
<1>. QED
  BY <1>1, <1>2 DEF Next, UserStep, DigitKey, FunctionKey, StarterKey, MenuKey, CycleKey,
     CloseKey, RaiseKey, LookKey, Key, TakeUpRequest, ReadPointer, deskVars

-----------------------------------------------------------------------------

(* The array of windows is never overrun, and every field of g_desktop and *)
(* g_input keeps its range, whatever keys and packets come.                *)
THEOREM DesktopTypeCorrect == Spec => []TypeOK
<1>1. IInv => TypeOK
  BY DEF IInv, PairGood, InputT, Good, Sound, GoodList, TypeOK
<1>. QED BY <1>1, Invariance, PTL

(* Closing, creating, clicking and cycling leave the focus on the topmost  *)
(* window and nowhere else.                                                *)
THEOREM FocusAlwaysOnTop == Spec => []FocusOnTop
<1>1. IInv => FocusOnTop
  BY DEF IInv, PairGood, Good, Topped, FocusOnTop
<1>. QED BY <1>1, Invariance, PTL

(* A drag or resize is of an open window while the left button is down.    *)
THEOREM InteractionAlwaysReal == Spec => []InteractionIsReal
<1>1. IInv => InteractionIsReal
  BY DEF IInv, PairGood, Good, Gripped, InteractionIsReal
<1>. QED BY <1>1, Invariance, PTL

(* No two open windows of an application share a state.                    *)
THEOREM StatesAlwaysOwn == Spec => []OwnState
<1>1. IInv => OwnState
  BY DEF IInv, PairGood, Good, Sound, GoodList, OwnState
<1>. QED BY <1>1, Invariance, PTL

(* Until the input queue is full, no button that the driver saw is missed. *)
THEOREM ButtonsSeenUntilFull == Spec => []ListenersSeeButtons
<1>1. Init => ListenersSeeButtons
  <2>. SUFFICES ASSUME NEW p, input = [count |-> 0, pointer |-> p, left |-> FALSE],
                       driver = FALSE
                PROVE  driver = input.left
    BY DEF Init, ListenersSeeButtons
  <2>. QED OBVIOUS
<1>. QED BY <1>1, StepButtons, Invariance, PTL DEF Spec

-----------------------------------------------------------------------------
(* The order of the windows.  From one list to the next, windows keep      *)
(* their state, and they keep their order except for one that is raised.   *)

\* No identifier below n reappears, and a window that stays keeps its state.
Carries(ws, vs, n) ==
  /\ \A k \in DOMAIN vs : vs[k].id < n => vs[k].id \in Ids(ws)
  /\ \A i \in DOMAIN ws, k \in DOMAIN vs : vs[k].id = ws[i].id => vs[k].data = ws[i].data

InOrder(ws, vs) ==
  \A i, j \in DOMAIN ws, k, l \in DOMAIN vs :
    vs[k].id = ws[i].id /\ vs[l].id = ws[j].id /\ i < j => ~(l < k)

OneRaised(ws, vs) ==
  \A i, j \in DOMAIN ws, k, l \in DOMAIN vs :
    vs[k].id = ws[i].id /\ vs[l].id = ws[j].id /\ i < j /\ l < k => k = Len(vs)

Keeps(d, e) ==
  /\ d.next_window_id <= e.next_window_id
  /\ Carries(d.windows, e.windows, d.next_window_id)

Steady(d, e) == Keeps(d, e) /\ InOrder(d.windows, e.windows)
Raises(d, e) == Keeps(d, e) /\ OneRaised(d.windows, e.windows)

\* The same windows in the same order.
Alike(d, e) ==
  /\ e.next_window_id = d.next_window_id
  /\ Len(e.windows) = Len(d.windows) /\ DOMAIN e.windows = DOMAIN d.windows
  /\ \A k \in DOMAIN d.windows :
       e.windows[k].id = d.windows[k].id /\ e.windows[k].data = d.windows[k].data

LEMMA SoundList ==
  ASSUME NEW d, Sound(d)
  PROVE  /\ d.windows \in Seq(WindowT) /\ d \in DesktopT
         /\ DOMAIN d.windows = 1 .. Len(d.windows) /\ Len(d.windows) \in Nat
         /\ d.next_window_id \in Nat
         /\ \A i \in DOMAIN d.windows : d.windows[i].id \in Nat /\ d.windows[i].id < d.next_window_id
         /\ \A i, j \in DOMAIN d.windows : d.windows[i].id = d.windows[j].id => i = j
<1>1. d.windows \in Seq(WindowT) /\ d \in DesktopT
  BY DEF Sound, GoodList
<1>2. DOMAIN d.windows = 1 .. Len(d.windows) /\ Len(d.windows) \in Nat
      /\ \A i \in 1 .. Len(d.windows) : d.windows[i] \in WindowT
  BY <1>1, DomainIs
<1>3. d.next_window_id \in Nat
  BY <1>1 DEF DesktopT
<1>. QED BY <1>1, <1>2, <1>3 DEF Sound, GoodList, WindowT

LEMMA KeepsAgain ==
  ASSUME NEW d, NEW e, NEW f, Sound(d), Sound(e), Sound(f), Keeps(d, e), Keeps(e, f)
  PROVE  /\ Keeps(d, f)
         /\ \A i \in DOMAIN d.windows, k \in DOMAIN f.windows :
              f.windows[k].id = d.windows[i].id =>
                \E a \in DOMAIN e.windows : e.windows[a].id = d.windows[i].id
<1>1. /\ d.next_window_id \in Nat /\ e.next_window_id \in Nat /\ f.next_window_id \in Nat
      /\ d.next_window_id <= e.next_window_id /\ e.next_window_id <= f.next_window_id
  BY SoundList DEF Keeps
<1>2. ASSUME NEW k \in DOMAIN f.windows, f.windows[k].id < d.next_window_id
      PROVE  /\ \E a \in DOMAIN e.windows : e.windows[a].id = f.windows[k].id
             /\ f.windows[k].id \in Ids(d.windows)
  <2>1. f.windows[k].id \in Nat
    BY SoundList
  <2>2. f.windows[k].id < e.next_window_id
    BY <1>1, <1>2, <2>1
  <2>3. PICK a \in DOMAIN e.windows : e.windows[a].id = f.windows[k].id
    BY <2>2 DEF Keeps, Carries, Ids
  <2>. QED BY <1>2, <2>3 DEF Keeps, Carries
<1>3. ASSUME NEW i \in DOMAIN d.windows, NEW k \in DOMAIN f.windows,
             f.windows[k].id = d.windows[i].id
      PROVE  /\ \E a \in DOMAIN e.windows : e.windows[a].id = d.windows[i].id
             /\ f.windows[k].data = d.windows[i].data
  <2>1. d.windows[i].id < d.next_window_id
    BY SoundList
  <2>2. PICK a \in DOMAIN e.windows : e.windows[a].id = f.windows[k].id
    BY <1>2, <1>3, <2>1
  <2>3. f.windows[k].data = e.windows[a].data /\ e.windows[a].data = d.windows[i].data
    BY <1>3, <2>2 DEF Keeps, Carries
  <2>. QED BY <1>3, <2>2, <2>3
<1>4. Carries(d.windows, f.windows, d.next_window_id)
  BY <1>2, <1>3 DEF Carries
<1>. QED BY <1>1, <1>3, <1>4 DEF Keeps

LEMMA OrderAgain ==
  ASSUME NEW d, NEW e, NEW f, Sound(d), Sound(e), Sound(f), Steady(d, e)
  PROVE  /\ Steady(e, f) => Steady(d, f)
         /\ Raises(e, f) => Raises(d, f)
<1>1. ASSUME Keeps(e, f),
             NEW i \in DOMAIN d.windows, NEW j \in DOMAIN d.windows,
             NEW k \in DOMAIN f.windows, NEW l \in DOMAIN f.windows,
             f.windows[k].id = d.windows[i].id, f.windows[l].id = d.windows[j].id, i < j
      PROVE  \E a, b \in DOMAIN e.windows :
               f.windows[k].id = e.windows[a].id /\ f.windows[l].id = e.windows[b].id /\ a < b
  <2>1. PICK a \in DOMAIN e.windows : e.windows[a].id = d.windows[i].id
    BY <1>1, KeepsAgain DEF Steady
  <2>2. PICK b \in DOMAIN e.windows : e.windows[b].id = d.windows[j].id
    BY <1>1, KeepsAgain DEF Steady
  <2>3. ~(b < a)
    BY <1>1, <2>1, <2>2 DEF Steady, InOrder
  <2>4. a # b
    <3>1. i # j /\ d.windows[i].id # d.windows[j].id
      BY <1>1, SoundList
    <3>. QED BY <2>1, <2>2, <3>1
  <2>5. a < b
    BY <2>3, <2>4, SoundList
  <2>. QED BY <1>1, <2>1, <2>2, <2>5
<1>2. ASSUME Steady(e, f) PROVE InOrder(d.windows, f.windows)
  BY <1>1, <1>2 DEF Steady, InOrder
<1>3. ASSUME Raises(e, f) PROVE OneRaised(d.windows, f.windows)
  BY <1>1, <1>3 DEF Raises, OneRaised
<1>. QED BY <1>2, <1>3, KeepsAgain DEF Steady, Raises

LEMMA AlikeKeeps ==
  ASSUME NEW d, NEW e, Sound(d), Alike(d, e)
  PROVE  Steady(d, e)
<1>. /\ DOMAIN d.windows = 1 .. Len(d.windows) /\ Len(d.windows) \in Nat
     /\ d.next_window_id \in Nat
     /\ \A i, j \in DOMAIN d.windows : d.windows[i].id = d.windows[j].id => i = j
  BY SoundList
<1>1. Keeps(d, e)
  BY DEF Alike, Keeps, Carries, Ids
<1>2. InOrder(d.windows, e.windows)
  BY DEF Alike, InOrder
<1>. QED BY <1>1, <1>2 DEF Steady

LEMMA SteadyRaises ==
  ASSUME NEW d, NEW e, Steady(d, e)
  PROVE  Raises(d, e)
BY DEF Steady, Raises, InOrder, OneRaised

LEMMA RaisesAlike ==
  ASSUME NEW d, NEW e, NEW f, Raises(d, e), Alike(e, f)
  PROVE  Raises(d, f)
<1>1. Keeps(d, f)
  BY DEF Alike, Raises, Keeps, Carries
<1>2. OneRaised(d.windows, f.windows)
  BY DEF Alike, Raises, OneRaised
<1>. QED BY <1>1, <1>2 DEF Raises

LEMMA AlikeAgain ==
  ASSUME NEW d, NEW e, NEW f, Alike(d, e), Alike(e, f)
  PROVE  Alike(d, f)
BY DEF Alike

\* What only redraws, opens the menu or moves the pointer.
LEMMA FlagsAlike ==
  ASSUME NEW d, Sound(d)
  PROVE  /\ Alike(d, d) /\ Alike(d, desktop_set_dirty(d))
         /\ Alike(d, ToggleMenu(d)) /\ Alike(d, CloseMenu(d))
         /\ \A at : Alike(d, [d EXCEPT !.mouse = at])
         /\ \A id, hit : Alike(d, [d EXCEPT !.active_window = id, !.active_hit = hit])
         /\ \A id, look : Alike(d, Redress(d, id, look))
<1>. d \in DesktopT /\ DOMAIN d.windows = 1 .. Len(d.windows) /\ Len(d.windows) \in Nat
     /\ \A i \in 1 .. Len(d.windows) : d.windows[i] \in WindowT
  BY SoundList, DomainIs
<1>1. ASSUME NEW id, NEW look PROVE Alike(d, Redress(d, id, look))
  <2>. DEFINE vs == [i \in DOMAIN d.windows |->
                       IF d.windows[i].id = id THEN [d.windows[i] EXCEPT !.look = look]
                       ELSE d.windows[i]]
  <2>1. /\ Redress(d, id, look).windows = vs
        /\ Redress(d, id, look).next_window_id = d.next_window_id
    BY DEF Redress, DesktopT
  <2>2. \A i \in 1 .. Len(d.windows) : vs[i].id = d.windows[i].id /\ vs[i].data = d.windows[i].data
    BY DEF WindowT
  <2>3. DOMAIN vs = 1 .. Len(d.windows) /\ Len(vs) = Len(d.windows)
    <3>1. vs = [i \in 1 .. Len(d.windows) |-> vs[i]] /\ DOMAIN vs = 1 .. Len(d.windows)
      OBVIOUS
    <3>. DEFINE S == {vs[i] : i \in 1 .. Len(d.windows)}
    <3>2. \A i \in 1 .. Len(d.windows) : vs[i] \in S
      OBVIOUS
    <3>. HIDE DEF vs, S
    <3>. QED BY <3>1, <3>2, SeqOfFunction
  <2>. HIDE DEF vs
  <2>. QED BY <2>1, <2>2, <2>3 DEF Alike
<1>. QED BY <1>1 DEF Alike, DesktopT, desktop_set_dirty, ToggleMenu, CloseMenu

-----------------------------------------------------------------------------
(* The operations raise at most one window.                                *)

\* Where the window at k was before window i of n was brought to the front.
Source(i, n, k) == IF k < i THEN k ELSE IF k < n THEN k + 1 ELSE i

Fronts(d, e, i, n) ==
  \A k \in 1 .. n : /\ e.windows[k].id = d.windows[Source(i, n, k)].id
                    /\ e.windows[k].data = d.windows[Source(i, n, k)].data

Refocused(d, e, id) ==
  LET n == Len(d.windows) IN
  /\ e.next_window_id = d.next_window_id
  /\ Len(e.windows) = n /\ DOMAIN e.windows = 1 .. n
  /\ \E i \in 1 .. n : d.windows[i].id = id /\ Fronts(d, e, i, n)

LEMMA FocusMoves ==
  ASSUME NEW d, Sound(d), NEW id \in Ids(d.windows), NEW e, e = desktop_focus_window(d, id)
  PROVE  Refocused(d, e, id)
<1>. DEFINE i  == IndexOf(d.windows, id)
            ws == desktop_bring_to_front(d.windows, i)
            vs == [j \in DOMAIN ws |-> [ws[j] EXCEPT !.focused = (j = Len(ws))]]
            n  == Len(d.windows)
<1>1. /\ d.windows \in Seq(WindowT) /\ DOMAIN d.windows = 1 .. n /\ n \in Nat /\ d \in DesktopT
  BY SoundList
<1>2. i \in 1 .. n /\ d.windows[i].id = id
  BY <1>1, IndexIs
<1>3. e.windows = vs /\ e.next_window_id = d.next_window_id
  BY <1>1 DEF desktop_focus_window, desktop_set_dirty, DesktopT
<1>. HIDE DEF i
<1>4. /\ ws \in Seq(WindowT) /\ Len(ws) = n
      /\ \A j \in 1 .. n - 1 : ws[j] = IF j < i THEN d.windows[j] ELSE d.windows[j + 1]
      /\ ws[n] = d.windows[i]
  BY <1>1, <1>2, FrontMoves
<1>. HIDE DEF ws
<1>5. /\ DOMAIN ws = 1 .. Len(ws) /\ \A j \in 1 .. Len(ws) : ws[j] \in WindowT
  BY <1>4, DomainIs
<1>6. \A j \in 1 .. Len(ws) :
        vs[j] \in WindowT /\ vs[j].id = ws[j].id /\ vs[j].data = ws[j].data
  BY <1>5 DEF WindowT
<1>7. Len(vs) = Len(ws) /\ DOMAIN vs = 1 .. Len(ws)
  BY <1>1, <1>4, <1>5, <1>6, SeqOfFunction
<1>. HIDE DEF vs
<1>8. \A k \in 1 .. n : ws[k] = d.windows[Source(i, n, k)]
  BY <1>1, <1>2, <1>4 DEF Source
<1>9. Fronts(d, e, i, n)
  BY <1>3, <1>4, <1>6, <1>8 DEF Fronts
<1>. QED BY <1>2, <1>3, <1>4, <1>7, <1>9 DEF Refocused

LEMMA FocusRaises ==
  ASSUME NEW d, Sound(d), NEW id
  PROVE  Raises(d, desktop_focus_window(d, id))
<1>. DEFINE e == desktop_focus_window(d, id)
<1>1. CASE id \notin Ids(d.windows)
  <2>1. e = d
    BY <1>1 DEF desktop_focus_window
  <2>. QED BY <2>1, FlagsAlike, AlikeKeeps, SteadyRaises
<1>2. CASE id \in Ids(d.windows)
  <2>. DEFINE n == Len(d.windows)
  <2>1. /\ e.next_window_id = d.next_window_id
        /\ Len(e.windows) = n /\ DOMAIN e.windows = 1 .. n
        /\ \E i \in 1 .. n : Fronts(d, e, i, n)
    BY <1>2, FocusMoves DEF Refocused
  <2>. HIDE DEF e
  <2>2. PICK i \in 1 .. n : Fronts(d, e, i, n)
    BY <2>1
  <2>3. /\ DOMAIN d.windows = 1 .. n /\ n \in Nat /\ d.next_window_id \in Nat
        /\ \A j, k \in DOMAIN d.windows : d.windows[j].id = d.windows[k].id => j = k
    BY SoundList
  <2>. HIDE DEF n
  <2>4. /\ \A k \in 1 .. n : Source(i, n, k) \in 1 .. n
        /\ \A k, l \in 1 .. n : l < k /\ Source(i, n, k) < Source(i, n, l) => k = n
    BY <2>3 DEF Source
  <2>5. ASSUME NEW j \in 1 .. n, NEW k \in 1 .. n, e.windows[k].id = d.windows[j].id
        PROVE  j = Source(i, n, k)
    <3>1. d.windows[j].id = d.windows[Source(i, n, k)].id
      BY <2>2, <2>5 DEF Fronts
    <3>. QED BY <2>3, <2>4, <3>1
  <2>6. Keeps(d, e)
    <3>1. \A k \in DOMAIN e.windows : e.windows[k].id \in Ids(d.windows)
      <4>1. ASSUME NEW k \in 1 .. n PROVE e.windows[k].id \in Ids(d.windows)
        <5>1. e.windows[k].id = d.windows[Source(i, n, k)].id
          BY <2>2 DEF Fronts
        <5>. QED BY <2>3, <2>4, <5>1 DEF Ids
      <4>. QED BY <2>1, <4>1
    <3>2. \A j \in DOMAIN d.windows, k \in DOMAIN e.windows :
            e.windows[k].id = d.windows[j].id => e.windows[k].data = d.windows[j].data
      BY <2>1, <2>2, <2>3, <2>5 DEF Fronts
    <3>. QED BY <2>1, <2>3, <3>1, <3>2 DEF Keeps, Carries
  <2>7. OneRaised(d.windows, e.windows)
    <3>1. ASSUME NEW a \in 1 .. n, NEW b \in 1 .. n, NEW k \in 1 .. n, NEW l \in 1 .. n,
                 e.windows[k].id = d.windows[a].id, e.windows[l].id = d.windows[b].id,
                 a < b, l < k
          PROVE  k = n
      <4>1. a = Source(i, n, k) /\ b = Source(i, n, l)
        BY <2>5, <3>1
      <4>. QED BY <2>4, <3>1, <4>1
    <3>. QED BY <2>1, <2>3, <3>1 DEF OneRaised
  <2>. QED BY <2>6, <2>7 DEF Raises, e
<1>. QED BY <1>1, <1>2

\* e has one new window, on top of those of d.
OneMore(d, e, n) ==
  /\ e.next_window_id = d.next_window_id + 1
  /\ DOMAIN e.windows = 1 .. n + 1
  /\ \A k \in 1 .. n : e.windows[k].id = d.windows[k].id /\ e.windows[k].data = d.windows[k].data
  /\ e.windows[n + 1].id = d.next_window_id

LEMMA CreateWindows ==
  ASSUME NEW d, Good(d), NEW app \in App, ~(Len(d.windows) >= MAX_WINDOWS)
  PROVE  OneMore(d, Create(d, app), Len(d.windows))
<1>. DEFINE e == Create(d, app)
            n == Len(d.windows)
            new == NewWindow(d, app)
            f   == Opened(d, app)
<1>1. /\ Sound(f) /\ e = desktop_focus_window(f, d.next_window_id)
      /\ f.windows = Append(d.windows, new) /\ f.next_window_id = d.next_window_id + 1
      /\ d.next_window_id \in Ids(f.windows)
  BY OpenedSound
<1>2. d.windows \in Seq(WindowT) /\ n \in Nat /\ n = Len(d.windows)
  BY SoundList DEF Good
<1>. HIDE DEF f, e, n
<1>3. /\ Len(f.windows) = n + 1 /\ DOMAIN f.windows = 1 .. n + 1
      /\ \A i \in 1 .. n : f.windows[i] = d.windows[i]
      /\ f.windows[n + 1].id = d.next_window_id
  <2>. HIDE DEF new
  <2>1. f.windows[n + 1] = new
    BY <1>1, <1>2, AppendIs
  <2>2. new.id = d.next_window_id
    BY DEF new, NewWindow
  <2>. QED BY <1>1, <1>2, <2>1, <2>2, AppendIs
<1>. HIDE DEF new
<1>4. /\ e.next_window_id = f.next_window_id /\ DOMAIN e.windows = 1 .. n + 1
      /\ \E i \in 1 .. n + 1 : f.windows[i].id = d.next_window_id /\ Fronts(f, e, i, n + 1)
  <2>1. Refocused(f, e, d.next_window_id)
    BY <1>1, FocusMoves
  <2>. QED BY <1>3, <2>1 DEF Refocused
<1>5. PICK i \in 1 .. n + 1 : f.windows[i].id = d.next_window_id /\ Fronts(f, e, i, n + 1)
  BY <1>4
<1>6. i = n + 1
  <2>1. n + 1 \in DOMAIN f.windows /\ i \in DOMAIN f.windows
    BY <1>2, <1>3
  <2>. QED BY <2>1, <1>1, <1>3, <1>5, SoundList
<1>7. \A k \in 1 .. n + 1 : Source(n + 1, n + 1, k) = k
  BY <1>2 DEF Source
<1>8. \A k \in 1 .. n + 1 : /\ e.windows[k].id = f.windows[k].id
                            /\ e.windows[k].data = f.windows[k].data
  BY <1>5, <1>6, <1>7 DEF Fronts
<1>9. n + 1 \in 1 .. n + 1 /\ \A k \in 1 .. n : k \in 1 .. n + 1
  BY <1>2
<1>. QED BY <1>1, <1>3, <1>4, <1>8, <1>9 DEF OneMore, e, n

LEMMA CreateSteady ==
  ASSUME NEW d, Good(d), NEW app \in App
  PROVE  Steady(d, Create(d, app))
<1>. DEFINE e == Create(d, app)
            n == Len(d.windows)
<1>0. /\ Sound(d) /\ DOMAIN d.windows = 1 .. n /\ n \in Nat /\ d.next_window_id \in Nat
      /\ \A i \in 1 .. n : d.windows[i].id \in Nat /\ d.windows[i].id < d.next_window_id
      /\ \A i, j \in 1 .. n : d.windows[i].id = d.windows[j].id => i = j
  BY SoundList DEF Good
<1>1. CASE Len(d.windows) >= MAX_WINDOWS
  <2>1. e = d
    BY <1>1 DEF Create
  <2>. QED BY <1>0, <2>1, FlagsAlike, AlikeKeeps
<1>2. CASE ~(Len(d.windows) >= MAX_WINDOWS)
  <2>1. OneMore(d, e, n)
    BY <1>2, CreateWindows
  <2>. HIDE DEF e, n
  <2>2. \A k \in 1 .. n + 1 : k \in 1 .. n \/ k = n + 1
    BY <1>0
  <2>3. ASSUME NEW i \in 1 .. n, NEW k \in 1 .. n + 1, e.windows[k].id = d.windows[i].id
        PROVE  k = i
    <3>1. k # n + 1
      BY <1>0, <2>1, <2>3 DEF OneMore
    <3>2. k \in 1 .. n /\ e.windows[k].id = d.windows[k].id
      BY <2>1, <2>2, <3>1 DEF OneMore
    <3>. QED BY <1>0, <2>3, <3>2
  <2>4. \A k \in 1 .. n + 1 : e.windows[k].id < d.next_window_id => e.windows[k].id \in Ids(d.windows)
    <3>1. ASSUME NEW k \in 1 .. n + 1, e.windows[k].id < d.next_window_id
          PROVE  e.windows[k].id \in Ids(d.windows)
      <4>1. k # n + 1
        BY <1>0, <2>1, <3>1 DEF OneMore
      <4>2. k \in 1 .. n /\ e.windows[k].id = d.windows[k].id
        BY <2>1, <2>2, <4>1 DEF OneMore
      <4>. QED BY <1>0, <4>2 DEF Ids
    <3>. QED BY <3>1
  <2>5. Keeps(d, e)
    <3>1. \A i \in 1 .. n, k \in 1 .. n + 1 :
            e.windows[k].id = d.windows[i].id => e.windows[k].data = d.windows[i].data
      BY <2>1, <2>3 DEF OneMore
    <3>2. Carries(d.windows, e.windows, d.next_window_id)
      BY <1>0, <2>1, <2>4, <3>1 DEF OneMore, Carries
    <3>. QED BY <1>0, <2>1, <3>2 DEF OneMore, Keeps
  <2>6. InOrder(d.windows, e.windows)
    <3>1. ASSUME NEW i \in 1 .. n, NEW j \in 1 .. n, NEW k \in 1 .. n + 1, NEW l \in 1 .. n + 1,
                 e.windows[k].id = d.windows[i].id, e.windows[l].id = d.windows[j].id, i < j
          PROVE  ~(l < k)
      <4>1. k = i /\ l = j
        BY <2>3, <3>1
      <4>. QED BY <3>1, <4>1
    <3>. QED BY <1>0, <2>1, <3>1 DEF OneMore, InOrder
  <2>. QED BY <2>5, <2>6 DEF Steady, e
<1>. QED BY <1>1, <1>2

\* The windows that stay are in order, and then the topmost is focused.
LEMMA CloseRaises ==
  ASSUME NEW d, Good(d), NEW id
  PROVE  Raises(d, desktop_close_window(d, id))
<1>. DEFINE left == Without(d.windows, id)
            f == Closed(d, id)
            e == desktop_close_window(d, id)
            n == Len(d.windows)
<1>1. e = IF left = <<>> THEN f ELSE desktop_focus_window(f, Last(left).id)
  BY DEF desktop_close_window, Closed
<1>2. /\ Sound(d) /\ d \in DesktopT /\ d.windows \in Seq(WindowT)
      /\ DOMAIN d.windows = 1 .. n /\ n \in Nat /\ d.next_window_id \in Nat
      /\ \A i, j \in 1 .. n : d.windows[i].id = d.windows[j].id => i = j
  BY SoundList DEF Good
<1>3. f.windows = left /\ f.next_window_id = d.next_window_id /\ Sound(f)
  BY ClosedSound
<1>. HIDE DEF f, e
<1>4. \E p \in [DOMAIN left -> 1 .. n] :
        /\ \A k \in DOMAIN left : left[k] = d.windows[p[k]]
        /\ \A k, l \in DOMAIN left : l < k => p[l] < p[k]
  <2>1. CASE id \notin Ids(d.windows)
    <3>1. left = d.windows
      BY <2>1 DEF Without
    <3>. DEFINE p == [k \in 1 .. n |-> k]
    <3>. HIDE DEF left
    <3>2. p \in [DOMAIN left -> 1 .. n]
      BY <1>2, <3>1
    <3>3. /\ \A k \in DOMAIN left : left[k] = d.windows[p[k]]
          /\ \A k, l \in DOMAIN left : l < k => p[l] < p[k]
      BY <1>2, <3>1
    <3>. QED BY <3>2, <3>3
  <2>2. CASE id \in Ids(d.windows)
    <3>. DEFINE i == IndexOf(d.windows, id)
    <3>1. i \in 1 .. n /\ left = RemoveAt(d.windows, i)
      BY <1>2, <2>2, IndexIs DEF Without
    <3>. HIDE DEF i
    <3>2. /\ left \in Seq(WindowT) /\ Len(left) = n - 1
          /\ \A j \in 1 .. n - 1 : left[j] = IF j < i THEN d.windows[j] ELSE d.windows[j + 1]
      BY <1>2, <3>1, RemoveAtShifts
    <3>. HIDE DEF left
    <3>3. DOMAIN left = 1 .. n - 1
      BY <3>2, DomainIs
    <3>. DEFINE p == [k \in 1 .. n - 1 |-> IF k < i THEN k ELSE k + 1]
    <3>. HIDE DEF n
    <3>4. p \in [DOMAIN left -> 1 .. n]
      BY <1>2, <3>1, <3>3
    <3>5. \A k \in DOMAIN left : left[k] = d.windows[p[k]]
      BY <3>2, <3>3
    <3>6. \A k, l \in DOMAIN left : l < k => p[l] < p[k]
      BY <1>2, <3>1, <3>3
    <3>. QED BY <3>4, <3>5, <3>6
  <2>. QED BY <2>1, <2>2
<1>5. Steady(d, f)
  <2>1. PICK p \in [DOMAIN left -> 1 .. n] :
          /\ \A k \in DOMAIN left : left[k] = d.windows[p[k]]
          /\ \A k, l \in DOMAIN left : l < k => p[l] < p[k]
    BY <1>4
  <2>. HIDE DEF left
  <2>2. ASSUME NEW i \in 1 .. n, NEW k \in DOMAIN left, left[k].id = d.windows[i].id
        PROVE  i = p[k]
    BY <1>2, <2>1, <2>2
  <2>3. Keeps(d, f)
    <3>1. \A k \in DOMAIN left : left[k].id \in Ids(d.windows)
      BY <1>2, <2>1 DEF Ids
    <3>2. \A i \in 1 .. n, k \in DOMAIN left :
            left[k].id = d.windows[i].id => left[k].data = d.windows[i].data
      BY <2>1, <2>2
    <3>. QED BY <1>2, <1>3, <3>1, <3>2 DEF Keeps, Carries
  <2>4. InOrder(d.windows, f.windows)
    <3>1. ASSUME NEW i \in 1 .. n, NEW j \in 1 .. n, NEW k \in DOMAIN left, NEW l \in DOMAIN left,
                 left[k].id = d.windows[i].id, left[l].id = d.windows[j].id, i < j
          PROVE  ~(l < k)
      BY <2>1, <2>2, <3>1
    <3>. QED BY <1>2, <1>3, <3>1 DEF InOrder
  <2>. QED BY <2>3, <2>4 DEF Steady
<1>. HIDE DEF left
<1>6. CASE left = <<>>
  BY <1>1, <1>5, <1>6, SteadyRaises DEF e
<1>7. CASE left # <<>>
  <2>. DEFINE g == desktop_focus_window(f, Last(left).id)
  <2>1. e = g /\ Raises(f, g)
    BY <1>1, <1>3, <1>7, FocusRaises
  <2>2. Sound(e)
    BY CloseGood DEF Good, e
  <2>. HIDE DEF g
  <2>. QED BY <1>2, <1>3, <1>5, <2>1, <2>2, OrderAgain DEF e
<1>. QED BY <1>6, <1>7

-----------------------------------------------------------------------------
(* So does every event.                                                    *)

LEMMA PressWindowRaises ==
  ASSUME NEW d, Good(d), NEW i \in DOMAIN d.windows, NEW hit \in Hit, NEW look \in Look
  PROVE  Raises(d, PressWindow(d, i, hit, look))
<1>. DEFINE id == d.windows[i].id
            f  == desktop_focus_window(d, id)
            g  == [f EXCEPT !.active_window = id, !.active_hit = hit]
            e  == PressWindow(d, i, hit, look)
<1>1. e \in {desktop_close_window(d, id), Redress(f, id, look), Redress(g, id, look),
             desktop_set_dirty(g)}
  BY DEF PressWindow, Hit
<1>2. Good(f) /\ id \in Ids(f.windows) /\ Sound(d)
  <2>1. id \in Ids(d.windows) /\ Sound(d)
    BY DEF Ids, Good
  <2>. HIDE DEF id
  <2>. QED BY <2>1, RefocusGood
<1>3. Raises(d, f) /\ Raises(d, desktop_close_window(d, id))
  BY <1>2, FocusRaises, CloseRaises
<1>. HIDE DEF f, id, e
<1>4. Sound(f) /\ Alike(f, g) /\ Alike(f, Redress(f, id, look))
  BY <1>2, FlagsAlike DEF Good
<1>5. Sound(g)
  <2>1. id \in Nat /\ f \in DesktopT
    BY <1>2, <1>4, SoundList DEF Ids
  <2>. QED BY <1>4, <2>1 DEF Sound, DesktopT, Hit
<1>. HIDE DEF g
<1>6. Alike(f, Redress(g, id, look)) /\ Alike(f, desktop_set_dirty(g))
  BY <1>4, <1>5, FlagsAlike, AlikeAgain
<1>. QED BY <1>1, <1>3, <1>4, <1>6, RaisesAlike DEF e

LEMMA PressRaises ==
  ASSUME NEW d, Good(d), NEW target \in TargetsOf(d), NEW look \in Look
  PROVE  Raises(d, PressLeft(d, target, look))
<1>. DEFINE e == PressLeft(d, target, look)
<1>0. Sound(d)
  BY DEF Good
<1>1. ASSUME Alike(d, e) PROVE Raises(d, e)
  BY <1>0, <1>1, AlikeKeeps, SteadyRaises
<1>2. CASE target.kind \in {"start", "wallpaper"}
  <2>1. e \in {ToggleMenu(d), desktop_set_dirty(d), d}
    BY <1>2 DEF PressLeft
  <2>. HIDE DEF e
  <2>. QED BY <1>0, <1>1, <2>1, FlagsAlike DEF e
<1>3. CASE target.kind = "item"
  <2>. DEFINE f == Create(d, target.app)
  <2>1. target.app \in App /\ e = CloseMenu(f)
    BY <1>3 DEF TargetsOf, PressLeft
  <2>2. Raises(d, f) /\ Sound(f)
    BY <2>1, CreateSteady, CreateGood, SteadyRaises DEF Good
  <2>. HIDE DEF f, e
  <2>. QED BY <2>1, <2>2, FlagsAlike, RaisesAlike DEF e
<1>4. CASE target.kind = "taskbar"
  <2>. DEFINE f == desktop_focus_window(d, d.windows[target.index].id)
  <2>1. e = desktop_set_dirty(f)
    BY <1>4 DEF PressLeft
  <2>2. Raises(d, f) /\ Sound(f)
    BY <1>0, FocusRaises, RefocusGood DEF Good
  <2>. HIDE DEF f, e
  <2>. QED BY <2>1, <2>2, FlagsAlike, RaisesAlike DEF e
<1>5. CASE target.kind = "window"
  <2>1. target.index \in DOMAIN d.windows /\ target.hit \in Hit
    BY <1>5 DEF TargetsOf
  <2>. QED BY <1>5, <2>1, PressWindowRaises DEF PressLeft
<1>6. target.kind \in {"start", "item", "taskbar", "window", "wallpaper"}
  BY DEF TargetsOf
<1>. QED BY <1>2, <1>3, <1>4, <1>5, <1>6

\* Moving the pointer and releasing a button move no window.
LEMMA MoveAlike ==
  ASSUME NEW d, Good(d), NEW at \in Position, NEW left, NEW button, NEW look \in Look
  PROVE  /\ Alike(d, HandleMove(d, at, left, look))
         /\ Alike(d, HandleRelease(d, button))
<1>. DEFINE g == [d EXCEPT !.mouse = at]
            f == desktop_set_dirty(g)
<1>0. Sound(d) /\ Alike(d, d) /\ Alike(d, g) /\ Good(g)
  BY FlagsAlike, FlagsGood DEF Good
<1>1. Alike(d, HandleRelease(d, button))
  BY <1>0, FlagsAlike DEF HandleRelease
<1>2. HandleMove(d, at, left, look) \in {d, f, Redress(f, d.active_window, look)}
  BY DEF HandleMove
<1>. HIDE DEF g
<1>3. Alike(d, f) /\ Sound(f)
  BY <1>0, FlagsAlike, FlagsGood, AlikeAgain DEF Good
<1>. HIDE DEF f
<1>4. Alike(d, Redress(f, d.active_window, look))
  BY <1>3, FlagsAlike, AlikeAgain
<1>. QED BY <1>0, <1>1, <1>2, <1>3, <1>4

LEMMA HandlePressRaises ==
  ASSUME NEW d, Good(d), NEW at \in Position, NEW button, NEW target, NEW look \in Look,
         button = "left" => target \in TargetsOf(d)
  PROVE  /\ Raises(d, HandlePress(d, at, button, target, look))
         /\ button # "left" => Alike(d, HandlePress(d, at, button, target, look))
<1>. DEFINE f == [d EXCEPT !.mouse = at]
            e == HandlePress(d, at, button, target, look)
<1>1. e = IF button = "left" THEN PressLeft(f, target, look) ELSE f
  BY DEF HandlePress
<1>2. /\ Good(f) /\ Sound(d) /\ Sound(f) /\ Alike(d, f) /\ d \in DesktopT
      /\ TargetsOf(f) = TargetsOf(d)
  BY FlagsAlike, FlagsGood DEF Good, Sound, DesktopT, TargetsOf
<1>. HIDE DEF f, e
<1>3. Steady(d, f)
  BY <1>2, AlikeKeeps
<1>4. CASE button # "left"
  BY <1>1, <1>2, <1>3, <1>4, SteadyRaises DEF e
<1>5. CASE button = "left"
  <2>1. Raises(f, e)
    BY <1>1, <1>2, <1>5, PressRaises
  <2>2. Sound(e)
    BY <1>1, <1>2, <1>5, PressLeftGood DEF Good
  <2>. QED BY <1>2, <1>3, <1>5, <2>1, <2>2, OrderAgain DEF e
<1>. QED BY <1>4, <1>5

LEMMA ButtonRaises ==
  ASSUME NEW s, PairGood(s), NEW button, NEW pressed \in BOOLEAN, NEW target, NEW look \in Look,
         button = "left" /\ pressed => target \in TargetsOf(s.desk)
  PROVE  LET t == PostButton(s, button, pressed, target, look)
         IN  Raises(s.desk, t.desk) /\ (button # "left" => Alike(s.desk, t.desk))
<1>. DEFINE t == PostButton(s, button, pressed, target, look)
<1>0. Good(s.desk) /\ Sound(s.desk) /\ s.input.pointer \in Position
  BY DEF PairGood, Good, InputT
<1>1. ASSUME Alike(s.desk, t.desk) PROVE Raises(s.desk, t.desk)
  BY <1>0, <1>1, AlikeKeeps, SteadyRaises
<1>2. CASE ~Accepts(s)
  <2>1. t.desk = s.desk
    BY <1>2 DEF PostButton
  <2>. HIDE DEF t
  <2>. QED BY <1>0, <1>1, <2>1, FlagsAlike DEF t
<1>3. CASE Accepts(s)
  <2>1. t.desk = IF pressed THEN HandlePress(s.desk, s.input.pointer, button, target, look)
                 ELSE HandleRelease(s.desk, button)
    BY <1>3 DEF PostButton
  <2>. HIDE DEF t
  <2>2. CASE pressed
    BY <1>0, <2>1, <2>2, HandlePressRaises DEF t
  <2>3. CASE ~pressed
    BY <1>0, <1>1, <2>1, <2>3, MoveAlike DEF t
  <2>. QED BY <2>2, <2>3
<1>. QED BY <1>2, <1>3

LEMMA MovementAlike ==
  ASSUME NEW s, PairGood(s), NEW to, NEW look \in Look
  PROVE  Alike(s.desk, PostMove(s, to, look).desk)
<1>1. Good(s.desk) /\ Sound(s.desk) /\ s.input.pointer \in Position
  BY DEF PairGood, Good, InputT
<1>2. PostMove(s, to, look).desk \in
        {s.desk, HandleMove(s.desk, s.input.pointer, s.input.left, look)}
  BY DEF PostMove
<1>3. Alike(s.desk, HandleMove(s.desk, s.input.pointer, s.input.left, look))
  BY <1>1, MoveAlike
<1>. QED BY <1>1, <1>2, <1>3, FlagsAlike

LEMMA OtherAlike ==
  ASSUME NEW s, PairGood(s), NEW change, NEW look \in Look, NEW target
  PROVE  LET t == PostOther(s, change, target, look)
         IN  PairGood(t) /\ Alike(s.desk, t.desk)
<1>1. CASE change = "none"
  BY <1>1, FlagsAlike DEF PostOther, PairGood, Good
<1>2. CASE change # "none"
  <2>. DEFINE pressed == change = "press"
  <2>1. pressed \in BOOLEAN /\ PostOther(s, change, target, look) = PostButton(s, "other", pressed, target, look)
    BY <1>2 DEF PostOther
  <2>. HIDE DEF pressed
  <2>2. Alike(s.desk, PostButton(s, "other", pressed, target, look).desk)
    BY <2>1, ButtonRaises
  <2>. QED BY <2>1, <2>2, OtherGood
<1>. QED BY <1>1, <1>2

LEMMA PacketRaises ==
  ASSUME NEW s, PairGood(s), driver \in BOOLEAN, NEW left \in BOOLEAN,
         NEW other, NEW moved \in BOOLEAN, NEW to, moved => to \in Position, NEW look \in Look,
         NEW target, left /\ ~driver => target \in TargetsOf(s.desk)
  PROVE  Raises(s.desk, mouse_handler(s, left, other, moved, to, look, target).desk)
<1>. DEFINE s1 == IF left = driver THEN s ELSE PostButton(s, "left", left, target, look)
            s3 == PostOther(s1, other["right"], target, look)
            s2 == PostOther(s3, other["middle"], target, look)
            t  == IF moved THEN PostMove(s2, to, look) ELSE s2
<1>0. Sound(s.desk)
  BY DEF PairGood, Good
<1>1. mouse_handler(s, left, other, moved, to, look, target) = t
  BY DEF mouse_handler
<1>2. PairGood(s1) /\ Raises(s.desk, s1.desk)
  BY <1>0, ButtonGood, ButtonRaises, FlagsAlike, AlikeKeeps, SteadyRaises
<1>. HIDE DEF s1
<1>3. PairGood(s3) /\ Alike(s1.desk, s3.desk)
  BY <1>2, OtherAlike
<1>. HIDE DEF s3
<1>4. PairGood(s2) /\ Alike(s3.desk, s2.desk)
  BY <1>3, OtherAlike
<1>. HIDE DEF s2
<1>5. Alike(s2.desk, t.desk)
  BY <1>4, MovementAlike, FlagsAlike DEF PairGood, Good
<1>. QED BY <1>1, <1>2, <1>3, <1>4, <1>5, RaisesAlike

LEMMA UserRaises == IInv /\ UserStep => Raises(desk, desk')
<1>. SUFFICES ASSUME IInv, UserStep PROVE Raises(desk, desk')
  OBVIOUS
<1>1. Good(desk) /\ Sound(desk) /\ Notepad \in App /\ Calculator \in App /\ Sysinfo \in App
  BY DEF IInv, PairGood, Good, App
<1>2. CASE MousePacket
  <2>. DEFINE s == [input |-> input, desk |-> desk]
  <2>1. PICK left \in BOOLEAN, other \in OtherChanges, moved \in BOOLEAN :
          \E to, target : \E look \in Look :
            /\ moved => to \in Position
            /\ left /\ ~driver => target \in TargetsOf(desk)
            /\ Packet(left, other, moved, to, look, target)
    BY <1>2, SomePacket
  <2>2. PICK to, target : \E look \in Look :
            /\ moved => to \in Position
            /\ left /\ ~driver => target \in TargetsOf(desk)
            /\ Packet(left, other, moved, to, look, target)
    BY <2>1
  <2>3. PICK look \in Look :
            /\ moved => to \in Position
            /\ left /\ ~driver => target \in TargetsOf(desk)
            /\ Packet(left, other, moved, to, look, target)
    BY <2>2
  <2>4. desk' = mouse_handler(s, left, other, moved, to, look, target).desk
    BY <2>3 DEF Packet
  <2>5. PairGood(s) /\ s.desk = desk /\ driver \in BOOLEAN
    BY DEF IInv
  <2>. HIDE DEF s
  <2>6. left /\ ~driver => target \in TargetsOf(s.desk)
    BY <2>3, <2>5
  <2>7. Raises(s.desk, mouse_handler(s, left, other, moved, to, look, target).desk)
    BY <2>3, <2>5, <2>6, PacketRaises
  <2>. QED BY <2>4, <2>5, <2>7
<1>3. ASSUME NEW d, Raises(desk, d), Sound(d),
             desk' \in {d, CloseMenu(d), desktop_set_dirty(d), ToggleMenu(d)}
      PROVE  Raises(desk, desk')
  BY <1>3, FlagsAlike, RaisesAlike
<1>4. ASSUME NEW a \in App, DigitKey(a) \/ FunctionKey(a) PROVE Raises(desk, desk')
  <2>. DEFINE d == Create(desk, a)
  <2>1. Raises(desk, d) /\ Sound(d)
    BY <1>1, CreateGood, CreateSteady, SteadyRaises DEF Good
  <2>2. desk' \in {CloseMenu(d), desktop_set_dirty(d)}
    BY <1>4 DEF DigitKey, FunctionKey, Key
  <2>. HIDE DEF d
  <2>. QED BY <1>3, <2>1, <2>2
<1>5. CASE StarterKey
  <2>. DEFINE d1 == Create(desk, Notepad)
              d2 == Create(d1, Calculator)
              d3 == Create(d2, Sysinfo)
  <2>1. desk' = desktop_set_dirty(d3)
    BY <1>5 DEF StarterKey, Key
  <2>2. Good(d1) /\ Sound(d1) /\ Steady(desk, d1)
    BY <1>1, CreateGood, CreateSteady DEF Good
  <2>. HIDE DEF d1
  <2>3. Good(d2) /\ Sound(d2) /\ Steady(d1, d2)
    BY <1>1, <2>2, CreateGood, CreateSteady DEF Good
  <2>. HIDE DEF d2
  <2>4. Sound(d3) /\ Steady(d2, d3)
    BY <1>1, <2>3, CreateGood, CreateSteady DEF Good
  <2>. HIDE DEF d3
  <2>5. Steady(desk, d2)
    BY <1>1, <2>2, <2>3, OrderAgain
  <2>6. Steady(desk, d3)
    BY <1>1, <2>3, <2>4, <2>5, OrderAgain
  <2>. QED BY <1>3, <2>1, <2>4, <2>6, SteadyRaises
<1>6. Alike(desk, desk) /\ Raises(desk, desk)
  BY <1>1, FlagsAlike, AlikeKeeps, SteadyRaises
<1>7. CASE MenuKey
  BY <1>1, <1>3, <1>6, <1>7 DEF MenuKey, Key
<1>8. CASE CycleKey
  <2>. DEFINE d == desktop_cycle_focus(desk)
  <2>1. d = desk \/ \E id : d = desktop_focus_window(desk, id)
    BY DEF desktop_cycle_focus
  <2>2. desk' = desktop_set_dirty(d) /\ Sound(d)
    BY <1>1, <1>8, CycleGood DEF CycleKey, Key, Good
  <2>. HIDE DEF d
  <2>3. Raises(desk, d)
    BY <1>1, <1>6, <2>1, FocusRaises
  <2>. QED BY <1>3, <2>2, <2>3
<1>9. CASE CloseKey
  BY <1>1, <1>9, CloseRaises DEF CloseKey, Key
<1>10. CASE RaiseKey
  BY <1>1, <1>10, FocusRaises DEF RaiseKey, Key
<1>11. CASE \E look \in Look : LookKey(look)
  <2>1. PICK look \in Look : desk' = Redress(desk, desk.focused_window, look)
    BY <1>11 DEF LookKey, Key
  <2>. QED BY <1>1, <1>6, <2>1, FlagsAlike, RaisesAlike
<1>. QED BY <1>2, <1>4, <1>5, <1>7, <1>8, <1>9, <1>10, <1>11 DEF UserStep

LEMMA StepRaises == IInv /\ [Next]_deskVars => Raises(desk, desk')
<1>. SUFFICES ASSUME IInv, [Next]_deskVars PROVE Raises(desk, desk')
  OBVIOUS
<1>1. Sound(desk) /\ desk \in DesktopT /\ Alike(desk, desk) /\ Raises(desk, desk)
  BY FlagsAlike, AlikeKeeps, SteadyRaises DEF IInv, PairGood, Good, Sound
<1>2. CASE UserStep
  BY <1>2, UserRaises
<1>3. CASE TakeUpRequest \/ ReadPointer \/ UNCHANGED deskVars
  <2>1. desk'.windows = desk.windows /\ desk'.next_window_id = desk.next_window_id
    BY <1>1, <1>3 DEF TakeUpRequest, ReadPointer, deskVars, DesktopT
  <2>2. Alike(desk, desk')
    BY <1>1, <2>1 DEF Alike
  <2>. QED BY <1>1, <2>2, RaisesAlike
<1>. QED BY <1>2, <1>3 DEF Next

(* No step changes the order of two windows unless it brings one of them   *)
(* to the top, and a window keeps its state (desktop.c:137-145).           *)
THEOREM ZOrderAlwaysStable == Spec => ZOrderStable
<1>1. Raises(desk, desk') =>
        \A i, j \in DOMAIN desk.windows, k, l \in DOMAIN desk'.windows :
          /\ desk'.windows[k].id = desk.windows[i].id
          /\ desk'.windows[l].id = desk.windows[j].id
          => /\ i < j /\ l < k => k = Len(desk'.windows)
             /\ desk'.windows[k].data = desk.windows[i].data
  BY DEF Raises, Keeps, Carries, OneRaised
<1>. QED BY <1>1, StepRaises, Invariance, PTL DEF Spec, ZOrderStable

-----------------------------------------------------------------------------
(* Asking for a redraw.  No event takes the request back, and one that     *)
(* changes the windows or the menu makes it.                               *)

Asks(d, e) ==
  /\ e.needs_redraw \/ (e.windows = d.windows /\ e.start_menu_open = d.start_menu_open)
  /\ d.needs_redraw => e.needs_redraw

LEMMA AsksAgain ==
  ASSUME NEW d, NEW e, NEW f, Asks(d, e), Asks(e, f)
  PROVE  Asks(d, f)
BY DEF Asks

\* Whatever else it changes, an operation that ends like these has asked.
LEMMA FlagsAsk ==
  ASSUME NEW d \in DesktopT
  PROVE  /\ desktop_set_dirty(d).needs_redraw = TRUE
         /\ ToggleMenu(d).needs_redraw = TRUE /\ CloseMenu(d).needs_redraw = TRUE
         /\ \A id, look : Redress(d, id, look).needs_redraw = TRUE
         /\ \A at : Asks(d, [d EXCEPT !.mouse = at])
BY DEF DesktopT, desktop_set_dirty, ToggleMenu, CloseMenu, Redress, Asks

LEMMA FocusAsks ==
  ASSUME NEW d, "needs_redraw" \in DOMAIN d, NEW id
  PROVE  /\ Asks(d, desktop_focus_window(d, id))
         /\ id \in Ids(d.windows) => desktop_focus_window(d, id).needs_redraw = TRUE
BY DEF desktop_focus_window, desktop_set_dirty, Asks

LEMMA CreateAsks ==
  ASSUME NEW d, Good(d), NEW app \in App
  PROVE  Asks(d, Create(d, app))
<1>1. CASE Len(d.windows) >= MAX_WINDOWS
  BY <1>1 DEF Create, Asks
<1>2. CASE ~(Len(d.windows) >= MAX_WINDOWS)
  <2>. DEFINE f == Opened(d, app)
  <2>1. /\ Sound(f) /\ Create(d, app) = desktop_focus_window(f, d.next_window_id)
        /\ d.next_window_id \in Ids(f.windows)
    BY <1>2, OpenedSound
  <2>. HIDE DEF f
  <2>2. "needs_redraw" \in DOMAIN f
    BY <2>1 DEF Sound, DesktopT
  <2>. QED BY <2>1, <2>2, FocusAsks DEF Asks
<1>. QED BY <1>1, <1>2

LEMMA CloseAsks ==
  ASSUME NEW d, Good(d), NEW id
  PROVE  Asks(d, desktop_close_window(d, id))
<1>. DEFINE left == Without(d.windows, id)
            f == Closed(d, id)
<1>1. desktop_close_window(d, id) = IF left = <<>> THEN f ELSE desktop_focus_window(f, Last(left).id)
  BY DEF desktop_close_window, Closed
<1>2. Sound(f) /\ f.needs_redraw = TRUE
  BY ClosedSound
<1>. HIDE DEF f, left
<1>3. "needs_redraw" \in DOMAIN f
  BY <1>2 DEF Sound, DesktopT
<1>. QED BY <1>1, <1>2, <1>3, FocusAsks DEF Asks

\* Mouse events.
LEMMA MoveAsks ==
  ASSUME NEW d \in DesktopT, NEW at, NEW left, NEW look
  PROVE  Asks(d, HandleMove(d, at, left, look))
<1>. DEFINE f == desktop_set_dirty([d EXCEPT !.mouse = at])
<1>1. HandleMove(d, at, left, look) \in {d, f, Redress(f, d.active_window, look)}
  BY DEF HandleMove
<1>2. f.needs_redraw = TRUE /\ Redress(f, d.active_window, look).needs_redraw = TRUE
  BY DEF DesktopT, desktop_set_dirty, Redress
<1>. HIDE DEF f
<1>. QED BY <1>1, <1>2 DEF Asks

LEMMA PressWindowAsks ==
  ASSUME NEW d, Good(d), NEW i \in DOMAIN d.windows, NEW hit \in Hit, NEW look \in Look
  PROVE  Asks(d, PressWindow(d, i, hit, look))
<1>. DEFINE id == d.windows[i].id
            f  == desktop_focus_window(d, id)
            g  == [f EXCEPT !.active_window = id, !.active_hit = hit]
<1>1. PressWindow(d, i, hit, look) \in
        {desktop_close_window(d, id), Redress(f, id, look), Redress(g, id, look), desktop_set_dirty(g)}
  BY DEF PressWindow, Hit
<1>2. Good(f)
  BY RefocusGood
<1>. HIDE DEF f, id
<1>3. /\ Redress(f, id, look).needs_redraw = TRUE /\ Redress(g, id, look).needs_redraw = TRUE
      /\ desktop_set_dirty(g).needs_redraw = TRUE
  BY <1>2 DEF Good, Sound, DesktopT, Redress, desktop_set_dirty
<1>. HIDE DEF g
<1>. QED BY <1>1, <1>3, CloseAsks DEF Asks

LEMMA PressAsks ==
  ASSUME NEW d, Good(d), NEW target \in TargetsOf(d), NEW look \in Look
  PROVE  Asks(d, PressLeft(d, target, look))
<1>. d \in DesktopT
  BY DEF Good, Sound
<1>1. CASE target.kind = "start"
  BY <1>1, FlagsAsk DEF PressLeft, Asks
<1>2. CASE target.kind = "item"
  <2>1. target.app \in App
    BY <1>2 DEF TargetsOf
  <2>2. Create(d, target.app) \in DesktopT
    BY <2>1, CreateGood DEF Good, Sound
  <2>3. CloseMenu(Create(d, target.app)).needs_redraw = TRUE
    BY <2>2, FlagsAsk
  <2>. QED BY <1>2, <2>3 DEF PressLeft, Asks
<1>3. CASE target.kind = "taskbar"
  <2>. DEFINE f == desktop_focus_window(d, d.windows[target.index].id)
  <2>1. f \in DesktopT
    BY RefocusGood DEF Good, Sound
  <2>2. desktop_set_dirty(f).needs_redraw = TRUE
    BY <2>1, FlagsAsk
  <2>. QED BY <1>3, <2>2 DEF PressLeft, Asks
<1>4. CASE target.kind = "window"
  <2>1. target.index \in DOMAIN d.windows /\ target.hit \in Hit
    BY <1>4 DEF TargetsOf
  <2>. QED BY <1>4, <2>1, PressWindowAsks DEF PressLeft
<1>5. CASE target.kind = "wallpaper"
  BY <1>5, FlagsAsk DEF PressLeft, Asks
<1>6. target.kind \in {"start", "item", "taskbar", "window", "wallpaper"}
  BY DEF TargetsOf
<1>. QED BY <1>1, <1>2, <1>3, <1>4, <1>5, <1>6

LEMMA HandlersAsk ==
  ASSUME NEW d, Good(d), NEW at \in Position, NEW button, NEW target, NEW look \in Look,
         button = "left" => target \in TargetsOf(d)
  PROVE  /\ Asks(d, HandlePress(d, at, button, target, look))
         /\ Asks(d, HandleRelease(d, button))
<1>. DEFINE f == [d EXCEPT !.mouse = at]
<1>1. d \in DesktopT
  BY DEF Good, Sound
<1>2. Good(f) /\ Asks(d, f) /\ TargetsOf(f) = TargetsOf(d)
  BY <1>1, FlagsGood, FlagsAsk DEF DesktopT, TargetsOf
<1>3. HandlePress(d, at, button, target, look) = IF button = "left" THEN PressLeft(f, target, look) ELSE f
  BY DEF HandlePress
<1>4. Asks(d, HandleRelease(d, button))
  BY <1>1 DEF HandleRelease, Asks, DesktopT
<1>. HIDE DEF f
<1>. QED BY <1>2, <1>3, <1>4, PressAsks, AsksAgain

LEMMA ButtonAsks ==
  ASSUME NEW s, PairGood(s), NEW button, NEW pressed \in BOOLEAN, NEW target, NEW look \in Look,
         button = "left" /\ pressed => target \in TargetsOf(s.desk)
  PROVE  Asks(s.desk, PostButton(s, button, pressed, target, look).desk)
<1>1. CASE ~Accepts(s)
  BY <1>1 DEF PostButton, Asks
<1>2. CASE Accepts(s)
  <2>1. PostButton(s, button, pressed, target, look).desk
          = IF pressed THEN HandlePress(s.desk, s.input.pointer, button, target, look)
            ELSE HandleRelease(s.desk, button)
    BY <1>2 DEF PostButton
  <2>2. s.input.pointer \in Position /\ Good(s.desk)
    BY DEF PairGood, InputT
  <2>3. CASE pressed
    BY <2>1, <2>2, <2>3, HandlersAsk
  <2>4. CASE ~pressed
    <3>1. Asks(s.desk, HandleRelease(s.desk, button))
      BY <2>2 DEF HandleRelease, Asks, Good, Sound, DesktopT
    <3>. QED BY <2>1, <2>4, <3>1
  <2>. QED BY <2>3, <2>4
<1>. QED BY <1>1, <1>2

LEMMA MovementAsks ==
  ASSUME NEW s, PairGood(s), NEW to, NEW look
  PROVE  Asks(s.desk, PostMove(s, to, look).desk)
BY MoveAsks DEF PostMove, PairGood, Good, Sound, Asks

LEMMA OtherAsks ==
  ASSUME NEW s, PairGood(s), NEW change, NEW look \in Look, NEW target
  PROVE  LET t == PostOther(s, change, target, look)
         IN  PairGood(t) /\ Asks(s.desk, t.desk)
<1>1. CASE change = "none"
  BY <1>1 DEF PostOther, Asks
<1>2. CASE change # "none"
  <2>. DEFINE pressed == change = "press"
  <2>1. pressed \in BOOLEAN /\ PostOther(s, change, target, look) = PostButton(s, "other", pressed, target, look)
    BY <1>2 DEF PostOther
  <2>. HIDE DEF pressed
  <2>2. Asks(s.desk, PostButton(s, "other", pressed, target, look).desk)
    BY <2>1, ButtonAsks
  <2>. QED BY <2>1, <2>2, OtherGood
<1>. QED BY <1>1, <1>2

LEMMA PacketAsks ==
  ASSUME NEW s, PairGood(s), driver \in BOOLEAN, NEW left \in BOOLEAN,
         NEW other, NEW moved \in BOOLEAN, NEW to, moved => to \in Position, NEW look \in Look,
         NEW target, left /\ ~driver => target \in TargetsOf(s.desk)
  PROVE  Asks(s.desk, mouse_handler(s, left, other, moved, to, look, target).desk)
<1>. DEFINE s1 == IF left = driver THEN s ELSE PostButton(s, "left", left, target, look)
            s3 == PostOther(s1, other["right"], target, look)
            s2 == PostOther(s3, other["middle"], target, look)
            t  == IF moved THEN PostMove(s2, to, look) ELSE s2
<1>1. PairGood(s1) /\ Asks(s.desk, s1.desk)
  BY ButtonGood, ButtonAsks DEF Asks
<1>2. mouse_handler(s, left, other, moved, to, look, target) = t
  BY DEF mouse_handler
<1>. HIDE DEF s1
<1>3. PairGood(s3) /\ Asks(s1.desk, s3.desk)
  BY <1>1, OtherAsks
<1>. HIDE DEF s3
<1>4. PairGood(s2) /\ Asks(s3.desk, s2.desk)
  BY <1>3, OtherAsks
<1>. HIDE DEF s2
<1>5. Asks(s2.desk, t.desk)
  BY <1>4, MovementAsks DEF Asks
<1>. QED BY <1>1, <1>2, <1>3, <1>4, <1>5, AsksAgain

LEMMA UserAsks == IInv /\ UserStep => Asks(desk, desk')
<1>. SUFFICES ASSUME IInv, UserStep PROVE Asks(desk, desk')
  OBVIOUS
<1>1. Good(desk) /\ desk \in DesktopT /\ Notepad \in App /\ Calculator \in App /\ Sysinfo \in App
  BY DEF IInv, PairGood, Good, Sound, App
<1>2. CASE MousePacket
  <2>. DEFINE s == [input |-> input, desk |-> desk]
  <2>1. PICK left \in BOOLEAN, other \in OtherChanges, moved \in BOOLEAN :
          \E to, target : \E look \in Look :
            /\ moved => to \in Position
            /\ left /\ ~driver => target \in TargetsOf(desk)
            /\ Packet(left, other, moved, to, look, target)
    BY <1>2, SomePacket
  <2>2. PICK to, target : \E look \in Look :
            /\ moved => to \in Position
            /\ left /\ ~driver => target \in TargetsOf(desk)
            /\ Packet(left, other, moved, to, look, target)
    BY <2>1
  <2>3. PICK look \in Look :
            /\ moved => to \in Position
            /\ left /\ ~driver => target \in TargetsOf(desk)
            /\ Packet(left, other, moved, to, look, target)
    BY <2>2
  <2>4. desk' = mouse_handler(s, left, other, moved, to, look, target).desk
    BY <2>3 DEF Packet
  <2>5. PairGood(s) /\ s.desk = desk /\ driver \in BOOLEAN
    BY DEF IInv
  <2>. HIDE DEF s
  <2>6. left /\ ~driver => target \in TargetsOf(s.desk)
    BY <2>3, <2>5
  <2>7. Asks(s.desk, mouse_handler(s, left, other, moved, to, look, target).desk)
    BY <2>3, <2>5, <2>6, PacketAsks
  <2>. QED BY <2>4, <2>5, <2>7
<1>3. ASSUME NEW d, d \in DesktopT, desk' \in {CloseMenu(d), desktop_set_dirty(d), ToggleMenu(d)}
      PROVE  Asks(desk, desk')
  BY <1>3, FlagsAsk DEF Asks
<1>4. ASSUME NEW a \in App, DigitKey(a) \/ FunctionKey(a) PROVE Asks(desk, desk')
  <2>. DEFINE d == Create(desk, a)
  <2>1. d \in DesktopT
    BY <1>1, CreateGood DEF Good, Sound
  <2>2. desk' \in {CloseMenu(d), desktop_set_dirty(d)}
    BY <1>4 DEF DigitKey, FunctionKey, Key
  <2>. HIDE DEF d
  <2>. QED BY <1>3, <2>1, <2>2
<1>5. CASE StarterKey
  <2>. DEFINE d1 == Create(desk, Notepad)
              d2 == Create(d1, Calculator)
              d3 == Create(d2, Sysinfo)
  <2>1. desk' = desktop_set_dirty(d3)
    BY <1>5 DEF StarterKey, Key
  <2>2. Good(d1)
    BY <1>1, CreateGood
  <2>. HIDE DEF d1
  <2>3. Good(d2)
    BY <1>1, <2>2, CreateGood
  <2>. HIDE DEF d2
  <2>4. d3 \in DesktopT
    BY <1>1, <2>3, CreateGood DEF Good, Sound
  <2>. HIDE DEF d3
  <2>. QED BY <1>3, <2>1, <2>4
<1>6. CASE MenuKey
  BY <1>1, <1>3, <1>6 DEF MenuKey, Key
<1>7. CASE CycleKey
  <2>. DEFINE d == desktop_cycle_focus(desk)
  <2>1. d \in DesktopT
    BY <1>1, CycleGood DEF Good, Sound
  <2>2. desk' = desktop_set_dirty(d)
    BY <1>7 DEF CycleKey, Key
  <2>. HIDE DEF d
  <2>. QED BY <1>3, <2>1, <2>2
<1>8. CASE CloseKey
  BY <1>1, <1>8, CloseAsks DEF CloseKey, Key
<1>9. CASE RaiseKey
  <2>1. "needs_redraw" \in DOMAIN desk
    BY <1>1 DEF DesktopT
  <2>. QED BY <1>9, <2>1, FocusAsks DEF RaiseKey, Key
<1>10. CASE \E look \in Look : LookKey(look)
  <2>1. PICK look \in Look : desk' = Redress(desk, desk.focused_window, look)
    BY <1>10 DEF LookKey, Key
  <2>. QED BY <1>1, <2>1, FlagsAsk DEF Asks
<1>. QED BY <1>2, <1>4, <1>5, <1>6, <1>7, <1>8, <1>9, <1>10 DEF UserStep

-----------------------------------------------------------------------------
(* The picture while it is painted.  As long as nobody has asked for       *)
(* another one, what was painted is the beginning of what should be.       *)

IsDrawing ==
  \/ drawing = Idle \/ drawing = At("wallpaper", 0)
  \/ \E i \in Nat \ {0} : \/ drawing = At("taskbar", i) \/ drawing = At("window", i)
                         \/ \E by : drawing = Called(by, i)

Painted ==
  CASE drawing.part = "idle"    -> ButtonsShown + 2 + 2 * Len(desk.windows)
    [] drawing.part = "taskbar" -> drawing.slot
    [] drawing.part = "window"  -> ButtonsShown + 2 * drawing.slot
    [] drawing.part = "content" -> ButtonsShown + 2 * drawing.slot + 1

OnCourse ==
  /\ frame = Layers(Painted)
  /\ drawing.part = "taskbar" => drawing.slot <= ButtonsShown + 1
  /\ drawing.part = "window"  => drawing.slot <= Len(desk.windows) + 1
  /\ drawing.part = "content" => /\ drawing.slot <= Len(desk.windows)
                                 /\ drawing.by = desk.windows[drawing.slot].app

FrameInv ==
  /\ IsDrawing
  /\ ~desk.needs_redraw /\ ~paused /\ drawing.part # "wallpaper" => OnCourse

LEMMA DrawNextIsNext == DrawNext => [Next]_deskVars
BY DEF DrawNext, Next, Draw, PauseHotkey, DrawBegin, DrawBackground, desktop_draw_taskbar,
       desktop_draw_menu, desktop_draw_window, draw_content, Present, Paint

LEMMA DrawInvariance == DrawSpec => []IInv
<1>1. DrawInit => IInv
  BY InitIInv DEF DrawInit
<1>2. IInv /\ [DrawNext]_vars => IInv'
  BY StepIInv, DrawNextIsNext DEF vars, deskVars
<1>. QED BY <1>1, <1>2, PTL DEF DrawSpec

\* The layers of an unchanged desktop are unchanged.
LEMMA SameLayers ==
  ASSUME desk'.windows = desk.windows, desk'.start_menu_open = desk.start_menu_open
  PROVE  ButtonsShown' = ButtonsShown /\ \A n : Layers(n)' = Layers(n)
BY DEF ButtonsShown, Layers, Layer, Start, Menu, WindowLayer

LEMMA SameCourse ==
  ASSUME OnCourse, UNCHANGED drawVars,
         desk'.windows = desk.windows, desk'.start_menu_open = desk.start_menu_open
  PROVE  OnCourse'
<1>1. ButtonsShown' = ButtonsShown /\ \A n : Layers(n)' = Layers(n)
  BY SameLayers
<1>. QED BY <1>1 DEF OnCourse, Painted, drawVars

LEMMA FrameGrows ==
  ASSUME NEW m \in Nat, NEW layer, layer = Layer(m + 1)
  PROVE  Append(Layers(m), layer) = Layers(m + 1)
<1>. DEFINE S == {Layer(k) : k \in 1 .. m}
<1>1. Layers(m) \in Seq(S) /\ Len(Layers(m)) = m /\ DOMAIN Layers(m) = 1 .. m
  <2>1. DOMAIN Layers(m) = 1 .. m /\ \A k \in 1 .. m : Layers(m)[k] \in S
    BY DEF Layers
  <2>2. Layers(m) = [k \in 1 .. m |-> Layers(m)[k]]
    BY DEF Layers
  <2>. HIDE DEF S
  <2>. QED BY <2>1, <2>2, SeqOfFunction
<1>. HIDE DEF S
<1>2. /\ DOMAIN Append(Layers(m), layer) = 1 .. m + 1
      /\ \A i \in 1 .. m : Append(Layers(m), layer)[i] = Layer(i)
      /\ Append(Layers(m), layer)[m + 1] = layer
  BY <1>1, AppendIs DEF Layers
<1>3. \A i \in 1 .. m + 1 : Append(Layers(m), layer)[i] = Layers(m + 1)[i]
  BY <1>2 DEF Layers
<1>4. DOMAIN Layers(m + 1) = 1 .. m + 1
  BY DEF Layers
<1>. DEFINE a == Append(Layers(m), layer)
            b == Layers(m + 1)
<1>5. a = [i \in 1 .. m + 1 |-> a[i]] /\ b = [i \in 1 .. m + 1 |-> b[i]]
  BY <1>1, <1>2, <1>4 DEF Layers
<1>6. \A i \in 1 .. m + 1 : a[i] = b[i]
  BY <1>3
<1>. HIDE DEF a, b
<1>7. a = b
  BY <1>5, <1>6
<1>. QED BY <1>7 DEF a, b

\* Which layer is painted at each point of desktop_draw.
LEMMA LayerOf ==
  ASSUME IInv, NEW i \in Nat \ {0}
  PROVE  /\ ButtonsShown \in Nat /\ Len(desk.windows) \in Nat
         /\ DOMAIN desk.windows = 1 .. Len(desk.windows)
         /\ HasButton(i) <=> i <= ButtonsShown
         /\ Layer(1) = Start(desk)
         /\ i <= ButtonsShown => Layer(i + 1) = Button(desk.windows[i])
         /\ Layer(ButtonsShown + 2) = Menu(desk)
         /\ Layer(ButtonsShown + 2 * i + 1) = Chrome(desk.windows[i])
         /\ Layer(ButtonsShown + 2 * i + 2) = Content(desk.windows[i].app, desk.windows[i])
<1>1. Len(desk.windows) \in Nat /\ DOMAIN desk.windows = 1 .. Len(desk.windows)
  BY DomainIs DEF IInv, PairGood, Good, Sound, GoodList
<1>2. ButtonsShown \in Nat /\ (HasButton(i) <=> i <= ButtonsShown)
  BY <1>1, TaskbarAssumption DEF ButtonsShown, HasButton
<1>3. Layer(1) = Start(desk)
  BY <1>2 DEF Layer
<1>4. i <= ButtonsShown => Layer(i + 1) = Button(desk.windows[i])
  BY <1>2 DEF Layer
<1>5. Layer(ButtonsShown + 2) = Menu(desk)
  BY <1>2 DEF Layer
<1>6. ASSUME NEW k \in Nat \ {0} PROVE Layer(ButtonsShown + 2 + k) = WindowLayer(k)
  BY <1>2, <1>6 DEF Layer
<1>7. Layer(ButtonsShown + 2 * i + 1) = Chrome(desk.windows[i])
  <2>1. /\ 2 * i - 1 \in Nat \ {0} /\ ButtonsShown + 2 + (2 * i - 1) = ButtonsShown + 2 * i + 1
        /\ (2 * i - 1 + 1) \div 2 = i /\ (2 * i - 1) % 2 = 1
    BY <1>2
  <2>2. WindowLayer(2 * i - 1) = Chrome(desk.windows[i])
    BY <2>1 DEF WindowLayer
  <2>3. Layer(ButtonsShown + 2 + (2 * i - 1)) = WindowLayer(2 * i - 1)
    BY <1>6, <2>1
  <2>. QED BY <2>1, <2>2, <2>3
<1>8. Layer(ButtonsShown + 2 * i + 2) = Content(desk.windows[i].app, desk.windows[i])
  <2>1. /\ 2 * i \in Nat \ {0} /\ ButtonsShown + 2 + 2 * i = ButtonsShown + 2 * i + 2
        /\ (2 * i + 1) \div 2 = i /\ (2 * i) % 2 = 0
    BY <1>2
  <2>2. WindowLayer(2 * i) = Content(desk.windows[i].app, desk.windows[i])
    BY <2>1 DEF WindowLayer
  <2>3. Layer(ButtonsShown + 2 + 2 * i) = WindowLayer(2 * i)
    BY <1>6, <2>1
  <2>. QED BY <2>1, <2>2, <2>3
<1>. QED BY <1>1, <1>2, <1>3, <1>4, <1>5, <1>7, <1>8

LEMMA InitFrame == DrawInit => FrameInv
<1>. SUFFICES ASSUME DrawInit PROVE FrameInv
  OBVIOUS
<1>1. PICK p \in Position : desk = Create(desktop_init(p), Notepad)
  BY DEF DrawInit, Init
<1>2. Create(desktop_init(p), Notepad).needs_redraw = TRUE
  <2>. DEFINE d == desktop_init(p)
  <2>1. d.needs_redraw = TRUE /\ Good(d) /\ Notepad \in App
    BY InitGood DEF desktop_init, App
  <2>. HIDE DEF d
  <2>2. Asks(d, Create(d, Notepad))
    BY <2>1, CreateAsks
  <2>. QED BY <2>1, <2>2 DEF Asks, d
<1>. QED BY <1>1, <1>2 DEF DrawInit, FrameInv, IsDrawing

\* One layer more, when the windows stay as they are.
LEMMA PaintsNext ==
  ASSUME IInv, OnCourse, ~paused, NEW layer, NEW next, Paint(layer, next),
         Painted \in Nat, layer = Layer(Painted + 1), Painted' = Painted + 1
  PROVE  frame' = Layers(Painted)'
<1>1. frame' = Append(Layers(Painted), layer)
  BY DEF Paint, OnCourse
<1>2. frame' = Layers(Painted + 1)
  BY <1>1, FrameGrows
<1>3. \A n : Layers(n)' = Layers(n)
  BY SameLayers DEF Paint, deskVars
<1>. QED BY <1>2, <1>3

LEMMA StepFrame == IInv /\ FrameInv /\ [DrawNext]_vars => FrameInv'
<1>. SUFFICES ASSUME IInv, FrameInv, [DrawNext]_vars PROVE FrameInv'
  OBVIOUS
<1>0. /\ Len(desk.windows) \in Nat /\ DOMAIN desk.windows = 1 .. Len(desk.windows)
      /\ desk \in DesktopT /\ ButtonsShown \in Nat
  <2>1. 1 \in Nat \ {0}
    OBVIOUS
  <2>. QED BY <2>1, LayerOf DEF IInv, PairGood, Good, Sound
<1>. DEFINE Quiet == ~desk.needs_redraw /\ ~paused /\ drawing.part # "wallpaper"
<1>1. CASE UserStep /\ UNCHANGED drawVars
  <2>1. Asks(desk, desk')
    BY <1>1, UserAsks
  <2>2. IsDrawing'
    BY <1>1 DEF FrameInv, IsDrawing, drawVars
  <2>3. ASSUME Quiet' PROVE OnCourse'
    <3>1. Quiet /\ desk'.windows = desk.windows /\ desk'.start_menu_open = desk.start_menu_open
      BY <1>1, <2>1, <2>3 DEF Asks, drawVars
    <3>. QED BY <1>1, <3>1, SameCourse DEF FrameInv
  <2>. QED BY <2>2, <2>3 DEF FrameInv
<1>2. CASE PauseHotkey
  BY <1>2 DEF PauseHotkey, FrameInv, IsDrawing
<1>3. CASE DrawBegin
  BY <1>3 DEF DrawBegin, FrameInv, IsDrawing, At
<1>4. CASE DrawBackground
  <2>1. drawing' = At("taskbar", 1) /\ 1 \in Nat \ {0}
    BY <1>4 DEF DrawBackground
  <2>2. IsDrawing'
    BY <2>1 DEF IsDrawing
  <2>3. ASSUME ~paused' PROVE OnCourse'
    <3>1. frame' = <<Start(desk)>> /\ Painted' = 1
      BY <1>4, <2>1, <2>3 DEF DrawBackground, Painted, At
    <3>2. Layer(1) = Start(desk)
      BY <1>0 DEF Layer
    <3>3. <<Start(desk)>> = Layers(1)
      <4>1. Layers(1) = [k \in {1} |-> Start(desk)]
        BY <3>2 DEF Layers
      <4>. QED BY <4>1
    <3>4. /\ desk'.windows = desk.windows /\ desk'.start_menu_open = desk.start_menu_open
      BY <1>0, <1>4 DEF DrawBackground, ReadPointer, DesktopT
    <3>5. ButtonsShown' = ButtonsShown /\ \A n : Layers(n)' = Layers(n)
      BY <3>4, SameLayers
    <3>6. frame' = Layers(Painted)'
      BY <3>1, <3>3, <3>5
    <3>. QED BY <1>0, <2>1, <3>5, <3>6 DEF OnCourse, At
  <2>. QED BY <2>2, <2>3 DEF FrameInv
<1>. DEFINE i == drawing.slot
<1>a. ASSUME drawing.part \in {"taskbar", "window", "content"}
      PROVE  /\ i \in Nat \ {0}
             /\ drawing.part = "taskbar" => Painted = i
             /\ drawing.part = "window" => Painted = ButtonsShown + 2 * i
             /\ drawing.part = "content" => Painted = ButtonsShown + 2 * i + 1
  BY <1>a DEF FrameInv, IsDrawing, At, Idle, Called, Painted
<1>b. ASSUME NEW next, UNCHANGED deskVars, drawing' = next
      PROVE  /\ ButtonsShown' = ButtonsShown /\ Len(desk.windows)' = Len(desk.windows)
             /\ next.part = "taskbar" => Painted' = next.slot
             /\ next.part = "window"  => Painted' = ButtonsShown + 2 * next.slot
             /\ next.part = "content" => Painted' = ButtonsShown + 2 * next.slot + 1
             /\ next.part = "idle"    => Painted' = ButtonsShown + 2 + 2 * Len(desk.windows)
  BY <1>b, SameLayers DEF deskVars, Painted
<1>5. CASE desktop_draw_taskbar
  <2>. DEFINE next == At("taskbar", i + 1)
  <2>1. Paint(Button(desk.windows[i]), next) /\ HasButton(i) /\ drawing.part = "taskbar"
    BY <1>5 DEF desktop_draw_taskbar
  <2>2. i \in Nat \ {0} /\ Painted = i /\ i <= ButtonsShown /\ Layer(i + 1) = Button(desk.windows[i])
    BY <1>a, <2>1, LayerOf
  <2>3. Painted' = i + 1 /\ ButtonsShown' = ButtonsShown /\ drawing' = next
    BY <1>b, <2>1 DEF Paint, At
  <2>4. IsDrawing'
    BY <2>2, <2>3 DEF IsDrawing
  <2>5. ASSUME Quiet' PROVE OnCourse'
    <3>1. Quiet /\ OnCourse
      BY <2>1, <2>5 DEF FrameInv, Paint, deskVars
    <3>2. frame' = Layers(Painted)'
      BY <2>1, <2>2, <2>3, <3>1, PaintsNext
    <3>. QED BY <1>0, <2>2, <2>3, <3>2 DEF OnCourse, At
  <2>. QED BY <2>4, <2>5 DEF FrameInv
<1>6. CASE desktop_draw_menu
  <2>. DEFINE next == At("window", 1)
  <2>1. Paint(Menu(desk), next) /\ ~HasButton(i) /\ drawing.part = "taskbar"
    BY <1>6 DEF desktop_draw_menu
  <2>2. i \in Nat \ {0} /\ Painted = i /\ ~(i <= ButtonsShown)
        /\ Layer(ButtonsShown + 2) = Menu(desk)
    BY <1>a, <2>1, LayerOf
  <2>3. /\ Painted' = ButtonsShown + 2 /\ drawing' = next /\ desk' = desk
    <3>1. UNCHANGED deskVars /\ drawing' = next
      BY <2>1 DEF Paint
    <3>2. Painted' = ButtonsShown + 2 * next.slot
      BY <1>b, <3>1 DEF At
    <3>. QED BY <1>0, <3>1, <3>2 DEF At, deskVars
  <2>4. IsDrawing'
    BY <2>3 DEF IsDrawing
  <2>5. ASSUME Quiet' PROVE OnCourse'
    <3>1. Quiet /\ OnCourse
      BY <2>1, <2>5 DEF FrameInv, Paint, deskVars
    <3>2. i = ButtonsShown + 1
      BY <1>0, <2>1, <2>2, <3>1 DEF OnCourse
    <3>3. frame' = Layers(Painted)'
      BY <1>0, <2>1, <2>2, <2>3, <3>1, <3>2, PaintsNext
    <3>. QED BY <1>0, <2>3, <3>3 DEF OnCourse, At
  <2>. QED BY <2>4, <2>5 DEF FrameInv
<1>7. CASE desktop_draw_window
  <2>. DEFINE by == desk.windows[i].app
              next == Called(by, i)
  <2>1. Paint(Chrome(desk.windows[i]), next) /\ i \in DOMAIN desk.windows /\ drawing.part = "window"
    BY <1>7 DEF desktop_draw_window
  <2>2. i \in Nat \ {0} /\ Painted = ButtonsShown + 2 * i
        /\ Layer(ButtonsShown + 2 * i + 1) = Chrome(desk.windows[i])
    BY <1>a, <2>1, LayerOf
  <2>3. /\ Painted' = ButtonsShown + 2 * i + 1 /\ drawing' = next /\ desk' = desk
    BY <1>b, <2>1 DEF Paint, Called, deskVars
  <2>4. IsDrawing'
    BY <2>2, <2>3 DEF IsDrawing
  <2>5. ASSUME Quiet' PROVE OnCourse'
    <3>1. Quiet /\ OnCourse
      BY <2>1, <2>5 DEF FrameInv, Paint, deskVars
    <3>2. Painted \in Nat /\ Painted' = Painted + 1
      BY <1>0, <2>2, <2>3
    <3>3. frame' = Layers(Painted)'
      BY <2>1, <2>2, <3>1, <3>2, PaintsNext
    <3>. QED BY <1>0, <2>1, <2>3, <3>3 DEF OnCourse, Called
  <2>. QED BY <2>4, <2>5 DEF FrameInv
<1>8. CASE draw_content
  <2>. DEFINE next == At("window", i + 1)
              layer == IF i \in DOMAIN desk.windows THEN Content(drawing.by, desk.windows[i])
                       ELSE LeftBehind
  <2>1. Paint(layer, next) /\ drawing.part = "content"
    BY <1>8 DEF draw_content
  <2>2. i \in Nat \ {0} /\ Painted = ButtonsShown + 2 * i + 1
        /\ Layer(ButtonsShown + 2 * i + 2) = Content(desk.windows[i].app, desk.windows[i])
    BY <1>a, <2>1, LayerOf
  <2>3. /\ Painted' = ButtonsShown + 2 * (i + 1) /\ drawing' = next /\ desk' = desk
    BY <1>b, <2>1 DEF Paint, At, deskVars
  <2>4. IsDrawing'
    BY <2>2, <2>3 DEF IsDrawing
  <2>5. ASSUME Quiet' PROVE OnCourse'
    <3>1. Quiet /\ OnCourse
      BY <2>1, <2>5 DEF FrameInv, Paint, deskVars
    <3>2. i <= Len(desk.windows) /\ drawing.by = desk.windows[i].app
      BY <2>1, <3>1 DEF OnCourse
    <3>3. layer = Content(desk.windows[i].app, desk.windows[i])
      BY <1>0, <2>2, <3>2
    <3>. HIDE DEF layer
    <3>4. /\ Painted \in Nat /\ Painted + 1 = ButtonsShown + 2 * i + 2 /\ Painted' = Painted + 1
      <4>1. ASSUME NEW b \in Nat, NEW j \in Nat
            PROVE  /\ b + 2 * j + 1 \in Nat /\ b + 2 * j + 1 + 1 = b + 2 * j + 2
                   /\ b + 2 * (j + 1) = b + 2 * j + 1 + 1
        OBVIOUS
      <4>. QED BY <4>1, <1>0, <2>2, <2>3, Zenon
    <3>5. frame' = Layers(Painted)'
      BY <2>1, <2>2, <3>1, <3>3, <3>4, PaintsNext
    <3>. QED BY <1>0, <2>2, <2>3, <3>2, <3>5 DEF OnCourse, At
  <2>. QED BY <2>4, <2>5 DEF FrameInv
<1>9. CASE Present
  <2>1. drawing' = Idle /\ UNCHANGED <<deskVars, frame, paused>> /\ drawing.part = "window"
        /\ i > Len(desk.windows)
    BY <1>9 DEF Present, AllDrawn
  <2>2. i \in Nat \ {0} /\ Painted = ButtonsShown + 2 * i
    BY <1>a, <2>1
  <2>3. Painted' = ButtonsShown + 2 + 2 * Len(desk.windows)
    BY <1>b, <2>1 DEF Idle, At
  <2>4. ASSUME Quiet' PROVE OnCourse'
    <3>1. Quiet /\ OnCourse
      BY <2>1, <2>4 DEF FrameInv, deskVars
    <3>2. i = Len(desk.windows) + 1
      BY <1>0, <2>1, <2>2, <3>1 DEF OnCourse
    <3>3. Painted' = Painted /\ frame' = Layers(Painted)
      BY <1>0, <2>1, <2>2, <2>3, <3>1, <3>2 DEF OnCourse
    <3>4. \A n : Layers(n)' = Layers(n)
      BY <2>1, SameLayers DEF deskVars
    <3>5. frame' = Layers(Painted)'
      BY <3>3, <3>4
    <3>. QED BY <2>1, <3>5 DEF OnCourse, Idle, At
  <2>. QED BY <2>1, <2>4 DEF FrameInv, IsDrawing
<1>10. CASE UNCHANGED vars
  <2>1. ASSUME OnCourse PROVE OnCourse'
    BY <1>10, <2>1, SameCourse DEF vars, deskVars
  <2>. QED BY <1>10, <2>1 DEF vars, deskVars, drawVars, FrameInv, IsDrawing
<1>. QED BY <1>1, <1>2, <1>3, <1>4, <1>5, <1>6, <1>7, <1>8, <1>9, <1>10 DEF DrawNext, Draw

(* When the loop has nothing left to draw, the screen shows the desktop as *)
(* it is, whatever changed the windows while desktop_draw read them.       *)
THEOREM QuietScreenAlwaysCurrent == DrawSpec => []QuietScreenIsCurrent
<1>1. FrameInv => QuietScreenIsCurrent
  BY DEF FrameInv, OnCourse, Painted, QuietScreenIsCurrent, Picture, Idle, At
<1>. QED BY <1>1, InitFrame, StepFrame, DrawInvariance, PTL DEF DrawSpec
=============================================================================
