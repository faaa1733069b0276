--------------------------- MODULE NetworkProofs ----------------------------
(***************************************************************************)
(* The four properties of Network, for any hosts, any size of the cache    *)
(* and of the ring, and any number of pings and frames.                    *)
(***************************************************************************)
EXTENDS Network, FiniteSetTheorems, TLAPS

Kinds == {"arp_request", "arp_reply", "echo_request", "echo_reply", "syn", "syn_ack", "ack",
          "request", "data", "fin"}

FrameT == [kind : Kinds, src : Hosts, port : Nat]

WaitT == [kind : Kinds, to : Hosts, port : Nat, tries : Int, handler : BOOLEAN, polled : BOOLEAN]

HostsT ==
  [knows : SUBSET Hosts, early : SUBSET Links, asked : SUBSET Hosts, pinged : SUBSET Hosts,
   answered : SUBSET Hosts, syns : SUBSET [to : Hosts, port : Nat], accepted : SUBSET Nat,
   finned : SUBSET Nat, arp_lost : BOOLEAN, sent : Nat]

ConnT ==
  [remote : Hosts, port : Nat, state : {"SYN_SENT", "ESTABLISHED", "CLOSED"},
   agreed : Nat, data_ready : BOOLEAN]

NetworkTypes ==
  /\ ping \in [n : Nat, to : Hosts]
  /\ waits \in Seq(WaitT)
  /\ cache \subseteq Hosts /\ IsFiniteSet(cache) /\ Cardinality(cache) <= ARP_CACHE_SIZE
  /\ echo \in [received : BOOLEAN, src : Hosts]
  /\ conn \in ConnT /\ active \in BOOLEAN
  /\ ring \in [rx : Seq(FrameT), in_step : BOOLEAN]
  /\ hosts \in HostsT /\ nested \in BOOLEAN

-----------------------------------------------------------------------------
(* The connection: whoever closed it has sent its FIN.                     *)

\* The port of the segment in the ring, or of the closed connection, is one
\* that a server finished.
FinsAreSent ==
  \A i \in DOMAIN ring.rx : ring.rx[i].kind = "fin" => ring.rx[i].port \in hosts.finned

ClosedByPeer ==
  /\ Connecting /\ conn.state = "CLOSED" => conn.port \in hosts.finned
  /\ DanglingNeedsFin

NumbersAgree == conn.state = "ESTABLISHED" => conn.agreed = conn.port

-----------------------------------------------------------------------------
(* The answers to a ping.                                                  *)

RepliesAreAnswers ==
  \A i \in DOMAIN ring.rx :
    ring.rx[i].kind = "echo_reply" => ring.rx[i].src \in hosts.answered \/ nested

-----------------------------------------------------------------------------
(* The order of ARP frames and what follows them.                          *)

Arp(f) == f.kind \in {"arp_request", "arp_reply"}

ComesFrom(rx, i, h) == Arp(rx[i]) /\ rx[i].src = h

\* Whoever knows this host is in the cache K or has an ARP frame under way.
Announced(rx, K, known) ==
  \A h \in known : h \in K \/ \E i \in DOMAIN rx : ComesFrom(rx, i, h)

\* A packet comes after the ARP frame of the host that delivers it.
Ordered(rx, K) ==
  \A i \in DOMAIN rx :
    Arp(rx[i]) \/ NextHop(rx[i].src) \in K
    \/ \E j \in DOMAIN rx : j < i /\ ComesFrom(rx, j, NextHop(rx[i].src))

Excused ==
  hosts.arp_lost \/ Cardinality(cache) = ARP_CACHE_SIZE \/ hosts.early # {}

NoHandlerWaits ==
  /\ ~nested /\ ring.in_step
  /\ \A i \in DOMAIN waits : ~waits[i].handler

InTurn ==
  Excused \/ /\ Announced(ring.rx, cache, hosts.knows)
             /\ Ordered(ring.rx, cache)
             /\ NoHandlerWaits

RingInv == FinsAreSent /\ RepliesAreAnswers /\ InTurn

ConnInv == ClosedByPeer /\ NumbersAgree

IInv == NetworkTypes /\ RingInv /\ ConnInv /\ SuccessNeedsAnswer

-----------------------------------------------------------------------------
(* Sequences of frames.                                                    *)

LEMMA TailFacts ==
  ASSUME NEW S, NEW rx \in Seq(S), rx # <<>>
  PROVE  /\ Tail(rx) \in Seq(S) /\ rx[1] \in S
         /\ DOMAIN rx = 1 .. Len(rx) /\ DOMAIN Tail(rx) = 1 .. Len(rx) - 1
         /\ Len(rx) \in Nat \ {0}
         /\ \A i \in DOMAIN Tail(rx) : i + 1 \in DOMAIN rx /\ Tail(rx)[i] = rx[i + 1]
OBVIOUS

LEMMA AppendFacts ==
  ASSUME NEW S, NEW rx \in Seq(S), NEW f \in S
  PROVE  /\ Append(rx, f) \in Seq(S)
         /\ DOMAIN rx = 1 .. Len(rx) /\ DOMAIN Append(rx, f) = 1 .. Len(rx) + 1
         /\ Len(rx) \in Nat
         /\ \A i \in DOMAIN rx : i \in DOMAIN Append(rx, f) /\ Append(rx, f)[i] = rx[i]
         /\ Len(rx) + 1 \in DOMAIN Append(rx, f) /\ Append(rx, f)[Len(rx) + 1] = f
OBVIOUS

\* The head may go when its sender, if it was an ARP frame, is in the cache.
LEMMA TailAnnounced ==
  ASSUME NEW rx \in Seq(FrameT), rx # <<>>, NEW K, NEW L, K \subseteq L, NEW known, NEW more,
         Announced(rx, K, known), \A h \in more : h \in known \/ h \in L,
         Arp(rx[1]) => rx[1].src \in L
  PROVE  Announced(Tail(rx), L, more)
<1>. SUFFICES ASSUME NEW h \in more, h \notin L
              PROVE  \E i \in DOMAIN Tail(rx) : ComesFrom(Tail(rx), i, h)
  BY DEF Announced
<1>1. PICK i \in DOMAIN rx : ComesFrom(rx, i, h)
  BY DEF Announced
<1>2. i # 1
  BY <1>1 DEF ComesFrom
<1>3. i - 1 \in DOMAIN Tail(rx) /\ Tail(rx)[i - 1] = rx[i]
  <2>. HIDE DEF FrameT
  <2>. QED BY <1>2, TailFacts
<1>. QED BY <1>1, <1>3 DEF ComesFrom

LEMMA TailOrdered ==
  ASSUME NEW rx \in Seq(FrameT), rx # <<>>, NEW K, NEW L, K \subseteq L,
         Ordered(rx, K), Arp(rx[1]) => rx[1].src \in L
  PROVE  Ordered(Tail(rx), L)
<1>. SUFFICES ASSUME NEW i \in DOMAIN Tail(rx), ~Arp(Tail(rx)[i]), NextHop(Tail(rx)[i].src) \notin L
              PROVE  \E j \in DOMAIN Tail(rx) : j < i /\ ComesFrom(Tail(rx), j, NextHop(Tail(rx)[i].src))
  BY DEF Ordered
<1>1. i \in Nat /\ i + 1 \in DOMAIN rx /\ Tail(rx)[i] = rx[i + 1]
  BY TailFacts
<1>2. PICK j \in DOMAIN rx : j < i + 1 /\ ComesFrom(rx, j, NextHop(rx[i + 1].src))
  BY <1>1 DEF Ordered
<1>3. j # 1
  BY <1>1, <1>2 DEF ComesFrom
<1>4. j - 1 \in DOMAIN Tail(rx) /\ Tail(rx)[j - 1] = rx[j] /\ j - 1 < i
  BY <1>1, <1>2, <1>3, TailFacts
<1>. QED BY <1>1, <1>2, <1>4 DEF ComesFrom

LEMMA AppendAnnounced ==
  ASSUME NEW rx \in Seq(FrameT), NEW f \in FrameT, NEW K, NEW known, NEW more,
         Announced(rx, K, known), \A h \in more : h \in known \/ (Arp(f) /\ f.src = h)
  PROVE  Announced(Append(rx, f), K, more)
<1>. DEFINE a == Append(rx, f)
<1>1. /\ \A i \in DOMAIN rx : i \in DOMAIN a /\ a[i] = rx[i]
      /\ Len(rx) + 1 \in DOMAIN a /\ a[Len(rx) + 1] = f
  BY AppendFacts
<1>. HIDE DEF a
<1>2. Announced(a, K, more)
  BY <1>1 DEF Announced, ComesFrom
<1>. QED BY <1>2 DEF a

\* A packet may follow when the host that delivers it knows this one.
LEMMA AppendOrdered ==
  ASSUME NEW rx \in Seq(FrameT), NEW f \in FrameT, NEW K, NEW known,
         Announced(rx, K, known), Ordered(rx, K), Arp(f) \/ NextHop(f.src) \in known
  PROVE  Ordered(Append(rx, f), K)
<1>. DEFINE a == Append(rx, f)
<1>1. /\ DOMAIN rx = 1 .. Len(rx) /\ DOMAIN a = 1 .. Len(rx) + 1 /\ Len(rx) \in Nat
      /\ \A i \in DOMAIN rx : i \in DOMAIN a /\ a[i] = rx[i]
      /\ a[Len(rx) + 1] = f
  BY AppendFacts
<1>. HIDE DEF a
<1>2. ASSUME NEW i \in DOMAIN a
      PROVE  Arp(a[i]) \/ NextHop(a[i].src) \in K
             \/ \E j \in DOMAIN a : j < i /\ ComesFrom(a, j, NextHop(a[i].src))
  <2>1. CASE i \in DOMAIN rx
    BY <1>1, <2>1 DEF Ordered, ComesFrom
  <2>2. CASE i \notin DOMAIN rx
    <3>1. i = Len(rx) + 1 /\ a[i] = f
      BY <1>1, <2>2
    <3>2. CASE Arp(f)
      BY <3>1, <3>2
    <3>3. CASE NextHop(f.src) \in K
      BY <3>1, <3>3
    <3>4. CASE \E j \in DOMAIN rx : ComesFrom(rx, j, NextHop(f.src))
      <4>1. PICK j \in DOMAIN rx : ComesFrom(rx, j, NextHop(f.src))
        BY <3>4
      <4>2. j \in DOMAIN a /\ j < i /\ a[j] = rx[j]
        BY <1>1, <3>1
      <4>. QED BY <3>1, <4>1, <4>2 DEF ComesFrom
    <3>. QED BY <3>2, <3>3, <3>4 DEF Announced
  <2>. QED BY <2>1, <2>2
<1>3. Ordered(a, K)
  BY <1>2 DEF Ordered
<1>. QED BY <1>3 DEF a

-----------------------------------------------------------------------------
(* What the parts of a step do.                                            *)

\* What no call of this host changes: the hosts' own knowledge and deeds.
HostsKept ==
  /\ hosts'.knows = hosts.knows /\ hosts'.early = hosts.early
  /\ hosts'.answered = hosts.answered /\ hosts'.finned = hosts.finned
  /\ hosts'.arp_lost = hosts.arp_lost

NoHandler(ws) == \A i \in DOMAIN ws : ~ws[i].handler

LEMMA NextHopIsAHost ==
  ASSUME NEW h \in Hosts
  PROVE  NextHop(h) \in Hosts
BY NetworkAssumption DEF NextHop, Hosts

LEMMA Transmits ==
  ASSUME hosts \in HostsT, NEW kind, NEW to \in Hosts, NEW port \in Nat,
         hosts' = Transmitted(hosts, kind, to, port)
  PROVE  hosts' \in HostsT /\ HostsKept
<1>1. CASE kind = "echo_request"
  <2>1. hosts' = [hosts EXCEPT !.pinged = @ \union {to}]
    BY <1>1 DEF Transmitted
  <2>. QED BY <2>1 DEF HostsT, HostsKept
<1>2. CASE kind = "syn"
  <2>1. hosts' = [hosts EXCEPT !.syns = @ \union {[to |-> to, port |-> port]}]
    BY <1>2 DEF Transmitted
  <2>. QED BY <2>1 DEF HostsT, HostsKept
<1>3. CASE kind = "ack"
  <2>1. hosts' = [hosts EXCEPT !.accepted = @ \union {port}]
    BY <1>3 DEF Transmitted
  <2>. QED BY <2>1 DEF HostsT, HostsKept
<1>4. CASE kind \notin {"echo_request", "syn", "ack"}
  <2>1. hosts' = hosts
    BY <1>4 DEF Transmitted
  <2>. QED BY <2>1 DEF HostsT, HostsKept
<1>. QED BY <1>1, <1>2, <1>3, <1>4

LEMMA Requests ==
  ASSUME hosts \in HostsT, NEW h \in Hosts, hosts' = arp_request(h)
  PROVE  hosts' \in HostsT /\ HostsKept
BY DEF arp_request, HostsT, HostsKept

\* A call of ip_send inside the calls `outer`.
LEMMA Sending ==
  ASSUME hosts \in HostsT, NEW kind \in Kinds, NEW to \in Hosts, NEW port \in Nat,
         NEW outer \in Seq(WaitT), NEW handler \in BOOLEAN,
         ip_send(kind, to, port, outer, handler)
  PROVE  /\ hosts' \in HostsT /\ HostsKept
         /\ waits' \in Seq(WaitT)
         /\ NoHandler(outer) /\ (handler => arp_lookup(NextHop(to))) => NoHandler(waits')
<1>1. CASE arp_lookup(NextHop(to))
  BY <1>1, Transmits DEF ip_send
<1>2. CASE ~arp_lookup(NextHop(to))
  <2>. DEFINE w == [kind |-> kind, to |-> to, port |-> port, tries |-> Tries,
                    handler |-> handler, polled |-> FALSE]
  <2>1. w \in WaitT /\ w.handler = handler
    BY NetworkAssumption DEF WaitT
  <2>2. waits' = Append(outer, w) /\ hosts' = arp_request(NextHop(to))
    BY <1>2 DEF ip_send
  <2>. HIDE DEF w
  <2>3. /\ waits' \in Seq(WaitT)
        /\ DOMAIN outer = 1 .. Len(outer) /\ DOMAIN waits' = 1 .. Len(outer) + 1 /\ Len(outer) \in Nat
        /\ \A i \in DOMAIN outer : waits'[i] = outer[i]
        /\ waits'[Len(outer) + 1] = w
    <3>. HIDE DEF WaitT
    <3>. QED BY <2>1, <2>2, AppendFacts
  <2>4. NoHandler(outer) /\ ~handler => NoHandler(waits')
    BY <2>1, <2>3 DEF NoHandler
  <2>. QED BY <1>2, <2>2, <2>3, <2>4, Requests, NextHopIsAHost
<1>. QED BY <1>1, <1>2

\* The innermost wait and the others.
LEMMA Innermost ==
  ASSUME waits \in Seq(WaitT), waits # <<>>
  PROVE  /\ Waiting \in WaitT /\ Outer \in Seq(WaitT)
         /\ NoHandler(waits) => ~Waiting.handler /\ NoHandler(Outer)
<1>1. Len(waits) \in DOMAIN waits /\ Waiting \in WaitT
  <2>. HIDE DEF WaitT
  <2>. QED BY DEF Waiting
<1>2. Outer \in Seq(WaitT) /\ \A i \in DOMAIN Outer : i \in DOMAIN waits /\ Outer[i] = waits[i]
  <2>. HIDE DEF WaitT
  <2>. QED BY DEF Outer
<1>. QED BY <1>1, <1>2 DEF NoHandler, Waiting

\* The innermost wait is replaced by one of the same caller.
LEMMA Rewait ==
  ASSUME waits \in Seq(WaitT), waits # <<>>, NEW w \in WaitT, w.handler = Waiting.handler
  PROVE  /\ Append(Outer, w) \in Seq(WaitT)
         /\ NoHandler(waits) => NoHandler(Append(Outer, w))
<1>. DEFINE ws == Append(Outer, w)
<1>1. Outer \in Seq(WaitT) /\ (NoHandler(waits) => ~w.handler /\ NoHandler(Outer))
  BY Innermost
<1>2. /\ ws \in Seq(WaitT)
      /\ DOMAIN Outer = 1 .. Len(Outer) /\ DOMAIN ws = 1 .. Len(Outer) + 1 /\ Len(Outer) \in Nat
      /\ \A i \in DOMAIN Outer : ws[i] = Outer[i]
      /\ ws[Len(Outer) + 1] = w
  <2>. HIDE DEF WaitT
  <2>. QED BY <1>1, AppendFacts
<1>. HIDE DEF ws
<1>3. NoHandler(waits) => NoHandler(ws)
  BY <1>1, <1>2 DEF NoHandler
<1>4. ws \in Seq(WaitT)
  BY <1>2
<1>. QED BY <1>3, <1>4 DEF ws

LEMMA Polling ==
  ASSUME waits \in Seq(WaitT)
  PROVE  Polled \in Seq(WaitT) /\ (NoHandler(waits) => NoHandler(Polled))
<1>1. CASE waits = <<>>
  BY <1>1 DEF Polled
<1>2. CASE waits # <<>>
  <2>. DEFINE w == [Waiting EXCEPT !.polled = TRUE]
  <2>1. w \in WaitT /\ w.handler = Waiting.handler
    BY <1>2, Innermost DEF WaitT
  <2>2. Polled = Append(Outer, w)
    BY <1>2 DEF Polled
  <2>. HIDE DEF w
  <2>. QED BY <1>2, <2>1, <2>2, Rewait
<1>. QED BY <1>1, <1>2

\* The cache learns h if it has room.
LEMMA Remembering ==
  ASSUME NetworkTypes, NEW h \in Hosts
  PROVE  /\ Remembered(h) \subseteq Hosts /\ IsFiniteSet(Remembered(h))
         /\ Cardinality(Remembered(h)) <= ARP_CACHE_SIZE
         /\ cache \subseteq Remembered(h)
         /\ Cardinality(cache) = ARP_CACHE_SIZE => Remembered(h) = cache
         /\ Cardinality(cache) # ARP_CACHE_SIZE => h \in Remembered(h)
<1>1. Cardinality(cache) \in Nat /\ ARP_CACHE_SIZE \in Nat
  BY FS_CardinalityType, NetworkAssumption DEF NetworkTypes
<1>2. /\ IsFiniteSet(cache \union {h})
      /\ Cardinality(cache \union {h}) = (IF h \in cache THEN Cardinality(cache) ELSE Cardinality(cache) + 1)
  BY FS_AddElement DEF NetworkTypes
<1>. QED BY <1>1, <1>2 DEF Remembered, NetworkTypes

-----------------------------------------------------------------------------
(* What the ring's invariants need of a step.                              *)

\* What the hosts did stays done.
Grows ==
  /\ hosts.finned \subseteq hosts'.finned /\ hosts.answered \subseteq hosts'.answered
  /\ nested => nested'

Harmless(f) ==
  /\ f.kind = "fin" => f.port \in hosts'.finned
  /\ f.kind = "echo_reply" => f.src \in hosts'.answered \/ nested'

LEMMA FramesStay ==
  ASSUME FinsAreSent, RepliesAreAnswers, Grows,
         \A i \in DOMAIN ring'.rx :
           Harmless(ring'.rx[i]) \/ \E j \in DOMAIN ring.rx : ring'.rx[i] = ring.rx[j]
  PROVE  FinsAreSent' /\ RepliesAreAnswers'
BY DEF FinsAreSent, RepliesAreAnswers, Grows, Harmless

\* A step that leaves the ring, the cache and the hosts' knowledge alone.
LocalStep ==
  /\ ring' = ring /\ cache' = cache /\ nested' = nested /\ HostsKept
  /\ NoHandler(waits) => NoHandler(waits')

LEMMA LocalKeeps == RingInv /\ LocalStep => RingInv'
<1>. SUFFICES ASSUME RingInv, LocalStep PROVE RingInv'
  OBVIOUS
<1>1. FinsAreSent' /\ RepliesAreAnswers'
  <2>1. Grows
    BY DEF LocalStep, HostsKept, Grows
  <2>. QED BY <2>1, FramesStay DEF RingInv, LocalStep
<1>2. InTurn'
  BY DEF RingInv, LocalStep, HostsKept, InTurn, Excused, Announced, Ordered, ComesFrom,
         NoHandlerWaits, NoHandler
<1>. QED BY <1>1, <1>2 DEF RingInv

\* Once excused, always excused.
LEMMA ExcusedStays == Excused /\ cache' = cache /\ HostsKept => InTurn'
BY DEF Excused, HostsKept, InTurn

\* The frame at the head, which is a packet, leaves the ring.
LEMMA HeadLeaves ==
  ASSUME NetworkTypes, RingInv, ring.rx # <<>>, ring' = Advanced, ~Arp(ring.rx[1]),
         cache' = cache, nested' = nested, HostsKept, NoHandler(waits) => NoHandler(waits')
  PROVE  ring' \in [rx : Seq(FrameT), in_step : BOOLEAN] /\ RingInv'
<1>1. ring.rx \in Seq(FrameT) /\ ring.in_step \in BOOLEAN
  BY DEF NetworkTypes
<1>2. Tail(ring.rx) \in Seq(FrameT)
  <2>. HIDE DEF FrameT
  <2>. QED BY <1>1, TailFacts
<1>3. ring'.rx = Tail(ring.rx) /\ ring'.in_step = ring.in_step
      /\ ring' \in [rx : Seq(FrameT), in_step : BOOLEAN]
  BY <1>1, <1>2 DEF NetworkTypes, Advanced
<1>4. FinsAreSent' /\ RepliesAreAnswers'
  <2>1. \A i \in DOMAIN ring'.rx : \E j \in DOMAIN ring.rx : ring'.rx[i] = ring.rx[j]
    BY <1>1, <1>3, TailFacts
  <2>2. Grows
    BY DEF HostsKept, Grows
  <2>. QED BY <2>1, <2>2, FramesStay DEF RingInv
<1>5. InTurn'
  <2>1. CASE Excused
    BY <2>1, ExcusedStays
  <2>2. CASE ~Excused
    <3>1. Announced(ring.rx, cache, hosts.knows) /\ Ordered(ring.rx, cache) /\ NoHandlerWaits
      BY <2>2 DEF RingInv, InTurn
    <3>2. Announced(Tail(ring.rx), cache, hosts.knows)
      BY <1>1, <3>1, TailAnnounced
    <3>3. Ordered(Tail(ring.rx), cache)
      BY <1>1, <3>1, TailOrdered
    <3>4. Announced(ring.rx, cache, hosts.knows)'
      BY <1>3, <3>2 DEF HostsKept, Announced, ComesFrom
    <3>5. Ordered(ring.rx, cache)'
      BY <1>3, <3>3 DEF Ordered, ComesFrom
    <3>6. NoHandlerWaits'
      BY <1>3, <3>1 DEF NoHandlerWaits, NoHandler
    <3>. QED BY <3>4, <3>5, <3>6 DEF InTurn
  <2>. QED BY <2>1, <2>2
<1>. QED BY <1>3, <1>4, <1>5 DEF RingInv

\* A call of ip_send returns, maybe into a handler.
LEMMA Returns ==
  ASSUME NetworkTypes, RingInv, waits # <<>>, AfterHandler, waits' = Outer,
         cache' = cache, nested' = nested, HostsKept
  PROVE  ring' \in [rx : Seq(FrameT), in_step : BOOLEAN] /\ RingInv'
<1>1. /\ ring.rx \in Seq(FrameT) /\ ring \in [rx : Seq(FrameT), in_step : BOOLEAN]
      /\ waits \in Seq(WaitT)
  BY DEF NetworkTypes
<1>2. NoHandler(waits) => ~Waiting.handler /\ NoHandler(waits')
  BY <1>1, Innermost
<1>3. CASE ~Waiting.handler
  <2>1. LocalStep
    BY <1>2, <1>3 DEF AfterHandler, LocalStep
  <2>. QED BY <1>1, <2>1, LocalKeeps DEF LocalStep
<1>4. CASE Waiting.handler
  <2>1. Excused
    BY <1>2, <1>4 DEF RingInv, InTurn, NoHandlerWaits, NoHandler
  <2>2. InTurn'
    BY <2>1, ExcusedStays
  <2>3. Grows
    BY DEF HostsKept, Grows
  <2>4. CASE ring.rx # <<>> /\ ring' = [ring EXCEPT !.rx = Tail(@)]
    <3>1. Tail(ring.rx) \in Seq(FrameT)
          /\ \A i \in DOMAIN Tail(ring.rx) : \E j \in DOMAIN ring.rx : Tail(ring.rx)[i] = ring.rx[j]
      BY <1>1, <2>4, TailFacts
    <3>2. ring'.rx = Tail(ring.rx) /\ ring' \in [rx : Seq(FrameT), in_step : BOOLEAN]
      BY <1>1, <2>4, <3>1
    <3>. QED BY <2>2, <2>3, <3>1, <3>2, FramesStay DEF RingInv
  <2>5. CASE ring' = [rx |-> <<>>, in_step |-> FALSE]
    <3>1. ring'.rx = <<>> /\ ring' \in [rx : Seq(FrameT), in_step : BOOLEAN]
      BY <2>5
    <3>2. DOMAIN ring'.rx = {}
      BY <3>1
    <3>. QED BY <2>2, <2>3, <3>1, <3>2, FramesStay DEF RingInv
  <2>. QED BY <1>4, <2>4, <2>5 DEF AfterHandler
<1>. QED BY <1>3, <1>4

\* A handler answers a packet: the answer leaves, or the handler waits with
\* the packet still in the ring.
LEMMA Answering ==
  ASSUME NetworkTypes, RingInv, ring.rx # <<>>, ~Arp(ring.rx[1]), NEW kind \in Kinds,
         NEW left \in FrameT, left = ring.rx[1] \/ left.kind = "echo_reply",
         Answers(kind, ring.rx[1], left), cache' = cache
  PROVE  /\ hosts' \in HostsT /\ HostsKept /\ waits' \in Seq(WaitT)
         /\ ring' \in [rx : Seq(FrameT), in_step : BOOLEAN]
         /\ nested' \in BOOLEAN /\ (nested => nested') /\ RingInv'
<1>. DEFINE f == ring.rx[1]
<1>1. /\ ring.rx \in Seq(FrameT) /\ ring \in [rx : Seq(FrameT), in_step : BOOLEAN]
      /\ waits \in Seq(WaitT) /\ hosts \in HostsT /\ nested \in BOOLEAN
  BY DEF NetworkTypes
<1>2. f \in FrameT /\ 1 \in DOMAIN ring.rx
  <2>. HIDE DEF FrameT
  <2>. QED BY <1>1, TailFacts
<1>3. /\ hosts' \in HostsT /\ HostsKept /\ waits' \in Seq(WaitT)
      /\ NoHandler(waits) /\ arp_lookup(NextHop(f.src)) => NoHandler(waits')
  <2>1. f.src \in Hosts /\ f.port \in Nat
    BY <1>2 DEF FrameT
  <2>2. Polled \in Seq(WaitT) /\ (NoHandler(waits) => NoHandler(Polled))
    BY <1>1, Polling
  <2>3. ip_send(kind, f.src, f.port, Polled, TRUE)
    BY DEF Answers
  <2>. HIDE DEF f
  <2>. QED BY <1>1, <2>1, <2>2, <2>3, Sending
<1>4. CASE arp_lookup(NextHop(f.src))
  <2>1. ring' = Advanced /\ nested' = nested
    BY <1>4 DEF Answers
  <2>2. NoHandler(waits) => NoHandler(waits')
    BY <1>3, <1>4
  <2>. QED BY <1>1, <1>3, <2>1, <2>2, HeadLeaves
<1>5. CASE ~arp_lookup(NextHop(f.src))
  <2>1. ring' = [ring EXCEPT !.rx[1] = left] /\ nested' = TRUE
    BY <1>5 DEF Answers
  <2>2. [ring.rx EXCEPT ![1] = left] \in Seq(FrameT)
    <3>. HIDE DEF FrameT
    <3>. QED BY <1>1, <1>2
  <2>3. ring'.rx = [ring.rx EXCEPT ![1] = left] /\ ring' \in [rx : Seq(FrameT), in_step : BOOLEAN]
    BY <1>1, <2>1, <2>2
  <2>4. \A i \in DOMAIN ring'.rx : ring'.rx[i] = left \/ \E j \in DOMAIN ring.rx : ring'.rx[i] = ring.rx[j]
    BY <1>2, <2>3
  <2>5. Harmless(left) \/ left = ring.rx[1]
    BY <2>1 DEF Harmless
  <2>6. Grows
    BY <1>3, <2>1 DEF HostsKept, Grows
  <2>7. FinsAreSent' /\ RepliesAreAnswers'
    BY <1>2, <2>4, <2>5, <2>6, FramesStay DEF RingInv
  <2>8. Excused
    <3>1. ~Ordered(ring.rx, cache)
      <4>1. DOMAIN ring.rx = 1 .. Len(ring.rx) /\ Len(ring.rx) \in Nat
        BY <1>1, TailFacts
      <4>. QED BY <1>2, <1>5, <4>1 DEF Ordered, arp_lookup
    <3>. QED BY <3>1 DEF RingInv, InTurn
  <2>9. InTurn'
    BY <1>3, <2>8, ExcusedStays
  <2>. QED BY <1>3, <2>1, <2>3, <2>7, <2>9 DEF RingInv
<1>. QED BY <1>4, <1>5

-----------------------------------------------------------------------------
(* The program's steps.                                                    *)

LEMMA ConnStays ==
  ASSUME ConnInv, conn' = conn, active' = active, Connecting' = Connecting,
         hosts.finned \subseteq hosts'.finned
  PROVE  ConnInv'
BY DEF ConnInv, ClosedByPeer, DanglingNeedsFin, NumbersAgree

LEMMA EchoStays == SuccessNeedsAnswer /\ echo' = echo /\ Grows => SuccessNeedsAnswer'
BY DEF SuccessNeedsAnswer, Grows

LEMMA LocalGrows == LocalStep => Grows
BY DEF LocalStep, HostsKept, Grows

\* A call of ip_send by the program itself, which waits for nothing else.
LEMMA ProgramSends ==
  ASSUME NetworkTypes, NEW kind \in Kinds, NEW to \in Hosts, NEW port \in Nat,
         ip_send(kind, to, port, <<>>, FALSE), ring' = ring, cache' = cache, nested' = nested
  PROVE  LocalStep /\ hosts' \in HostsT /\ waits' \in Seq(WaitT)
<1>1. hosts \in HostsT /\ <<>> \in Seq(WaitT) /\ NoHandler(<<>>)
  BY DEF NetworkTypes, NoHandler
<1>2. hosts' \in HostsT /\ HostsKept /\ waits' \in Seq(WaitT) /\ NoHandler(waits')
  BY <1>1, Sending
<1>. QED BY <1>2 DEF LocalStep

LEMMA StepPing ==
  ASSUME IInv, NEW to \in Hosts, ping_ip(to)
  PROVE  IInv'
<1>. USE DEF IInv
<1>1. LocalStep /\ hosts' \in HostsT /\ waits' \in Seq(WaitT)
  <2>1. ip_send("echo_request", to, 0, <<>>, FALSE)
    BY DEF ping_ip, icmp_send_echo_request
  <2>2. ring' = ring /\ cache' = cache /\ nested' = nested
    BY DEF ping_ip
  <2>3. "echo_request" \in Kinds /\ 0 \in Nat
    BY DEF Kinds
  <2>. QED BY <2>1, <2>2, <2>3, ProgramSends, Zenon
<1>2. NetworkTypes'
  <2>1. ping' \in [n : Nat, to : Hosts]
    BY DEF NetworkTypes, ping_ip
  <2>2. echo' \in [received : BOOLEAN, src : Hosts]
    BY DEF NetworkTypes, ping_ip, icmp_send_echo_request
  <2>. QED BY <1>1, <2>1, <2>2 DEF NetworkTypes, ping_ip
<1>3. ConnInv'
  <2>1. Connecting' = Connecting
    BY DEF ping_ip, Connecting
  <2>2. hosts.finned \subseteq hosts'.finned /\ conn' = conn /\ active' = active
    BY <1>1 DEF ping_ip, LocalStep, HostsKept
  <2>. QED BY <2>1, <2>2, ConnStays
<1>4. SuccessNeedsAnswer'
  BY DEF ping_ip, icmp_send_echo_request, SuccessNeedsAnswer, NetworkTypes
<1>. QED BY <1>1, <1>2, <1>3, <1>4, LocalKeeps

LEMMA StepConnect ==
  ASSUME IInv, tcp_connect
  PROVE  IInv'
<1>. USE DEF IInv
<1>1. conn' \in ConnT /\ conn'.remote \in Hosts /\ conn'.port \in Nat /\ conn'.state = "SYN_SENT"
  BY DEF tcp_connect, NextLocalPort, NetworkTypes, ConnT
<1>2. LocalStep /\ hosts' \in HostsT /\ waits' \in Seq(WaitT)
  <2>1. ip_send("syn", conn'.remote, conn'.port, <<>>, FALSE)
    BY DEF tcp_connect, tcp_send_packet
  <2>2. ring' = ring /\ cache' = cache /\ nested' = nested
    BY DEF tcp_connect
  <2>3. "syn" \in Kinds
    BY DEF Kinds
  <2>. QED BY <1>1, <2>1, <2>2, <2>3, ProgramSends, Zenon
<1>3. NetworkTypes'
  BY <1>1, <1>2 DEF NetworkTypes, tcp_connect
<1>4. ConnInv'
  BY <1>1 DEF tcp_connect, ConnInv, ClosedByPeer, NumbersAgree, DanglingNeedsFin, Connecting
<1>5. SuccessNeedsAnswer'
  BY <1>2, EchoStays, LocalGrows DEF tcp_connect
<1>. QED BY <1>2, <1>3, <1>4, <1>5, LocalKeeps

LEMMA StepConnectCheck ==
  ASSUME IInv, ConnectCheck
  PROVE  IInv'
<1>. USE DEF IInv
<1>1. conn.remote \in Hosts /\ conn.port \in Nat
  BY DEF NetworkTypes, ConnT
<1>2. LocalStep /\ hosts' \in HostsT /\ waits' \in Seq(WaitT)
  <2>1. CASE conn.state = "ESTABLISHED"
    <3>1. ip_send("request", conn.remote, conn.port, <<>>, FALSE)
      BY <2>1 DEF ConnectCheck, tcp_send, tcp_send_packet
    <3>2. ring' = ring /\ cache' = cache /\ nested' = nested
      BY DEF ConnectCheck
    <3>3. "request" \in Kinds
      BY DEF Kinds
    <3>. QED BY <1>1, <3>1, <3>2, <3>3, ProgramSends, Zenon
  <2>2. CASE conn.state # "ESTABLISHED"
    BY <2>2 DEF ConnectCheck, LocalStep, HostsKept, NetworkTypes
  <2>. QED BY <2>1, <2>2
<1>3. NetworkTypes'
  BY <1>2 DEF NetworkTypes, ConnectCheck
<1>4. ConnInv'
  <2>1. Connecting /\ Connecting'
    BY DEF ConnectCheck, Connecting
  <2>. QED BY <1>2, <2>1, ConnStays DEF ConnectCheck, LocalStep, HostsKept
<1>5. SuccessNeedsAnswer'
  BY <1>2, EchoStays, LocalGrows DEF ConnectCheck
<1>. QED BY <1>2, <1>3, <1>4, <1>5, LocalKeeps

\* tcp_close of a connection its peer closed leaves it the active one.
LEMMA StepClose ==
  ASSUME IInv, tcp_close
  PROVE  IInv'
<1>. USE DEF IInv
<1>1. conn.remote \in Hosts /\ conn.port \in Nat
  BY DEF NetworkTypes, ConnT
<1>2. LocalStep /\ hosts' \in HostsT /\ waits' \in Seq(WaitT)
  <2>1. CASE conn.state = "CLOSED"
    BY <2>1 DEF tcp_close, LocalStep, HostsKept, NetworkTypes
  <2>2. CASE conn.state # "CLOSED"
    <3>1. ip_send("fin", conn.remote, conn.port, <<>>, FALSE)
      BY <2>2 DEF tcp_close, tcp_send_packet
    <3>2. ring' = ring /\ cache' = cache /\ nested' = nested
      BY DEF tcp_close
    <3>3. "fin" \in Kinds
      BY DEF Kinds
    <3>. QED BY <1>1, <3>1, <3>2, <3>3, ProgramSends, Zenon
  <2>. QED BY <2>1, <2>2
<1>3. NetworkTypes'
  BY <1>2 DEF NetworkTypes, tcp_close
<1>4. ConnInv'
  BY <1>2 DEF tcp_close, LocalStep, HostsKept, ConnInv, ClosedByPeer, NumbersAgree,
              DanglingNeedsFin, Connecting
<1>5. SuccessNeedsAnswer'
  BY <1>2, EchoStays, LocalGrows DEF tcp_close
<1>. QED BY <1>2, <1>3, <1>4, <1>5, LocalKeeps

\* The steps of the program that send nothing.
LEMMA StepProgram ==
  ASSUME IInv, EchoCheck \/ ConnectTimeout \/ RecvCheck \/ RecvTimeout \/ Closed
  PROVE  IInv'
<1>. USE DEF IInv
<1>1. LocalStep
  BY DEF EchoCheck, ConnectTimeout, RecvCheck, RecvTimeout, Closed, LocalStep, HostsKept
<1>2. conn' \in ConnT
  BY DEF EchoCheck, ConnectTimeout, RecvCheck, RecvTimeout, Closed, NetworkTypes, ConnT
<1>3. NetworkTypes'
  BY <1>2 DEF EchoCheck, ConnectTimeout, RecvCheck, RecvTimeout, Closed, NetworkTypes
<1>4. ConnInv'
  <2>1. CASE EchoCheck
    BY <2>1, ConnStays DEF EchoCheck, Connecting
  <2>2. CASE ConnectTimeout \/ Closed
    BY <2>2 DEF ConnectTimeout, Closed, ConnInv, ClosedByPeer, NumbersAgree, DanglingNeedsFin,
                Connecting, NetworkTypes, ConnT
  <2>3. CASE RecvTimeout
    BY <2>3, ConnStays DEF RecvTimeout, Connecting
  <2>4. CASE RecvCheck
    BY <2>4 DEF RecvCheck, ConnInv, ClosedByPeer, NumbersAgree, DanglingNeedsFin,
                Connecting, NetworkTypes, ConnT
  <2>. QED BY <2>1, <2>2, <2>3, <2>4
<1>5. SuccessNeedsAnswer'
  <2>1. echo' = echo
    BY DEF EchoCheck, ConnectTimeout, RecvCheck, RecvTimeout, Closed
  <2>. QED BY <1>1, <2>1, EchoStays, LocalGrows
<1>. QED BY <1>1, <1>3, <1>4, <1>5, LocalKeeps

-----------------------------------------------------------------------------
(* The waits for ARP.                                                      *)

LEMMA StepResolved ==
  ASSUME IInv, Resolved
  PROVE  IInv'
<1>. USE DEF IInv
<1>1. waits \in Seq(WaitT) /\ hosts \in HostsT
  BY DEF NetworkTypes
<1>2. Waiting \in WaitT /\ Outer \in Seq(WaitT)
  BY <1>1, Innermost DEF Resolved
<1>3. hosts' \in HostsT /\ HostsKept
  <2>1. Waiting.to \in Hosts /\ Waiting.port \in Nat
    BY <1>2 DEF WaitT
  <2>. QED BY <1>1, <2>1, Transmits DEF Resolved
<1>4. ring' \in [rx : Seq(FrameT), in_step : BOOLEAN] /\ RingInv'
  BY <1>3, Returns DEF Resolved
<1>5. NetworkTypes'
  BY <1>2, <1>3, <1>4 DEF NetworkTypes, Resolved
<1>6. ConnInv' /\ SuccessNeedsAnswer'
  <2>1. Grows
    BY <1>3 DEF HostsKept, Grows, Resolved
  <2>. QED BY <2>1, ConnStays, EchoStays DEF Resolved, Connecting, Grows
<1>. QED BY <1>4, <1>5, <1>6

LEMMA StepUnresolved ==
  ASSUME IInv, Unresolved
  PROVE  IInv'
<1>. USE DEF IInv
<1>1. waits \in Seq(WaitT) /\ hosts \in HostsT /\ ring \in [rx : Seq(FrameT), in_step : BOOLEAN]
  BY DEF NetworkTypes
<1>2. Waiting \in WaitT /\ Outer \in Seq(WaitT)
  BY <1>1, Innermost DEF Unresolved
<1>3. /\ hosts' \in HostsT /\ HostsKept /\ waits' \in Seq(WaitT)
      /\ ring' \in [rx : Seq(FrameT), in_step : BOOLEAN] /\ RingInv'
  <2>1. CASE Waiting.tries > 1
    <3>. DEFINE w == [Waiting EXCEPT !.tries = @ - 1, !.polled = FALSE]
    <3>1. w \in WaitT /\ w.handler = Waiting.handler
      <4>. HIDE DEF IInv
      <4>1. Waiting.tries - 1 \in Int
        BY <1>2 DEF WaitT
      <4>. QED BY <1>2, <4>1 DEF WaitT
    <3>2. waits' = Append(Outer, w) /\ ring' = ring
      BY <2>1 DEF Unresolved
    <3>. HIDE DEF w
    <3>3. waits' \in Seq(WaitT) /\ (NoHandler(waits) => NoHandler(waits'))
      BY <1>1, <3>1, <3>2, Rewait DEF Unresolved
    <3>4. hosts' \in HostsT /\ HostsKept
      <4>1. NextHop(Waiting.to) \in Hosts
        BY <1>2, NextHopIsAHost DEF WaitT
      <4>. QED BY <1>1, <2>1, <4>1, Requests DEF Unresolved
    <3>5. LocalStep
      BY <3>2, <3>3, <3>4 DEF LocalStep, Unresolved
    <3>. QED BY <1>1, <3>2, <3>3, <3>4, <3>5, LocalKeeps
  <2>2. CASE ~(Waiting.tries > 1)
    <3>1. waits' = Outer /\ AfterHandler /\ hosts' = hosts
      BY <2>2 DEF Unresolved
    <3>2. HostsKept
      BY <3>1 DEF HostsKept
    <3>. QED BY <1>1, <1>2, <3>1, <3>2, Returns DEF Unresolved
  <2>. QED BY <2>1, <2>2
<1>4. NetworkTypes'
  BY <1>3 DEF NetworkTypes, Unresolved
<1>5. ConnInv' /\ SuccessNeedsAnswer'
  <2>1. Grows
    BY <1>3 DEF HostsKept, Grows, Unresolved
  <2>. QED BY <2>1, ConnStays, EchoStays DEF Unresolved, Connecting, Grows
<1>. QED BY <1>3, <1>4, <1>5

-----------------------------------------------------------------------------
(* A poll, by the frame it finds.                                          *)

\* What a poll leaves alone.
PollFrame ==
  /\ ping' = ping /\ active' = active /\ Connecting' = Connecting

LEMMA Polls ==
  ASSUME rtl8139_poll_receive
  PROVE  PollFrame
<1>1. CASE waits # <<>>
  BY <1>1 DEF rtl8139_poll_receive, PollFrame, Connecting
<1>2. CASE waits = <<>> /\ pc = "echo"
  BY <1>2 DEF rtl8139_poll_receive, PollFrame, Connecting
<1>3. CASE waits = <<>> /\ pc = "connect"
  BY <1>3 DEF rtl8139_poll_receive, PollFrame, Connecting
<1>4. CASE waits = <<>> /\ pc = "recv"
  BY <1>4 DEF rtl8139_poll_receive, PollFrame, Connecting
<1>. QED BY <1>1, <1>2, <1>3, <1>4 DEF rtl8139_poll_receive

LEMMA HeadIsAFrame ==
  ASSUME NetworkTypes, ring.rx # <<>>
  PROVE  ring.rx[1] \in FrameT /\ 1 \in DOMAIN ring.rx
<1>. HIDE DEF FrameT
<1>1. ring.rx \in Seq(FrameT)
  BY DEF NetworkTypes
<1>2. /\ ring.rx[1] \in FrameT /\ Len(ring.rx) \in Nat \ {0}
      /\ DOMAIN ring.rx = 1 .. Len(ring.rx)
  BY <1>1, TailFacts
<1>. QED BY <1>2

\* Nothing in the ring.
LEMMA PollNothing ==
  ASSUME IInv, PollFrame, waits' = Polled, UNCHANGED <<cache, echo, conn, ring, hosts, nested>>
  PROVE  IInv'
<1>. USE DEF IInv
<1>1. waits' \in Seq(WaitT) /\ (NoHandler(waits) => NoHandler(waits'))
  BY Polling DEF NetworkTypes
<1>2. LocalStep
  BY <1>1 DEF LocalStep, HostsKept
<1>3. NetworkTypes'
  BY <1>1 DEF NetworkTypes, PollFrame
<1>4. ConnInv'
  BY ConnStays DEF PollFrame
<1>5. SuccessNeedsAnswer'
  BY DEF SuccessNeedsAnswer
<1>. QED BY <1>2, <1>3, <1>4, <1>5, LocalKeeps

\* The handlers of a packet that change neither cache nor what is sent.
LEMMA PollIgnored ==
  ASSUME IInv, PollFrame, ring.rx # <<>>, ~Arp(ring.rx[1]), Ignored, cache' = cache, conn' = conn,
         echo' \in [received : BOOLEAN, src : Hosts], SuccessNeedsAnswer'
  PROVE  IInv'
<1>. USE DEF IInv
<1>1. waits' \in Seq(WaitT) /\ (NoHandler(waits) => NoHandler(waits'))
  BY Polling DEF NetworkTypes, Ignored
<1>2. HostsKept /\ hosts' = hosts /\ nested' = nested /\ ring' = Advanced
  BY DEF Ignored, HostsKept
<1>3. ring' \in [rx : Seq(FrameT), in_step : BOOLEAN] /\ RingInv'
  BY <1>1, <1>2, HeadLeaves
<1>4. NetworkTypes'
  BY <1>1, <1>2, <1>3 DEF NetworkTypes, PollFrame
<1>5. ConnInv'
  BY <1>2, ConnStays DEF PollFrame
<1>. QED BY <1>3, <1>4, <1>5

LEMMA PollIcmp ==
  ASSUME IInv, PollFrame, ring.rx # <<>>, ring.rx[1].kind \in {"echo_request", "echo_reply"},
         icmp_receive(ring.rx[1])
  PROVE  IInv'
<1>. USE DEF IInv
<1>. DEFINE f == ring.rx[1]
<1>1. f \in FrameT /\ 1 \in DOMAIN ring.rx
  BY HeadIsAFrame
<1>0. ~Arp(f)
  BY DEF Arp
<1>2. CASE f.kind = "echo_request"
  <2>. DEFINE left == [f EXCEPT !.kind = "echo_reply"]
  <2>1. left \in FrameT /\ left.kind = "echo_reply" /\ "echo_reply" \in Kinds
    BY <1>1 DEF FrameT, Kinds
  <2>2. Answers("echo_reply", f, left) /\ echo' = echo /\ cache' = cache /\ conn' = conn
    BY <1>2 DEF icmp_receive
  <2>. HIDE DEF left
  <2>3. /\ hosts' \in HostsT /\ HostsKept /\ waits' \in Seq(WaitT)
        /\ ring' \in [rx : Seq(FrameT), in_step : BOOLEAN]
        /\ nested' \in BOOLEAN /\ (nested => nested') /\ RingInv'
    BY <1>0, <1>1, <2>1, <2>2, Answering
  <2>4. NetworkTypes'
    BY <2>2, <2>3 DEF NetworkTypes, PollFrame
  <2>5. ConnInv' /\ SuccessNeedsAnswer'
    <3>1. Grows
      BY <2>3 DEF HostsKept, Grows
    <3>. QED BY <2>2, <3>1, ConnStays, EchoStays DEF PollFrame, Grows
  <2>. QED BY <2>3, <2>4, <2>5
<1>3. CASE f.kind = "echo_reply"
  <2>1. Ignored /\ echo' = [received |-> TRUE, src |-> f.src] /\ cache' = cache /\ conn' = conn
    BY <1>3 DEF icmp_receive
  <2>2. echo' \in [received : BOOLEAN, src : Hosts]
    BY <1>1, <2>1 DEF FrameT
  <2>3. SuccessNeedsAnswer'
    BY <1>1, <1>3, <2>1 DEF RingInv, RepliesAreAnswers, SuccessNeedsAnswer, Ignored
  <2>. QED BY <1>0, <1>1, <2>1, <2>2, <2>3, PollIgnored
<1>. QED BY <1>2, <1>3

\* The sender of an ARP frame enters the cache before the frame leaves the ring.
LEMMA PollArp ==
  ASSUME IInv, PollFrame, ring.rx # <<>>, Arp(ring.rx[1]), arp_receive(ring.rx[1])
  PROVE  IInv'
<1>. USE DEF IInv
<1>. DEFINE f == ring.rx[1]
<1>1. f \in FrameT /\ 1 \in DOMAIN ring.rx
  BY HeadIsAFrame
<1>2. /\ ring.rx \in Seq(FrameT) /\ ring \in [rx : Seq(FrameT), in_step : BOOLEAN]
      /\ waits \in Seq(WaitT) /\ hosts \in HostsT
  BY DEF NetworkTypes
<1>3. f.src \in Hosts
  BY <1>1 DEF FrameT
<1>4. /\ cache' = Remembered(f.src) /\ ring' = Advanced /\ waits' = Polled
      /\ echo' = echo /\ conn' = conn /\ nested' = nested
  BY DEF arp_receive
<1>5. /\ cache' \subseteq Hosts /\ IsFiniteSet(cache') /\ Cardinality(cache') <= ARP_CACHE_SIZE
      /\ cache \subseteq cache'
      /\ Cardinality(cache) = ARP_CACHE_SIZE => cache' = cache
      /\ Cardinality(cache) # ARP_CACHE_SIZE => f.src \in cache'
  BY <1>3, <1>4, Remembering
<1>6. /\ hosts' \in HostsT /\ \A h \in hosts'.knows : h \in hosts.knows \/ h = f.src
      /\ hosts'.early = hosts.early /\ hosts'.answered = hosts.answered
      /\ hosts'.finned = hosts.finned /\ hosts'.arp_lost = hosts.arp_lost
  <2>1. CASE hosts' = [hosts EXCEPT !.knows = @ \union {f.src}]
    BY <1>2, <1>3, <2>1 DEF HostsT
  <2>2. CASE hosts' = hosts
    BY <1>2, <2>2
  <2>. QED BY <2>1, <2>2 DEF arp_receive, AnswersArp
<1>7. waits' \in Seq(WaitT) /\ (NoHandler(waits) => NoHandler(waits'))
  BY <1>2, <1>4, Polling
<1>8. Tail(ring.rx) \in Seq(FrameT)
      /\ \A i \in DOMAIN Tail(ring.rx) : \E j \in DOMAIN ring.rx : Tail(ring.rx)[i] = ring.rx[j]
  <2>. HIDE DEF FrameT
  <2>. QED BY <1>2, TailFacts
<1>9. ring'.rx = Tail(ring.rx) /\ ring'.in_step = ring.in_step
      /\ ring' \in [rx : Seq(FrameT), in_step : BOOLEAN]
  BY <1>2, <1>4, <1>8 DEF Advanced
<1>10. FinsAreSent' /\ RepliesAreAnswers'
  <2>1. Grows
    BY <1>4, <1>6 DEF Grows
  <2>. QED BY <1>8, <1>9, <2>1, FramesStay DEF RingInv
<1>11. InTurn'
  <2>1. CASE Excused
    BY <1>5, <1>6, <2>1 DEF Excused, InTurn
  <2>2. CASE ~Excused
    <3>1. Announced(ring.rx, cache, hosts.knows) /\ Ordered(ring.rx, cache) /\ NoHandlerWaits
      BY <2>2 DEF RingInv, InTurn
    <3>2. f.src \in cache'
      BY <1>5, <2>2 DEF Excused
    <3>3. Announced(Tail(ring.rx), cache', hosts'.knows)
      BY <1>2, <1>5, <1>6, <3>1, <3>2, TailAnnounced
    <3>4. Ordered(Tail(ring.rx), cache')
      BY <1>2, <1>5, <3>1, <3>2, TailOrdered
    <3>5. Announced(ring.rx, cache, hosts.knows)'
      BY <1>9, <3>3 DEF Announced, ComesFrom
    <3>6. Ordered(ring.rx, cache)'
      BY <1>9, <3>4 DEF Ordered, ComesFrom
    <3>7. NoHandlerWaits'
      BY <1>4, <1>7, <1>9, <3>1 DEF NoHandlerWaits, NoHandler
    <3>. QED BY <3>5, <3>6, <3>7 DEF InTurn
  <2>. QED BY <2>1, <2>2
<1>12. NetworkTypes'
  BY <1>4, <1>5, <1>6, <1>7, <1>9 DEF NetworkTypes, PollFrame
<1>13. ConnInv' /\ SuccessNeedsAnswer'
  <2>1. Grows
    BY <1>4, <1>6 DEF Grows
  <2>. QED BY <1>4, <2>1, ConnStays, EchoStays DEF PollFrame, Grows
<1>. QED BY <1>10, <1>11, <1>12, <1>13 DEF RingInv

\* A FIN in the ring was sent by the peer of the connection it closes.
LEMMA PollTcp ==
  ASSUME IInv, PollFrame, ring.rx # <<>>, ring.rx[1].kind \in {"syn_ack", "data", "fin"},
         tcp_receive(ring.rx[1])
  PROVE  IInv'
<1>. USE DEF IInv
<1>. DEFINE f == ring.rx[1]
<1>1. f \in FrameT /\ 1 \in DOMAIN ring.rx
  BY HeadIsAFrame
<1>2. ~Arp(f)
  BY DEF Arp
<1>3. CASE ForConnection(f) /\ Expected(f)
  <2>1. conn' = Segment(f) /\ Answers("ack", f, f) /\ echo' = echo /\ cache' = cache
    BY <1>3 DEF tcp_receive
  <2>2. "ack" \in Kinds
    BY DEF Kinds
  <2>3. /\ hosts' \in HostsT /\ HostsKept /\ waits' \in Seq(WaitT)
        /\ ring' \in [rx : Seq(FrameT), in_step : BOOLEAN]
        /\ nested' \in BOOLEAN /\ (nested => nested') /\ RingInv'
    BY <1>1, <1>2, <2>1, <2>2, Answering
  <2>4. /\ conn \in ConnT /\ f.port \in Nat /\ f.port = conn.port
        /\ f.kind = "fin" => f.port \in hosts.finned
    BY <1>1, <1>3 DEF NetworkTypes, FrameT, ForConnection, RingInv, FinsAreSent
  <2>5. /\ conn' \in ConnT /\ conn'.port = conn.port /\ conn'.agreed = conn.port
        /\ conn'.state = "CLOSED" => f.kind = "fin"
    <3>1. CASE conn.state = "SYN_SENT" /\ f.kind = "syn_ack"
      <4>1. conn' = [conn EXCEPT !.state = "ESTABLISHED", !.agreed = f.port]
        BY <2>1, <3>1 DEF Segment
      <4>. QED BY <2>4, <4>1 DEF ConnT
    <3>2. CASE conn.state = "ESTABLISHED" /\ f.kind = "data"
      <4>1. conn' = [conn EXCEPT !.data_ready = TRUE, !.agreed = f.port]
        BY <2>1, <3>2 DEF Segment
      <4>. QED BY <2>4, <3>2, <4>1 DEF ConnT
    <3>3. CASE conn.state = "ESTABLISHED" /\ f.kind = "fin"
      <4>1. conn' = [conn EXCEPT !.state = "CLOSED", !.agreed = f.port]
        BY <2>1, <3>3 DEF Segment
      <4>. QED BY <2>4, <3>3, <4>1 DEF ConnT
    <3>. QED BY <1>3, <3>1, <3>2, <3>3 DEF Expected
  <2>6. NetworkTypes'
    BY <2>1, <2>3, <2>5 DEF NetworkTypes, PollFrame
  <2>7. ConnInv'
    <3>1. Connecting /\ Connecting' = Connecting /\ hosts'.finned = hosts.finned
      BY <1>3, <2>3 DEF ForConnection, PollFrame, HostsKept
    <3>. QED BY <2>4, <2>5, <3>1 DEF ConnInv, ClosedByPeer, DanglingNeedsFin, NumbersAgree
  <2>8. SuccessNeedsAnswer'
    BY <2>1, <2>3, EchoStays DEF HostsKept, Grows
  <2>. QED BY <2>3, <2>6, <2>7, <2>8
<1>4. CASE ~(ForConnection(f) /\ Expected(f))
  <2>1. Ignored /\ conn' = conn /\ echo' = echo /\ cache' = cache
    BY <1>4 DEF tcp_receive
  <2>2. echo' \in [received : BOOLEAN, src : Hosts] /\ SuccessNeedsAnswer'
    BY <2>1 DEF NetworkTypes, SuccessNeedsAnswer, Ignored
  <2>. QED BY <1>2, <2>1, <2>2, PollIgnored
<1>. QED BY <1>3, <1>4

LEMMA StepPoll ==
  ASSUME IInv, rtl8139_poll_receive
  PROVE  IInv'
<1>1. PollFrame
  BY Polls
<1>2. CASE ring.rx = <<>>
  BY <1>1, <1>2, PollNothing DEF rtl8139_poll_receive
<1>3. CASE ring.rx # <<>> /\ Arp(ring.rx[1])
  BY <1>1, <1>3, PollArp DEF rtl8139_poll_receive, ethernet_receive, Arp
<1>4. CASE ring.rx # <<>> /\ ~Arp(ring.rx[1])
  <2>1. ip_receive(ring.rx[1])
    BY <1>4 DEF rtl8139_poll_receive, ethernet_receive, Arp
  <2>. QED BY <1>1, <1>4, <2>1, PollIcmp, PollTcp DEF ip_receive
<1>. QED BY <1>2, <1>3, <1>4

-----------------------------------------------------------------------------
(* The hosts' steps.                                                       *)

\* A frame that its sender may send, and what the sender knows and did then.
LEMMA HostSending ==
  ASSUME IInv, NEW f \in FrameT, NEW h \in HostsT, HostSends(f, h),
         h.early = hosts.early, h.arp_lost = hosts.arp_lost, h.sent = hosts.sent,
         hosts.answered \subseteq h.answered, hosts.finned \subseteq h.finned,
         \A s \in h.knows : s \in hosts.knows \/ (Arp(f) /\ f.src = s),
         Arp(f) \/ NextHop(f.src) \in hosts.knows,
         f.kind = "fin" => f.port \in h.finned,
         f.kind = "echo_reply" => f.src \in h.answered
  PROVE  IInv'
<1>. USE DEF IInv
<1>1. /\ ring.rx \in Seq(FrameT) /\ ring \in [rx : Seq(FrameT), in_step : BOOLEAN]
      /\ h.sent + 1 \in Nat
  BY DEF NetworkTypes, HostsT
<1>2. UNCHANGED <<pc, ping, waits, cache, echo, conn, active, nested>> /\ ring.in_step
  BY DEF HostSends
<1>3. CASE /\ ring' = [ring EXCEPT !.rx = Append(@, f)]
           /\ hosts' = [h EXCEPT !.sent = @ + 1]
  <2>1. /\ Append(ring.rx, f) \in Seq(FrameT) /\ DOMAIN ring.rx = 1 .. Len(ring.rx)
        /\ DOMAIN Append(ring.rx, f) = 1 .. Len(ring.rx) + 1 /\ Len(ring.rx) \in Nat
        /\ \A i \in DOMAIN ring.rx : Append(ring.rx, f)[i] = ring.rx[i]
        /\ Append(ring.rx, f)[Len(ring.rx) + 1] = f
    <3>. HIDE DEF FrameT
    <3>. QED BY <1>1, AppendFacts
  <2>2. /\ ring'.rx = Append(ring.rx, f) /\ ring'.in_step = ring.in_step
        /\ ring' \in [rx : Seq(FrameT), in_step : BOOLEAN]
    BY <1>1, <1>3, <2>1
  <2>3. /\ hosts' \in HostsT /\ hosts'.early = hosts.early /\ hosts'.arp_lost = hosts.arp_lost
        /\ hosts'.knows = h.knows /\ hosts'.answered = h.answered /\ hosts'.finned = h.finned
    BY <1>1, <1>3 DEF HostsT
  <2>4. Grows
    BY <1>2, <2>3 DEF Grows
  <2>5. FinsAreSent' /\ RepliesAreAnswers'
    <3>1. Harmless(f)
      BY <2>3 DEF Harmless
    <3>2. \A i \in DOMAIN ring'.rx : ring'.rx[i] = f \/ \E j \in DOMAIN ring.rx : ring'.rx[i] = ring.rx[j]
      <4>. HIDE DEF FrameT
      <4>1. \A i \in 1 .. Len(ring.rx) + 1 : i = Len(ring.rx) + 1 \/ i \in 1 .. Len(ring.rx)
        BY <2>1
      <4>. QED BY <2>1, <2>2, <4>1
    <3>. QED BY <2>4, <3>1, <3>2, FramesStay DEF RingInv
  <2>6. InTurn'
    <3>1. CASE Excused
      BY <1>2, <2>3, <3>1 DEF Excused, InTurn
    <3>2. CASE ~Excused
      <4>1. Announced(ring.rx, cache, hosts.knows) /\ Ordered(ring.rx, cache) /\ NoHandlerWaits
        BY <3>2 DEF RingInv, InTurn
      <4>2. Announced(Append(ring.rx, f), cache, h.knows)
        BY <1>1, <4>1, AppendAnnounced
      <4>3. Ordered(Append(ring.rx, f), cache)
        BY <1>1, <4>1, AppendOrdered
      <4>4. Announced(ring.rx, cache, hosts.knows)'
        BY <1>2, <2>2, <2>3, <4>2 DEF Announced, ComesFrom
      <4>5. Ordered(ring.rx, cache)'
        BY <1>2, <2>2, <4>3 DEF Ordered, ComesFrom
      <4>6. NoHandlerWaits'
        BY <1>2, <2>2, <4>1 DEF NoHandlerWaits
      <4>. QED BY <4>4, <4>5, <4>6 DEF InTurn
    <3>. QED BY <3>1, <3>2
  <2>7. NetworkTypes'
    BY <1>2, <2>2, <2>3 DEF NetworkTypes
  <2>8. ConnInv' /\ SuccessNeedsAnswer'
    BY <1>2, <2>4, ConnStays, EchoStays DEF Connecting, Grows
  <2>. QED BY <2>5, <2>6, <2>7, <2>8 DEF RingInv
<1>4. CASE /\ ring' = ring
           /\ hosts' = [h EXCEPT !.sent = @ + 1,
                                 !.arp_lost = @ \/ f.kind \in {"arp_request", "arp_reply"}]
  <2>1. /\ hosts' \in HostsT /\ hosts'.early = hosts.early
        /\ hosts'.knows = h.knows /\ hosts'.answered = h.answered /\ hosts'.finned = h.finned
    BY <1>1, <1>4 DEF HostsT
  <2>2. /\ hosts.arp_lost => hosts'.arp_lost
        /\ Arp(f) => hosts'.arp_lost
    BY <1>4 DEF HostsT, Arp
  <2>3. Grows
    BY <1>2, <2>1 DEF Grows
  <2>4. FinsAreSent' /\ RepliesAreAnswers'
    BY <1>4, <2>3, FramesStay DEF RingInv
  <2>5. InTurn'
    <3>1. CASE Excused \/ Arp(f)
      BY <1>2, <2>1, <2>2, <3>1 DEF Excused, InTurn
    <3>2. CASE ~Excused /\ ~Arp(f)
      <4>1. Announced(ring.rx, cache, hosts.knows) /\ Ordered(ring.rx, cache) /\ NoHandlerWaits
        BY <3>2 DEF RingInv, InTurn
      <4>. QED BY <1>2, <1>4, <2>1, <3>2, <4>1 DEF InTurn, Announced, Ordered, ComesFrom, NoHandlerWaits
    <3>. QED BY <3>1, <3>2
  <2>6. NetworkTypes'
    BY <1>2, <1>4, <2>1 DEF NetworkTypes
  <2>7. ConnInv' /\ SuccessNeedsAnswer'
    BY <1>2, <2>3, ConnStays, EchoStays DEF Connecting, Grows
  <2>. QED BY <2>4, <2>5, <2>6, <2>7 DEF RingInv
<1>. QED BY <1>3, <1>4 DEF HostSends

LEMMA Frames ==
  ASSUME NEW kind \in Kinds, NEW s \in Hosts, NEW port \in Nat
  PROVE  /\ Frame(kind, s, port) \in FrameT
         /\ Frame(kind, s, port).kind = kind /\ Frame(kind, s, port).src = s
         /\ Frame(kind, s, port).port = port
BY DEF Frame, FrameT

LEMMA StepHost ==
  ASSUME IInv, NEW s \in Hosts,
         (s \in Links /\ (HostAsks(s) \/ HostAnswersArp(s))) \/ HostPings(s) \/ HostAnswersPing(s)
  PROVE  IInv'
<1>1. hosts \in HostsT /\ 0 \in Nat
  BY DEF IInv, NetworkTypes
<1>2. {"arp_request", "arp_reply", "echo_request", "echo_reply"} \subseteq Kinds
  BY DEF Kinds
<1>3. CASE HostAsks(s)
  <2>. DEFINE f == Frame("arp_request", s, 0)
  <2>1. f \in FrameT /\ f.kind = "arp_request" /\ f.src = s
    BY <1>1, <1>2, Frames
  <2>2. HostSends(f, hosts)
    BY <1>3 DEF HostAsks
  <2>. HIDE DEF f
  <2>. QED BY <1>1, <2>1, <2>2, HostSending DEF Arp
<1>4. CASE HostAnswersArp(s)
  <2>. DEFINE f == Frame("arp_reply", s, 0)
  <2>. DEFINE h == [hosts EXCEPT !.asked = @ \ {s}, !.knows = @ \union {s}]
  <2>1. f \in FrameT /\ f.kind = "arp_reply" /\ f.src = s
    BY <1>1, <1>2, Frames
  <2>2. HostSends(f, h)
    BY <1>4 DEF HostAnswersArp
  <2>3. /\ h \in HostsT /\ h.early = hosts.early /\ h.arp_lost = hosts.arp_lost
        /\ h.sent = hosts.sent /\ h.answered = hosts.answered /\ h.finned = hosts.finned
        /\ h.knows = hosts.knows \union {s}
    BY <1>1 DEF HostsT
  <2>. HIDE DEF f, h
  <2>. QED BY <2>1, <2>2, <2>3, HostSending DEF Arp
<1>5. CASE HostPings(s)
  <2>. DEFINE f == Frame("echo_request", s, 0)
  <2>1. f \in FrameT /\ f.kind = "echo_request" /\ f.src = s
    BY <1>1, <1>2, Frames
  <2>2. HostSends(f, hosts) /\ NextHop(s) \in hosts.knows
    BY <1>5 DEF HostPings
  <2>. HIDE DEF f
  <2>. QED BY <1>1, <2>1, <2>2, HostSending
<1>6. CASE HostAnswersPing(s)
  <2>. DEFINE f == Frame("echo_reply", s, 0)
  <2>. DEFINE h == [hosts EXCEPT !.answered = @ \union {s}]
  <2>1. f \in FrameT /\ f.kind = "echo_reply" /\ f.src = s
    BY <1>1, <1>2, Frames
  <2>2. HostSends(f, h) /\ NextHop(s) \in hosts.knows
    BY <1>6 DEF HostAnswersPing
  <2>3. /\ h \in HostsT /\ h.early = hosts.early /\ h.arp_lost = hosts.arp_lost
        /\ h.sent = hosts.sent /\ h.answered = hosts.answered \union {s}
        /\ h.finned = hosts.finned /\ h.knows = hosts.knows
    BY <1>1 DEF HostsT
  <2>. HIDE DEF f, h
  <2>. QED BY <2>1, <2>2, <2>3, HostSending
<1>. QED BY <1>3, <1>4, <1>5, <1>6

LEMMA StepServer ==
  ASSUME IInv, NEW syn \in hosts.syns, ServerAnswers(syn)
  PROVE  IInv'
<1>1. hosts \in HostsT /\ syn.to \in Hosts /\ syn.port \in Nat /\ NextHop(syn.to) \in hosts.knows
  BY DEF IInv, NetworkTypes, HostsT, ServerAnswers
<1>2. {"syn_ack", "data", "fin"} \subseteq Kinds
  BY DEF Kinds
<1>3. ASSUME NEW kind \in {"syn_ack", "data"}, HostSends(Frame(kind, syn.to, syn.port), hosts)
      PROVE  IInv'
  <2>. DEFINE f == Frame(kind, syn.to, syn.port)
  <2>1. f \in FrameT /\ f.kind = kind /\ f.src = syn.to
    BY <1>1, <1>2, Frames
  <2>2. HostSends(f, hosts)
    BY <1>3
  <2>. HIDE DEF f
  <2>. QED BY <1>1, <2>1, <2>2, HostSending
<1>4. CASE HostSends(Frame("fin", syn.to, syn.port), [hosts EXCEPT !.finned = @ \union {syn.port}])
  <2>. DEFINE f == Frame("fin", syn.to, syn.port)
  <2>. DEFINE h == [hosts EXCEPT !.finned = @ \union {syn.port}]
  <2>1. f \in FrameT /\ f.kind = "fin" /\ f.src = syn.to /\ f.port = syn.port
    BY <1>1, <1>2, Frames
  <2>2. HostSends(f, h)
    BY <1>4
  <2>3. /\ h \in HostsT /\ h.early = hosts.early /\ h.arp_lost = hosts.arp_lost
        /\ h.sent = hosts.sent /\ h.answered = hosts.answered
        /\ h.finned = hosts.finned \union {syn.port} /\ h.knows = hosts.knows
    BY <1>1 DEF HostsT
  <2>. HIDE DEF f, h
  <2>. QED BY <1>1, <2>1, <2>2, <2>3, HostSending
<1>. QED BY <1>3, <1>4 DEF ServerAnswers

-----------------------------------------------------------------------------

LEMMA InitHolds == Init => IInv
<1>. SUFFICES ASSUME Init PROVE IInv
  OBVIOUS
<1>1. Gateway \in Hosts /\ Gateway \in Links /\ ARP_CACHE_SIZE \in Nat
  BY NetworkAssumption DEF Hosts
<1>2. ring.rx = <<>> /\ waits = <<>> /\ cache = {} /\ ring.in_step /\ nested = FALSE
  BY DEF Init
<1>3. hosts \in HostsT /\ hosts.knows = hosts.early
  BY DEF Init, HostsT, Hosts
<1>4. NetworkTypes
  <2>1. IsFiniteSet(cache) /\ Cardinality(cache) <= ARP_CACHE_SIZE
    BY <1>1, <1>2, FS_EmptySet
  <2>2. conn \in ConnT
    BY <1>1 DEF Init, ConnT
  <2>3. waits \in Seq(WaitT) /\ ring \in [rx : Seq(FrameT), in_step : BOOLEAN]
    <3>. HIDE DEF WaitT, FrameT
    <3>. QED BY DEF Init
  <2>. QED BY <1>1, <1>3, <2>1, <2>2, <2>3 DEF Init, NetworkTypes
<1>5. RingInv
  BY <1>2, <1>3 DEF RingInv, FinsAreSent, RepliesAreAnswers, InTurn, Excused, Announced, Ordered,
                    NoHandlerWaits
<1>6. ConnInv /\ SuccessNeedsAnswer
  BY DEF Init, ConnInv, ClosedByPeer, NumbersAgree, DanglingNeedsFin, Connecting,
         SuccessNeedsAnswer
<1>. QED BY <1>4, <1>5, <1>6 DEF IInv

LEMMA StepsKeep == IInv /\ [Next]_vars => IInv'
<1>. SUFFICES ASSUME IInv, [Next]_vars PROVE IInv'
  OBVIOUS
<1>1. CASE \E to \in Hosts : ping_ip(to)
  BY <1>1, StepPing
<1>2. CASE rtl8139_poll_receive \/ Resolved \/ Unresolved
  BY <1>2, StepPoll, StepResolved, StepUnresolved
<1>3. CASE EchoCheck \/ ConnectTimeout \/ RecvCheck \/ RecvTimeout \/ Closed
  BY <1>3, StepProgram
<1>4. CASE tcp_connect \/ ConnectCheck \/ tcp_close
  BY <1>4, StepConnect, StepConnectCheck, StepClose
<1>5. CASE \E s \in Links : HostAsks(s) \/ HostAnswersArp(s)
  BY <1>5, StepHost DEF Hosts
<1>6. CASE \E s \in Hosts : HostPings(s) \/ HostAnswersPing(s)
  BY <1>6, StepHost
<1>7. CASE \E syn \in hosts.syns : ServerAnswers(syn)
  BY <1>7, StepServer
<1>8. CASE UNCHANGED vars
  BY <1>8 DEF vars, IInv, NetworkTypes, RingInv, FinsAreSent, RepliesAreAnswers, InTurn, Excused,
              Announced, Ordered, ComesFrom, NoHandlerWaits, ConnInv, ClosedByPeer, NumbersAgree,
              DanglingNeedsFin, Connecting, SuccessNeedsAnswer
<1>. QED BY <1>1, <1>2, <1>3, <1>4, <1>5, <1>6, <1>7, <1>8 DEF Next

\* The strengthened invariant of the whole stack: frames and replies in the
\* ring stand for what their senders did, and an ARP frame of whoever can
\* deliver a packet comes before it.
THEOREM NetworkInvariant == Spec => []IInv
BY InitHolds, StepsKeep, PTL DEF Spec

\* rtl8139_poll_receive calls a handler that waits in ip_send, and goes on
\* with rx_offset out of step, only after an ARP frame was lost, with a full
\* cache, or with a host that knew this one: for every cache and ring size.
THEOREM HandlersWaitOnlyAfterLoss == Spec => []HandlerWaitsOnlyAfterLoss
<1>1. IInv => HandlerWaitsOnlyAfterLoss
  BY DEF IInv, RingInv, InTurn, Excused, NoHandlerWaits, HandlerWaitsOnlyAfterLoss
<1>. QED BY <1>1, NetworkInvariant, PTL

\* icmp_receive sets echo_state for an answer of a host that was pinged,
\* unless a handler waited and the rewritten request was read again.
THEOREM SuccessAlwaysNeedsAnswer == Spec => []SuccessNeedsAnswer
<1>1. IInv => SuccessNeedsAnswer
  BY DEF IInv
<1>. QED BY <1>1, NetworkInvariant, PTL

\* tcp_receive takes the numbers of a connection from a segment of its own
\* port, whatever the servers send for the ports of earlier attempts.
THEOREM ConnectionsAlwaysAgree == Spec => []ConnectionAgrees
<1>1. IInv => ConnectionAgrees
  BY DEF IInv, ConnInv, NumbersAgree, ConnectionAgrees
<1>. QED BY <1>1, NetworkInvariant, PTL

\* When no call of ping_ip uses it, active_conn is left pointing at the
\* object of a call that ended only if the peer sent the FIN that made
\* tcp_close return early.
THEOREM DanglingAlwaysNeedsFin == Spec => []DanglingNeedsFin
<1>1. IInv => DanglingNeedsFin
  BY DEF IInv, ConnInv, ClosedByPeer
<1>. QED BY <1>1, NetworkInvariant, PTL
=============================================================================
