------------------------------ MODULE Network -------------------------------
(***************************************************************************)
(* The network stack (drivers/network) under its one program, ping_ip of   *)
(* kernel/browser/network.c, and the hosts it talks to.  Frames are read   *)
(* by polling only: the handlers run inside rtl8139_poll_receive, which    *)
(* the program calls from its waiting loops, those of ip_send included.    *)
(***************************************************************************)
EXTENDS Integers, FiniteSets, Sequences

CONSTANTS
  Links,           \* hosts of the local network
  Remotes,         \* hosts behind the gateway
  Gateway,
  ARP_CACHE_SIZE,
  Tries,           \* rounds of ip_send; 5 in the source
  RxSize,          \* bound: frames the receive ring holds
  MaxPings,        \* bound: calls of ping_ip
  MaxFrames        \* bound: frames the hosts send

ASSUME NetworkAssumption ==
  /\ Gateway \in Links /\ Links \intersect Remotes = {}
  /\ ARP_CACHE_SIZE \in Nat /\ Tries \in Nat \ {0}
  /\ RxSize \in Nat /\ MaxPings \in Nat /\ MaxFrames \in Nat

Hosts == Links \union Remotes

\* The host a packet for h goes to (ip.c:85).
NextHop(h) == IF h \in Links THEN h ELSE Gateway

VARIABLES
  pc,       \* where ping_ip is
  ping,     \* its calls so far, and the address of the last
  waits,    \* the calls of ip_send that wait for ARP, innermost last
  cache,    \* arp_cache: the hosts of its valid entries
  echo,     \* echo_state
  conn,     \* the connection object; its port tells connections apart
  active,   \* whether active_conn points to it
  ring,     \* the receive ring: its frames, and whether rx_offset is at one
  hosts,    \* what the hosts know and did
  nested    \* whether a handler ever waited for ARP

vars == <<pc, ping, waits, cache, echo, conn, active, ring, hosts, nested>>

Frame(kind, src, port) == [kind |-> kind, src |-> src, port |-> port]

-----------------------------------------------------------------------------
(* Sending.  What leaves the card changes what the hosts may do.           *)

arp_lookup(h) == h \in cache

\* arp_request: one more host is asked, by a broadcast.
arp_request(h) == [hosts EXCEPT !.asked = @ \union {h}]

\* ethernet_send of an IP packet; `port` is that of a TCP segment.
Transmitted(h, kind, to, port) ==
  CASE kind = "echo_request" -> [h EXCEPT !.pinged = @ \union {to}]
    [] kind = "syn" -> [h EXCEPT !.syns = @ \union {[to |-> to, port |-> port]}]
    [] kind = "ack" -> [h EXCEPT !.accepted = @ \union {port}]
    [] OTHER -> h

\* The start of ip_send inside the calls `outer`, by a handler or by ping_ip:
\* the packet leaves at once, or an ARP request does.
ip_send(kind, to, port, outer, handler) ==
  IF arp_lookup(NextHop(to))
  THEN hosts' = Transmitted(hosts, kind, to, port) /\ waits' = outer
  ELSE /\ hosts' = arp_request(NextHop(to))
       /\ waits' = Append(outer, [kind |-> kind, to |-> to, port |-> port, tries |-> Tries,
                                  handler |-> handler, polled |-> FALSE])

\* Segments of the connection c; their numbers are abstracted.
tcp_send_packet(c, kind, outer, handler) == ip_send(kind, c.remote, c.port, outer, handler)

\* tcp_send of the request: of an established connection only.
tcp_send(c) == c.state = "ESTABLISHED" /\ tcp_send_packet(c, "request", <<>>, FALSE)

Waiting == waits[Len(waits)]
Outer == SubSeq(waits, 1, Len(waits) - 1)

\* A handler that waited returns into the poll that called it, which moves
\* rx_offset once more (rtl8139.c:145-153): a frame is skipped, or the offset
\* is at none.
AfterHandler ==
  IF ~Waiting.handler THEN UNCHANGED ring
  ELSE \/ ring.rx # <<>> /\ ring' = [ring EXCEPT !.rx = Tail(@)]
       \/ ring' = [rx |-> <<>>, in_step |-> FALSE]

\* ip_send found the address after a poll (ip.c:106).
Resolved ==
  /\ waits # <<>> /\ arp_lookup(NextHop(Waiting.to))
  /\ hosts' = Transmitted(hosts, Waiting.kind, Waiting.to, Waiting.port)
  /\ waits' = Outer
  /\ AfterHandler
  /\ UNCHANGED <<pc, ping, cache, echo, conn, active, nested>>

\* A round of polls ended without it: another request, or the packet is dropped.
Unresolved ==
  /\ waits # <<>> /\ ~arp_lookup(NextHop(Waiting.to))
  /\ Waiting.polled \/ ring.rx = <<>>
  /\ IF Waiting.tries > 1
     THEN /\ waits' = Append(Outer, [Waiting EXCEPT !.tries = @ - 1, !.polled = FALSE])
          /\ hosts' = arp_request(NextHop(Waiting.to))
          /\ UNCHANGED ring
     ELSE waits' = Outer /\ AfterHandler /\ UNCHANGED hosts
  /\ UNCHANGED <<pc, ping, cache, echo, conn, active, nested>>

-----------------------------------------------------------------------------
(* The receive handlers, for the frame f at the head of the ring.          *)

Advanced == [ring EXCEPT !.rx = Tail(@)]

\* The poll belongs to a round of ip_send when one waits.
Polled == IF waits = <<>> THEN waits ELSE Append(Outer, [Waiting EXCEPT !.polled = TRUE])

Ignored == ring' = Advanced /\ waits' = Polled /\ UNCHANGED <<hosts, nested>>

\* A handler sends a packet.  When ip_send has to wait, the polls of its round
\* find the frame again, as the handler left it.
Answers(kind, f, left) ==
  /\ ip_send(kind, f.src, f.port, Polled, TRUE)
  /\ IF arp_lookup(NextHop(f.src)) THEN ring' = Advanced /\ nested' = nested
     ELSE ring' = [ring EXCEPT !.rx[1] = left] /\ nested' = TRUE

Remembered(h) == IF Cardinality(cache) < ARP_CACHE_SIZE THEN cache \union {h} ELSE cache

\* The sender learns our address from the answer to its request.
AnswersArp(f) ==
  hosts' = IF f.kind = "arp_request" THEN [hosts EXCEPT !.knows = @ \union {f.src}] ELSE hosts

\* A cache that is filled from replies only.
ArpFromReplies(f) ==
  /\ cache' = IF f.kind = "arp_reply" THEN Remembered(f.src) ELSE cache
  /\ AnswersArp(f) /\ ring' = Advanced /\ waits' = Polled
  /\ UNCHANGED <<echo, conn, nested>>

\* The sender of a request or a reply is remembered while there is room; an
\* entry is never replaced.
arp_receive(f) ==
  /\ cache' = Remembered(f.src)
  /\ AnswersArp(f) /\ ring' = Advanced /\ waits' = Polled
  /\ UNCHANGED <<echo, conn, nested>>

\* Takes an echo request for an answer.
IcmpAnything(f) ==
  /\ echo' = [received |-> TRUE, src |-> f.src]
  /\ Ignored
  /\ UNCHANGED <<cache, conn>>

\* An echo request is made a reply where it stands in the ring, and sent back.
\* Of a reply, neither identifier, number nor sender is compared.
icmp_receive(f) ==
  /\ IF f.kind = "echo_request"
     THEN /\ Answers("echo_reply", f, [f EXCEPT !.kind = "echo_reply"])
          /\ UNCHANGED echo
     ELSE Ignored /\ echo' = [received |-> TRUE, src |-> f.src]
  /\ UNCHANGED <<cache, conn>>

Connecting == pc \in {"connect", "connect_check", "recv", "recv_check", "close", "closed"}

\* Whether a segment is for the connection, without the local port.
FromPeer(f) == active /\ Connecting /\ f.src = conn.remote

\* Whether a segment is for the connection.  What a connection object that is
\* gone makes of a segment is not modelled: the segment is ignored.
ForConnection(f) == active /\ Connecting /\ f.src = conn.remote /\ f.port = conn.port

\* agreed is the port whose numbers ack_num is taken from.
Segment(f) ==
  CASE conn.state = "SYN_SENT" /\ f.kind = "syn_ack" ->
         [conn EXCEPT !.state = "ESTABLISHED", !.agreed = f.port]
    [] conn.state = "ESTABLISHED" /\ f.kind = "data" ->
         [conn EXCEPT !.data_ready = TRUE, !.agreed = f.port]
    [] conn.state = "ESTABLISHED" /\ f.kind = "fin" ->
         [conn EXCEPT !.state = "CLOSED", !.agreed = f.port]

Expected(f) ==
  \/ conn.state = "SYN_SENT" /\ f.kind = "syn_ack"
  \/ conn.state = "ESTABLISHED" /\ f.kind \in {"data", "fin"}

\* A segment that is expected changes the connection and is acknowledged,
\* whatever its sequence number is.  The answer never waits: the address a SYN
\* went to is in the cache, which forgets nothing.
tcp_receive(f) ==
  /\ IF ForConnection(f) /\ Expected(f)
     THEN conn' = Segment(f) /\ Answers("ack", f, f)
     ELSE Ignored /\ UNCHANGED conn
  /\ UNCHANGED <<cache, echo>>

\* By the protocol of an IP packet; all packets are for this host.
ip_receive(f) ==
  \/ f.kind \in {"echo_request", "echo_reply"} /\ icmp_receive(f)
  \/ f.kind \in {"syn_ack", "data", "fin"} /\ tcp_receive(f)

\* By the type of a frame.
ethernet_receive(f) ==
  IF f.kind \in {"arp_request", "arp_reply"} THEN arp_receive(f) ELSE ip_receive(f)

\* rtl8139_poll_receive in a loop of the program or in one of ip_send.  The
\* loops of the program look at the outcome next.
rtl8139_poll_receive ==
  /\ IF waits # <<>> THEN ~arp_lookup(NextHop(Waiting.to)) ELSE pc \in {"echo", "connect", "recv"}
  /\ pc' = IF waits # <<>> THEN pc
           ELSE CASE pc = "echo" -> "echo_check" [] pc = "connect" -> "connect_check"
                  [] pc = "recv" -> "recv_check"
  /\ IF ring.rx # <<>> THEN ethernet_receive(ring.rx[1])
     ELSE waits' = Polled /\ UNCHANGED <<cache, echo, conn, ring, hosts, nested>>
  /\ UNCHANGED <<ping, active>>

-----------------------------------------------------------------------------
(* ping_ip.  A step of it needs every ip_send to have returned.            *)

Init ==
  /\ pc = "idle" /\ ping = [n |-> 0, to |-> Gateway]
  /\ waits = <<>> /\ cache = {}
  /\ echo = [received |-> FALSE, src |-> Gateway]
  /\ conn = [remote |-> Gateway, port |-> 0, state |-> "CLOSED", agreed |-> 0, data_ready |-> FALSE]
  /\ active = FALSE /\ nested = FALSE
  /\ ring = [rx |-> <<>>, in_step |-> TRUE]
  /\ \E early \in SUBSET Links :
       hosts = [knows |-> early, early |-> early, asked |-> {}, pinged |-> {}, answered |-> {},
                syns |-> {}, accepted |-> {}, finned |-> {}, arp_lost |-> FALSE, sent |-> 0]

icmp_send_echo_request(to) ==
  /\ echo' = [echo EXCEPT !.received = FALSE]
  /\ ip_send("echo_request", to, 0, <<>>, FALSE)

\* A call of ping_ip with a valid address.
ping_ip(to) ==
  /\ pc = "idle" /\ ping.n < MaxPings
  /\ ping' = [n |-> ping.n + 1, to |-> to]
  /\ pc' = "echo"
  /\ icmp_send_echo_request(to)
  /\ UNCHANGED <<cache, conn, active, ring, nested>>

\* icmp_wait_reply after a poll: an answer ends the ping.
EchoCheck ==
  /\ pc = "echo_check" /\ waits = <<>>
  /\ pc' = IF echo.received THEN "idle" ELSE "echo"
  /\ UNCHANGED <<ping, waits, cache, echo, conn, active, ring, hosts, nested>>

\* next_local_port; it wraps in the source after 2^14 connections.
NextLocalPort == conn.port + 1

\* icmp_wait_reply timed out: tcp_connect.
tcp_connect ==
  /\ pc = "echo" /\ waits = <<>>
  /\ pc' = "connect"
  /\ conn' = [remote |-> ping.to, port |-> NextLocalPort, state |-> "SYN_SENT",
              agreed |-> 0, data_ready |-> FALSE]
  /\ active' = TRUE
  /\ tcp_send_packet(conn', "syn", <<>>, FALSE)
  /\ UNCHANGED <<ping, cache, echo, ring, nested>>

\* tcp_connect after a poll; when it succeeds tcp_test_connection sends a request.
ConnectCheck ==
  /\ pc = "connect_check" /\ waits = <<>>
  /\ IF conn.state = "ESTABLISHED"
     THEN pc' = "recv" /\ tcp_send(conn)
     ELSE pc' = "connect" /\ UNCHANGED <<waits, hosts>>
  /\ UNCHANGED <<ping, cache, echo, conn, active, ring, nested>>

\* A connection that fails and stays the active one.
ConnectForgets ==
  /\ pc = "connect" /\ waits = <<>>
  /\ pc' = "idle" /\ conn' = [conn EXCEPT !.state = "CLOSED"]
  /\ UNCHANGED <<ping, waits, cache, echo, active, ring, hosts, nested>>

ConnectTimeout ==
  /\ pc = "connect" /\ waits = <<>>
  /\ pc' = "idle" /\ conn' = [conn EXCEPT !.state = "CLOSED"] /\ active' = FALSE
  /\ UNCHANGED <<ping, waits, cache, echo, ring, hosts, nested>>

\* tcp_recv after its poll.
RecvCheck ==
  /\ pc = "recv_check" /\ waits = <<>>
  /\ pc' = IF conn.data_ready THEN "close" ELSE "recv"
  /\ conn' = [conn EXCEPT !.data_ready = FALSE]
  /\ UNCHANGED <<ping, waits, cache, echo, active, ring, hosts, nested>>

RecvTimeout ==
  /\ pc = "recv" /\ waits = <<>>
  /\ pc' = "close"
  /\ UNCHANGED <<ping, waits, cache, echo, conn, active, ring, hosts, nested>>

\* tcp_close returns early when the peer closed, with active_conn as it is.
tcp_close ==
  /\ pc = "close" /\ waits = <<>>
  /\ IF conn.state = "CLOSED" THEN pc' = "idle" /\ UNCHANGED <<waits, hosts>>
     ELSE pc' = "closed" /\ tcp_send_packet(conn, "fin", <<>>, FALSE)
  /\ UNCHANGED <<ping, cache, echo, conn, active, ring, nested>>

Closed ==
  /\ pc = "closed" /\ waits = <<>>
  /\ pc' = "idle" /\ conn' = [conn EXCEPT !.state = "CLOSED"] /\ active' = FALSE
  /\ UNCHANGED <<ping, waits, cache, echo, ring, hosts, nested>>

-----------------------------------------------------------------------------
(* The hosts.  A frame reaches the ring in the order it was sent, or is    *)
(* lost, in the network or because the ring is full.                       *)

HostSends(f, h) ==
  /\ hosts.sent < MaxFrames /\ ring.in_step
  /\ \/ /\ Len(ring.rx) < RxSize
        /\ ring' = [ring EXCEPT !.rx = Append(@, f)]
        /\ hosts' = [h EXCEPT !.sent = @ + 1]
     \/ /\ ring' = ring
        /\ hosts' = [h EXCEPT !.sent = @ + 1,
                              !.arp_lost = @ \/ f.kind \in {"arp_request", "arp_reply"}]
  /\ UNCHANGED <<pc, ping, waits, cache, echo, conn, active, nested>>

HostAsks(s) == HostSends(Frame("arp_request", s, 0), hosts)

HostAnswersArp(s) ==
  /\ s \in hosts.asked
  /\ HostSends(Frame("arp_reply", s, 0),
               [hosts EXCEPT !.asked = @ \ {s}, !.knows = @ \union {s}])

HostPings(s) == NextHop(s) \in hosts.knows /\ HostSends(Frame("echo_request", s, 0), hosts)

HostAnswersPing(s) ==
  /\ s \in hosts.pinged /\ NextHop(s) \in hosts.knows
  /\ HostSends(Frame("echo_reply", s, 0), [hosts EXCEPT !.answered = @ \union {s}])

\* A server answers a SYN as often as it likes, and sends data and FIN on a
\* connection that was acknowledged.
ServerAnswers(syn) ==
  /\ NextHop(syn.to) \in hosts.knows
  /\ \/ HostSends(Frame("syn_ack", syn.to, syn.port), hosts)
     \/ syn.port \in hosts.accepted /\ HostSends(Frame("data", syn.to, syn.port), hosts)
     \/ /\ syn.port \in hosts.accepted
        /\ HostSends(Frame("fin", syn.to, syn.port), [hosts EXCEPT !.finned = @ \union {syn.port}])

Next ==
  \/ \E to \in Hosts : ping_ip(to)
  \/ rtl8139_poll_receive \/ Resolved \/ Unresolved
  \/ EchoCheck \/ tcp_connect \/ ConnectCheck \/ ConnectTimeout
  \/ RecvCheck \/ RecvTimeout \/ tcp_close \/ Closed
  \/ \E s \in Links : HostAsks(s) \/ HostAnswersArp(s)
  \/ \E s \in Hosts : HostPings(s) \/ HostAnswersPing(s)
  \/ \E syn \in hosts.syns : ServerAnswers(syn)

Spec == Init /\ [][Next]_vars

-----------------------------------------------------------------------------
\* A handler waits for ARP inside the poll that called it, and puts the ring
\* out of step (ip.c:102-110, rtl8139.c:141-153), only if an ARP frame was
\* lost, the cache is full, or a host knew this one before it started.
HandlerWaitsOnlyAfterLoss ==
  nested \/ ~ring.in_step =>
    hosts.arp_lost \/ Cardinality(cache) = ARP_CACHE_SIZE \/ hosts.early # {}

\* Unless that happened, an echo reply that ends a ping is the answer of a host
\* that was pinged, though maybe by an earlier call (icmp.c:66-69).
SuccessNeedsAnswer == echo.received => echo.src \in hosts.answered \/ nested

\* A connection is made with the numbers of this attempt: a late SYN-ACK of an
\* earlier one is not taken for it (tcp.c:132, tcp.c:209-224).
ConnectionAgrees == Connecting /\ conn.state = "ESTABLISHED" => conn.agreed = conn.port

\* active_conn points to an object of a call that returned only when the peer
\* closed first: then tcp_close returns early (tcp.c:186, tcp.c:253).
DanglingNeedsFin == ~Connecting /\ active => conn.port \in hosts.finned
=============================================================================
