---------------------------- MODULE SyslogServer ----------------------------
(***************************************************************************)
(* The syslog endpoint of runtime-go/internal/server/syslog_server.go.     *)
(*                                                                         *)
(* Over TCP an accept loop adds each connection to s.conns, and Write      *)
(* copies that list, writes to the copies without the mutex, and replaces  *)
(* the list by the connections that took the message.  Over UDP a client   *)
(* registers by sending a datagram; a register loop notes when each was    *)
(* last seen and a cleanup loop forgets those not seen for a while.        *)
(* RuntimeServer's one goroutine calls Write, and Close when a signal      *)
(* arrives.                                                                *)
(*                                                                         *)
(* Time is counted in cleanup periods: "idle" is how many have passed      *)
(* since a UDP address was last seen, up to TTL + 1 for "too long ago".    *)
(***************************************************************************)
EXTENDS Integers, FiniteSets

CONSTANTS
    Peers,         \* TCP connections or UDP addresses
    Allowed,       \* the UDP addresses within the allowed CIDRs
    NumEvents,     \* bound: how many events are written
    TTL,           \* udpClientTTL in cleanup periods
    NoPeer

ASSUME SyslogAssumption ==
    /\ IsFiniteSet(Peers)
    /\ Allowed \subseteq Peers
    /\ NumEvents \in Nat
    /\ TTL \in Nat \ {0}
    /\ NoPeer \notin Peers

VARIABLES
    protocol,      \* "tcp" or "udp", fixed when the endpoint is built
    loops,         \* the background loops that are running
    ctxDone,       \* s.ctx is cancelled
    listening,     \* the listener or the UDP socket is open
    accepted,      \* the connection the accept loop is about to add
    sockets,       \* connections whose server side is open
    conns,         \* s.conns
    clients,       \* s.udpClients: the registered addresses
    idle,          \* the age of their last datagram
    wpc,           \* where the server goroutine is
    snap,          \* peers the current message is still to be written to
    survivors,     \* connections that took the current message
    sent,          \* to how many peers it went
    emitted, failed,   \* EndpointStats
    event,         \* the number of the event being, or last, written
    got,           \* the events each peer was sent
    since,         \* history: the last event written before a peer became
                   \* known, or -1: not known, or added during a write
    lossy,         \* history: UDP clients a send to which has failed
    unencodable    \* history: the events that could not be encoded

writerVars == <<wpc, snap, survivors, sent, emitted, failed, event, got>>
closeVars  == <<ctxDone, listening>>
udp        == <<clients, idle>>
history    == <<since, lossy, unencodable>>
vars == <<protocol, loops, closeVars, accepted, sockets, conns, udp,
          writerVars, history>>

Loops(p)  == IF p = "tcp" THEN {"accept"} ELSE {"register", "cleanup"}
LongAgo    == TTL + 1
Quiet      == wpc # "send"

Init ==
    /\ protocol \in {"tcp", "udp"}
    /\ loops = Loops(protocol)
    /\ ctxDone = FALSE
    /\ listening = TRUE
    /\ accepted = NoPeer
    /\ sockets = {}
    /\ conns = {}
    /\ clients = {}
    /\ idle = [p \in Peers |-> LongAgo]
    /\ wpc = "loop"
    /\ snap = {}
    /\ survivors = {}
    /\ sent = 0
    /\ emitted = 0 /\ failed = 0
    /\ event = 0
    /\ got = [p \in Peers |-> {}]
    /\ since = [p \in Peers |-> -1]
    /\ lossy = {}
    /\ unencodable = {}
-----------------------------------------------------------------------------
(* The accept loop of openTCP.  An error only ends it once ctx is done.    *)
Accept(c) ==
    /\ "accept" \in loops
    /\ listening
    /\ accepted = NoPeer
    /\ since[c] = -1 /\ got[c] = {} /\ c \notin sockets \cup conns
    /\ accepted' = c
    /\ sockets' = sockets \cup {c}
    /\ UNCHANGED <<protocol, loops, closeVars, conns, udp, writerVars, history>>

AddConnection ==
    /\ accepted # NoPeer
    /\ conns' = conns \cup {accepted}
    /\ since' = [since EXCEPT ![accepted] = IF Quiet THEN event ELSE -1]
    /\ accepted' = NoPeer
    /\ UNCHANGED <<protocol, loops, closeVars, sockets, udp, writerVars,
                   lossy, unencodable>>

AcceptExits ==
    /\ "accept" \in loops
    /\ accepted = NoPeer
    /\ ~listening
    /\ ctxDone
    /\ loops' = loops \ {"accept"}
    /\ UNCHANGED <<protocol, closeVars, accepted, sockets, conns, udp,
                   writerVars, history>>
-----------------------------------------------------------------------------
(* udpRegisterLoop, for a datagram from p.                                 *)
Register(p) ==
    /\ "register" \in loops
    /\ listening
    /\ p \in Allowed
    /\ clients' = clients \cup {p}
    /\ idle' = [idle EXCEPT ![p] = 0]
    /\ IF p \in clients
       THEN UNCHANGED <<since, lossy>>
       ELSE since' = [since EXCEPT ![p] = event] /\ lossy' = lossy \ {p}
    /\ UNCHANGED <<protocol, loops, closeVars, accepted, sockets, conns,
                   writerVars, unencodable>>

Expired == {p \in clients : idle[p] >= TTL}

\* Mutated Cleanup: clients are kept for a period too long.
CleanupLate ==
    /\ "cleanup" \in loops
    /\ clients' = {p \in clients : idle[p] <= TTL}
    /\ idle' = [p \in Peers |-> IF idle[p] < LongAgo THEN idle[p] + 1
                                                     ELSE LongAgo]
    /\ UNCHANGED <<protocol, loops, closeVars, accepted, sockets, conns,
                   writerVars, history>>

\* Mutated Cleanup: clients are forgotten a period early.
CleanupEarly ==
    /\ "cleanup" \in loops
    /\ clients' = {p \in clients : idle[p] + 1 < TTL}
    /\ idle' = [p \in Peers |-> IF idle[p] < LongAgo THEN idle[p] + 1
                                                     ELSE LongAgo]
    /\ UNCHANGED <<protocol, loops, closeVars, accepted, sockets, conns,
                   writerVars, history>>

(* A period passes and cleanupClients runs.                                *)
Cleanup ==
    /\ "cleanup" \in loops
    /\ clients' = clients \ Expired
    /\ idle' = [p \in Peers |-> IF idle[p] < LongAgo THEN idle[p] + 1
                                                     ELSE LongAgo]
    /\ UNCHANGED <<protocol, loops, closeVars, accepted, sockets, conns,
                   writerVars, history>>

(* Both UDP loops look at ctx before each round.                           *)
UdpLoopExits ==
    /\ ctxDone
    /\ \E l \in loops \ {"accept"} : loops' = loops \ {l}
    /\ UNCHANGED <<protocol, closeVars, accepted, sockets, conns, udp,
                   writerVars, history>>
-----------------------------------------------------------------------------
(* Write of an event that cannot be encoded.                               *)
WriteUnencodable ==
    /\ wpc = "loop"
    /\ event < NumEvents
    /\ event' = event + 1
    /\ failed' = failed + 1
    /\ unencodable' = unencodable \cup {event'}
    /\ UNCHANGED <<protocol, loops, closeVars, accepted, sockets, conns, udp,
                   wpc, snap, survivors, sent, emitted, got, since, lossy>>

(* Copy the list of peers; without one the message goes nowhere.           *)
WriteSnapshot ==
    /\ wpc = "loop"
    /\ event < NumEvents
    /\ event' = event + 1
    /\ LET peers == IF protocol = "tcp" THEN conns ELSE clients
       IN  IF peers = {}
           THEN UNCHANGED <<wpc, snap, survivors, sent>>
           ELSE /\ wpc' = "send"
                /\ snap' = peers
                /\ survivors' = {}
                /\ sent' = 0
    /\ UNCHANGED <<protocol, loops, closeVars, accepted, sockets, conns, udp,
                   emitted, failed, got, history>>

\* Mutated SendOk: the connection is not added to the survivors.
SendOkUnlisted(p) ==
    /\ wpc = "send"
    /\ p \in snap
    /\ snap' = snap \ {p}
    /\ sent' = sent + 1
    /\ got' = [got EXCEPT ![p] = @ \cup {event}]
    /\ UNCHANGED <<protocol, loops, closeVars, accepted, sockets, conns, udp,
                   wpc, survivors, emitted, failed, event, history>>

SendOk(p) ==
    /\ wpc = "send"
    /\ p \in snap
    /\ snap' = snap \ {p}
    /\ survivors' = survivors \cup {p}
    /\ sent' = sent + 1
    /\ got' = [got EXCEPT ![p] = @ \cup {event}]
    /\ UNCHANGED <<protocol, loops, closeVars, accepted, sockets, conns, udp,
                   wpc, emitted, failed, event, history>>

(* The peer is gone or does not read within syslogWriteTimeout.  A TCP     *)
(* connection is closed for it.                                            *)
SendError(p) ==
    /\ wpc = "send"
    /\ p \in snap
    /\ snap' = snap \ {p}
    /\ sockets' = sockets \ {p}
    /\ lossy' = IF protocol = "udp" THEN lossy \cup {p} ELSE lossy
    /\ UNCHANGED <<protocol, loops, closeVars, accepted, conns, udp, wpc,
                   survivors, sent, emitted, failed, event, got,
                   since, unencodable>>

\* Mutated WriteInstall: the list is left as it is.
WriteInstallNothing ==
    /\ wpc = "send"
    /\ snap = {}
    /\ wpc' = "loop"
    /\ IF sent > 0 THEN emitted' = emitted + 1 /\ UNCHANGED failed
                   ELSE failed' = failed + 1 /\ UNCHANGED emitted
    /\ UNCHANGED <<protocol, loops, closeVars, accepted, sockets, conns, udp,
                   snap, survivors, sent, event, got, history>>

(* Over TCP the survivors replace the list, whatever it holds by now.      *)
WriteInstall ==
    /\ wpc = "send"
    /\ snap = {}
    /\ wpc' = "loop"
    /\ conns' = IF protocol = "tcp" THEN survivors ELSE conns
    /\ IF sent > 0 THEN emitted' = emitted + 1 /\ UNCHANGED failed
                   ELSE failed' = failed + 1 /\ UNCHANGED emitted
    /\ UNCHANGED <<protocol, loops, closeVars, accepted, sockets, udp, snap,
                   survivors, sent, event, got, history>>

WriteStep == WriteInstall \/ \E p \in Peers : SendOk(p) \/ SendError(p)
-----------------------------------------------------------------------------
(* Close, between two writes: cancel, close the socket, wait for the loops *)
(* and close the connections that are known.                               *)
CloseCancel ==
    /\ wpc = "loop"
    /\ wpc' = "cancelled"
    /\ ctxDone' = TRUE
    /\ UNCHANGED <<protocol, loops, listening, accepted, sockets, conns, udp,
                   snap, survivors, sent, emitted, failed, event, got, history>>

\* Mutated CloseSocket: the listener stays open.
CloseSocketNot ==
    /\ wpc = "cancelled"
    /\ wpc' = "joining"
    /\ UNCHANGED <<protocol, loops, closeVars, accepted, sockets, conns, udp,
                   snap, survivors, sent, emitted, failed, event, got, history>>

CloseSocket ==
    /\ wpc = "cancelled"
    /\ wpc' = "joining"
    /\ listening' = FALSE
    /\ UNCHANGED <<protocol, loops, ctxDone, accepted, sockets, conns, udp,
                   snap, survivors, sent, emitted, failed, event, got, history>>

CloseConnections ==
    /\ wpc = "joining"
    /\ loops = {}
    /\ wpc' = "closed"
    /\ sockets' = sockets \ conns
    /\ conns' = {}
    /\ UNCHANGED <<protocol, loops, closeVars, accepted, udp, snap,
                   survivors, sent, emitted, failed, event, got, history>>

Background ==
    \/ \E p \in Peers : Accept(p) \/ Register(p)
    \/ AddConnection \/ AcceptExits
    \/ Cleanup \/ UdpLoopExits

Next ==
    \/ Background
    \/ WriteUnencodable \/ WriteSnapshot \/ WriteStep
    \/ CloseCancel \/ CloseSocket \/ CloseConnections

Spec == Init /\ [][Next]_vars

(* The loops run and end, a Write and a Close that have begun go on: every *)
(* blocking call in them has a deadline or is ended by closing its socket. *)
FairSpec ==
    /\ Spec
    /\ WF_vars(AddConnection)
    /\ WF_vars(AcceptExits)
    /\ WF_vars(UdpLoopExits)
    /\ WF_vars(WriteStep)
    /\ WF_vars(CloseSocket \/ CloseConnections)
-----------------------------------------------------------------------------
(* Every variable has its type.                                            *)
TypeOK ==
    /\ protocol \in {"tcp", "udp"}
    /\ loops \subseteq Loops(protocol)
    /\ ctxDone \in BOOLEAN /\ listening \in BOOLEAN
    /\ accepted \in Peers \cup {NoPeer}
    /\ sockets \subseteq Peers /\ conns \subseteq Peers
    /\ clients \subseteq Peers
    /\ idle \in [Peers -> 0..LongAgo]
    /\ \A p \in clients : idle[p] <= TTL
    /\ wpc \in {"loop", "send", "cancelled", "joining", "closed"}
    /\ snap \subseteq Peers /\ survivors \subseteq Peers
    /\ sent \in Nat /\ emitted \in Nat /\ failed \in Nat
    /\ event \in 0..NumEvents
    /\ got \in [Peers -> SUBSET (1..NumEvents)]
    /\ since \in [Peers -> -1..NumEvents]
    /\ lossy \subseteq Peers
    /\ unencodable \subseteq 1..NumEvents

(* A message is never written to a connection that the server has closed.  *)
NoWriteToClosed == protocol = "tcp" => snap \subseteq sockets

(* p was sent every event written since it became known, the current one   *)
(* excepted while it is still to be sent to p.                             *)
ServedSince(p) ==
    \A e \in (since[p] + 1)..event :
        \/ e \in got[p] \cup unencodable
        \/ wpc = "send" /\ e = event /\ p \in snap

(* A connection that was added while no Write was in progress is served:   *)
(* as long as it takes what it is sent it gets every later message, and    *)
(* Close does not leave it open.                                           *)
ServedOnceListed ==
    protocol = "tcp" =>
        \A c \in sockets : since[c] >= 0 => wpc # "closed" /\ ServedSince(c)

(* A UDP client that keeps sending a datagram within the time to live is   *)
(* never forgotten, and gets every message since it registered, but for    *)
(* sends that fail, even if it registers while a message is being sent.    *)
FreshClientsServed ==
    protocol = "udp" =>
        \A p \in Peers \ lossy : idle[p] <= TTL =>
            p \in clients /\ ServedSince(p)

(* Close terminates, although it waits for the loops that are blocked in   *)
(* Accept or in a read when it begins.                                     *)
CloseReturns == wpc = "cancelled" ~> wpc = "closed"

(* "Write delivers a syslog message to all connected clients": a           *)
(* connection whose server side is open is known to the endpoint, so that  *)
(* the next Write reaches it.                                              *)
NoConnectionForgotten ==
    \A c \in sockets : c \in conns \/ c = accepted
=============================================================================
