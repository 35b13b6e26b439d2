------------------------ MODULE SyslogServerProofs ------------------------
(***************************************************************************)
(* Theorems about SyslogServer, for every set of peers, every allow list,  *)
(* every time to live and every number of events.                          *)
(***************************************************************************)
EXTENDS SyslogServer, TLAPS

(* Only a Write has peers left to serve; a connection is about to be added *)
(* only while the accept loop runs; a closed endpoint has neither loops    *)
(* nor connections.                                                        *)
PhaseInv ==
    /\ Quiet => snap = {}
    /\ ~Quiet => event >= 1
    /\ accepted # NoPeer => "accept" \in loops
    /\ wpc = "closed" => loops = {} /\ conns = {}

(* TCP.  The list holds open connections between two writes; during one,   *)
(* the peers that are served or still to be served are open, and none is   *)
(* both.                                                                   *)
OpenInv ==
    protocol = "tcp" =>
        /\ Quiet => conns \subseteq sockets
        /\ ~Quiet => snap \cup survivors \subseteq sockets
        /\ ~Quiet => snap \cap survivors = {}

(* A connection that is about to be added is new.                          *)
NewcomerInv ==
    accepted # NoPeer =>
        /\ accepted \in sockets
        /\ since[accepted] = -1
        /\ accepted \notin conns \cup snap
        /\ ~Quiet => accepted \notin survivors

(* An open connection that was added between two writes is listed, or will *)
(* be when the present write is through, and has been served.              *)
Kept == IF Quiet THEN conns ELSE snap \cup survivors

ListedInv ==
    protocol = "tcp" =>
        \A c \in sockets : since[c] >= 0 => c \in Kept /\ ServedSince(c)

(* UDP.  An address is registered until it has been silent for too long,   *)
(* and served for as long as the sends to it succeed.                      *)
ClientInv ==
    protocol = "udp" =>
        \A p \in Peers : idle[p] <= TTL =>
            /\ p \in clients
            /\ p \notin lossy => ServedSince(p)

SyslogInv ==
    TypeOK /\ PhaseInv /\ OpenInv /\ NewcomerInv /\ ListedInv /\ ClientInv
-----------------------------------------------------------------------------
(* An endpoint that is opened has no peers.                                *)
LEMMA InitSyslogInv == Init => SyslogInv
<1> SUFFICES ASSUME Init PROVE SyslogInv
  OBVIOUS
<1> USE SyslogAssumption DEF Init, Quiet, LongAgo
<1>1. TypeOK
  <2>1. ctxDone \in BOOLEAN /\ listening \in BOOLEAN
    OBVIOUS
  <2>2. /\ idle \in [Peers -> 0..LongAgo]
        /\ got \in [Peers -> SUBSET (1..NumEvents)]
        /\ since \in [Peers -> -1..NumEvents]
    OBVIOUS
  <2>3. /\ accepted \in Peers \cup {NoPeer} /\ event \in 0..NumEvents
        /\ sent \in Nat /\ emitted \in Nat /\ failed \in Nat
        /\ wpc \in {"loop", "send", "cancelled", "joining", "closed"}
    OBVIOUS
  <2> QED BY <2>1, <2>2, <2>3 DEF TypeOK
<1>2. PhaseInv /\ OpenInv /\ NewcomerInv
  BY DEF PhaseInv, OpenInv, NewcomerInv
<1>3. ListedInv /\ ClientInv
  BY DEF ListedInv, ClientInv
<1> QED BY <1>1, <1>2, <1>3 DEF SyslogInv

(* A connection that arrives is none of those the endpoint serves.         *)
LEMMA AcceptSyslogInv ==
  ASSUME SyslogInv, NEW c \in Peers, Accept(c)
  PROVE  SyslogInv'
<1> USE SyslogAssumption
    DEF Accept, SyslogInv, writerVars, history, udp, closeVars
<1>1. protocol = "tcp"
  BY DEF TypeOK, Loops
<1>2. TypeOK'
  BY DEF TypeOK
<1>3. PhaseInv' /\ OpenInv'
  BY DEF PhaseInv, OpenInv, Quiet
<1>4. NewcomerInv'
  BY <1>1 DEF NewcomerInv, PhaseInv, OpenInv, Quiet
<1>5. ListedInv'
  BY DEF ListedInv, Kept, ServedSince, Quiet
<1>6. ClientInv'
  BY <1>1 DEF ClientInv
<1> QED BY <1>2, <1>3, <1>4, <1>5, <1>6

(* It is served from here on when no Write is under way.                   *)
LEMMA AddSyslogInv == SyslogInv /\ AddConnection => SyslogInv'
<1> SUFFICES ASSUME SyslogInv, AddConnection PROVE SyslogInv'
  OBVIOUS
<1> USE SyslogAssumption
    DEF AddConnection, SyslogInv, writerVars, udp, closeVars
<1> DEFINE a == accepted
<1>1. protocol = "tcp" /\ a \in Peers
  BY DEF TypeOK, PhaseInv, Loops
<1>2. TypeOK'
  BY <1>1 DEF TypeOK
<1>3. PhaseInv' /\ OpenInv'
  BY <1>1 DEF PhaseInv, OpenInv, NewcomerInv, Quiet
<1>4. NewcomerInv'
  BY DEF NewcomerInv
<1>5. since'[a] = (IF Quiet THEN event ELSE -1)
      /\ \A c \in Peers \ {a} : since'[c] = since[c]
  BY <1>1 DEF TypeOK
<1>6. ListedInv'
  <2>1. SUFFICES ASSUME NEW c \in sockets, since'[c] >= 0
                 PROVE  c \in Kept' /\ ServedSince(c)'
    BY DEF ListedInv
  <2>2. c \in Peers
    BY DEF TypeOK
  <2>3. CASE c = a
    <3>1. Quiet /\ since'[c] = event /\ c \in conns'
      BY <1>5, <2>1, <2>3
    <3> QED BY <3>1 DEF Kept, ServedSince, Quiet, TypeOK
  <2>4. CASE c # a
    <3>1. since'[c] = since[c]
      BY <1>5, <2>2, <2>4
    <3> QED BY <1>1, <2>1, <3>1 DEF ListedInv, Kept, ServedSince, Quiet
  <2> QED BY <2>3, <2>4
<1>7. ClientInv'
  BY <1>1 DEF ClientInv
<1> QED BY <1>2, <1>3, <1>4, <1>6, <1>7

(* The loops end, the accept loop not before it has added what it has      *)
(* accepted.                                                               *)
LEMMA ExitSyslogInv ==
  ASSUME SyslogInv, AcceptExits \/ UdpLoopExits
  PROVE  SyslogInv'
<1> USE DEF AcceptExits, UdpLoopExits, SyslogInv, writerVars, history, udp,
            closeVars
<1>1. TypeOK'
  BY DEF TypeOK
<1>2. PhaseInv' /\ OpenInv'
  BY DEF PhaseInv, OpenInv, Quiet
<1>3. NewcomerInv'
  BY DEF NewcomerInv, Quiet
<1>4. ListedInv' /\ ClientInv'
  BY DEF ListedInv, Kept, ClientInv, ServedSince, Quiet
<1> QED BY <1>1, <1>2, <1>3, <1>4

(* A datagram registers its sender for what is written from now on.        *)
LEMMA RegisterSyslogInv ==
  ASSUME SyslogInv, NEW p \in Peers, Register(p)
  PROVE  SyslogInv'
<1> USE SyslogAssumption
    DEF Register, SyslogInv, writerVars, closeVars, LongAgo
<1>1. protocol = "udp"
  BY DEF TypeOK, Loops
<1>2. TypeOK'
  <2>1. \A q \in Peers : idle'[q] = IF q = p THEN 0 ELSE idle[q]
    BY DEF TypeOK
  <2>2. since' \in [Peers -> -1..NumEvents] /\ lossy' \subseteq Peers
    BY DEF TypeOK
  <2>3. idle' \in [Peers -> 0..LongAgo]
    BY DEF TypeOK
  <2>4. clients' \subseteq Peers /\ \A q \in clients' : idle'[q] <= TTL
    BY <2>1 DEF TypeOK
  <2> QED BY <2>2, <2>3, <2>4 DEF TypeOK
<1>3. PhaseInv' /\ OpenInv' /\ ListedInv'
  BY <1>1 DEF PhaseInv, OpenInv, ListedInv, Quiet
<1>4. NewcomerInv'
  BY <1>1 DEF NewcomerInv, PhaseInv, TypeOK, Loops
<1>5. ClientInv'
  <2>1. SUFFICES ASSUME NEW q \in Peers, idle'[q] <= TTL
                 PROVE  /\ q \in clients'
                        /\ q \notin lossy' => ServedSince(q)'
    BY DEF ClientInv
  <2>2. CASE q = p /\ p \notin clients
    BY <2>2 DEF ServedSince, TypeOK
  <2>3. CASE q = p /\ p \in clients
    BY <1>1, <2>3 DEF ServedSince, ClientInv, TypeOK
  <2>4. CASE q # p
    <3>1. idle'[q] = idle[q] /\ since'[q] = since[q]
      BY <2>4 DEF TypeOK
    <3> QED BY <1>1, <2>1, <2>4, <3>1 DEF ServedSince, ClientInv
  <2> QED BY <2>2, <2>3, <2>4
<1> QED BY <1>2, <1>3, <1>4, <1>5

(* The clients that are kept are the ones that are not too old afterwards. *)
LEMMA CleanupSyslogInv == SyslogInv /\ Cleanup => SyslogInv'
<1> SUFFICES ASSUME SyslogInv, Cleanup PROVE SyslogInv'
  OBVIOUS
<1> USE SyslogAssumption
    DEF Cleanup, Expired, SyslogInv, writerVars, history, closeVars, LongAgo
<1>1. protocol = "udp"
  BY DEF TypeOK, Loops
<1>2. \A p \in Peers : idle[p] \in 0..LongAgo /\
         idle'[p] = IF idle[p] < LongAgo THEN idle[p] + 1 ELSE LongAgo
  BY DEF TypeOK
<1>3. idle' \in [Peers -> 0..LongAgo]
  BY <1>2
<1>4. \A p \in clients' : idle'[p] <= TTL
  BY <1>2 DEF TypeOK
<1>5. TypeOK'
  BY <1>3, <1>4 DEF TypeOK
<1>6. PhaseInv' /\ OpenInv' /\ ListedInv'
  BY <1>1 DEF PhaseInv, OpenInv, ListedInv, Quiet
<1>7. NewcomerInv'
  BY DEF NewcomerInv, Quiet
<1>8. \A p \in Peers : idle'[p] <= TTL =>
          idle[p] <= TTL /\ p \notin Expired
  BY <1>2
<1>9. ClientInv'
  BY <1>1, <1>8 DEF ClientInv, ServedSince
<1> QED BY <1>5, <1>6, <1>7, <1>9
-----------------------------------------------------------------------------
(* An event that cannot be encoded is owed to nobody.                      *)
LEMMA UnencodableSyslogInv == SyslogInv /\ WriteUnencodable => SyslogInv'
<1> SUFFICES ASSUME SyslogInv, WriteUnencodable PROVE SyslogInv'
  OBVIOUS
<1> USE SyslogAssumption DEF WriteUnencodable, SyslogInv, closeVars, udp
<1>1. event \in Nat /\ event + 1 \in 1..NumEvents
  BY DEF TypeOK
<1>2. TypeOK'
  BY <1>1 DEF TypeOK
<1>3. PhaseInv' /\ OpenInv' /\ NewcomerInv'
  BY <1>1 DEF PhaseInv, OpenInv, NewcomerInv, Quiet
<1>4. \A p \in Peers : ServedSince(p) => ServedSince(p)'
  BY <1>1 DEF ServedSince, TypeOK
<1>5. ListedInv' /\ ClientInv'
  BY <1>4 DEF ListedInv, Kept, ClientInv, Quiet, TypeOK
<1> QED BY <1>2, <1>3, <1>5

(* The copy of the list holds everyone that the new event is owed to.      *)
LEMMA SnapshotSyslogInv == SyslogInv /\ WriteSnapshot => SyslogInv'
<1> SUFFICES ASSUME SyslogInv, WriteSnapshot PROVE SyslogInv'
  OBVIOUS
<1> USE SyslogAssumption DEF WriteSnapshot, SyslogInv, closeVars, udp, history
<1> DEFINE peers == IF protocol = "tcp" THEN conns ELSE clients
<1>1. event \in Nat /\ event + 1 \in 1..NumEvents /\ peers \subseteq Peers
  BY DEF TypeOK
<1>2. CASE peers = {}
  <2>1. UNCHANGED <<wpc, snap, survivors, sent>>
    BY <1>2
  <2>2. TypeOK'
    BY <1>1, <2>1 DEF TypeOK
  <2>3. PhaseInv' /\ OpenInv' /\ NewcomerInv'
    BY <1>1, <2>1 DEF PhaseInv, OpenInv, NewcomerInv, Quiet
  <2>4. ListedInv' /\ ClientInv'
    BY <1>2, <2>1 DEF ListedInv, Kept, ClientInv, Quiet, TypeOK
  <2> QED BY <2>2, <2>3, <2>4
<1>3. CASE peers # {}
  <2>1. wpc' = "send" /\ snap' = peers /\ survivors' = {} /\ sent' = 0
    BY <1>3
  <2>2. TypeOK'
    BY <1>1, <2>1 DEF TypeOK
  <2>3. PhaseInv' /\ OpenInv'
    BY <1>1, <2>1 DEF PhaseInv, OpenInv, Quiet, TypeOK
  <2>4. NewcomerInv'
    <3>1. accepted # NoPeer => protocol = "tcp"
      BY DEF PhaseInv, TypeOK, Loops
    <3> QED BY <2>1, <3>1 DEF NewcomerInv
  <2>5. ASSUME NEW p \in peers, ServedSince(p) PROVE ServedSince(p)'
    <3>1. since[p] \in Int
      BY <1>1 DEF TypeOK
    <3>2. SUFFICES ASSUME NEW e \in (since[p] + 1)..event'
                   PROVE  \/ e \in got'[p] \cup unencodable'
                          \/ wpc' = "send" /\ e = event' /\ p \in snap'
      BY DEF ServedSince
    <3>3. CASE e = event'
      BY <2>1, <3>3
    <3>4. CASE e # event'
      BY <1>1, <2>5, <3>1, <3>4 DEF ServedSince
    <3> QED BY <3>3, <3>4
  <2>6. ListedInv'
    BY <2>1, <2>5 DEF ListedInv, Kept, Quiet
  <2>7. ClientInv'
    BY <2>1, <2>5 DEF ClientInv
  <2> QED BY <2>2, <2>3, <2>4, <2>6, <2>7
<1> QED BY <1>2, <1>3

(* A peer that takes the message has been served it.                       *)
LEMMA SendOkSyslogInv ==
  ASSUME SyslogInv, NEW p \in Peers, SendOk(p)
  PROVE  SyslogInv'
<1> USE SyslogAssumption DEF SendOk, SyslogInv, closeVars, udp, history
<1>1. ~Quiet /\ event \in 1..NumEvents
  BY DEF PhaseInv, Quiet, TypeOK
<1>2. got'[p] = got[p] \cup {event}
      /\ \A q \in Peers \ {p} : got'[q] = got[q]
  BY DEF TypeOK
<1>3. TypeOK'
  <2>1. got' \in [Peers -> SUBSET (1..NumEvents)]
    BY <1>1 DEF TypeOK
  <2> QED BY <2>1 DEF TypeOK
<1>4. PhaseInv' /\ OpenInv'
  BY <1>1 DEF PhaseInv, OpenInv, Quiet
<1>5. NewcomerInv'
  BY <1>1 DEF NewcomerInv, Quiet
<1>6. \A q \in Peers : ServedSince(q) => ServedSince(q)'
  BY <1>2 DEF ServedSince
<1>7. ListedInv' /\ ClientInv'
  BY <1>6 DEF ListedInv, Kept, ClientInv, Quiet, TypeOK
<1> QED BY <1>3, <1>4, <1>5, <1>7

(* A peer that does not take it is not served any more.                    *)
LEMMA SendErrorSyslogInv ==
  ASSUME SyslogInv, NEW p \in Peers, SendError(p)
  PROVE  SyslogInv'
<1> USE SyslogAssumption DEF SendError, SyslogInv, closeVars, udp
<1>1. ~Quiet
  BY DEF Quiet
<1>2. TypeOK'
  BY DEF TypeOK
<1>3. PhaseInv' /\ OpenInv' /\ NewcomerInv'
  BY <1>1 DEF PhaseInv, OpenInv, NewcomerInv, Quiet
<1>4. \A q \in Peers \ {p} : ServedSince(q) => ServedSince(q)'
  BY DEF ServedSince
<1>5. ListedInv' /\ ClientInv'
  BY <1>4 DEF ListedInv, Kept, ClientInv, Quiet, TypeOK
<1> QED BY <1>2, <1>3, <1>5

(* The survivors are the list; a connection added meanwhile is not one of  *)
(* those that are owed anything.                                           *)
LEMMA InstallSyslogInv == SyslogInv /\ WriteInstall => SyslogInv'
<1> SUFFICES ASSUME SyslogInv, WriteInstall PROVE SyslogInv'
  OBVIOUS
<1> USE SyslogAssumption DEF WriteInstall, SyslogInv, closeVars, udp, history
<1>1. ~Quiet /\ Quiet'
  BY DEF Quiet
<1>2. TypeOK'
  BY DEF TypeOK
<1>3. PhaseInv' /\ OpenInv'
  BY <1>1 DEF PhaseInv, OpenInv
<1>4. NewcomerInv'
  <2>1. accepted # NoPeer => protocol = "tcp"
    BY DEF PhaseInv, TypeOK, Loops
  <2> QED BY <1>1, <2>1 DEF NewcomerInv
<1>5. \A q \in Peers : ServedSince(q) => ServedSince(q)'
  BY DEF ServedSince
<1>6. ListedInv' /\ ClientInv'
  BY <1>1, <1>5 DEF ListedInv, Kept, ClientInv, TypeOK
<1> QED BY <1>2, <1>3, <1>4, <1>6

(* Close cancels and closes the socket.                                    *)
LEMMA CloseSyslogInv ==
  ASSUME SyslogInv, CloseCancel \/ CloseSocket
  PROVE  SyslogInv'
<1> USE DEF CloseCancel, CloseSocket, SyslogInv, udp, history
<1>1. Quiet /\ Quiet'
  BY DEF Quiet
<1>2. TypeOK'
  BY DEF TypeOK
<1>3. PhaseInv' /\ OpenInv' /\ NewcomerInv'
  BY <1>1 DEF PhaseInv, OpenInv, NewcomerInv
<1>4. \A q \in Peers : ServedSince(q) => ServedSince(q)'
  BY DEF ServedSince
<1>5. ListedInv' /\ ClientInv'
  BY <1>1, <1>4 DEF ListedInv, Kept, ClientInv, TypeOK
<1> QED BY <1>2, <1>3, <1>5

(* When the loops are gone Close leaves no listed connection open.         *)
LEMMA CloseConnectionsSyslogInv == SyslogInv /\ CloseConnections => SyslogInv'
<1> SUFFICES ASSUME SyslogInv, CloseConnections PROVE SyslogInv'
  OBVIOUS
<1> USE DEF CloseConnections, SyslogInv, closeVars, udp, history
<1>1. Quiet /\ Quiet' /\ accepted = NoPeer
  BY DEF Quiet, PhaseInv
<1>2. TypeOK'
  BY DEF TypeOK
<1>3. PhaseInv' /\ OpenInv' /\ NewcomerInv'
  BY <1>1 DEF PhaseInv, OpenInv, NewcomerInv
<1>4. \A q \in Peers : ServedSince(q) => ServedSince(q)'
  BY DEF ServedSince
<1>5. ListedInv' /\ ClientInv'
  BY <1>1, <1>4 DEF ListedInv, Kept, ClientInv, TypeOK
<1> QED BY <1>2, <1>3, <1>5
-----------------------------------------------------------------------------
(* The invariant holds in every reachable state.                           *)
THEOREM SyslogInvariant == Spec => []SyslogInv
<1>1. Init => SyslogInv
  BY InitSyslogInv
<1>2. SyslogInv /\ [Next]_vars => SyslogInv'
  <2> SUFFICES ASSUME SyslogInv, [Next]_vars PROVE SyslogInv'
    OBVIOUS
  <2>1. CASE Background
    BY <2>1, AcceptSyslogInv, RegisterSyslogInv, AddSyslogInv, ExitSyslogInv,
       CleanupSyslogInv
    DEF Background
  <2>2. CASE WriteUnencodable \/ WriteSnapshot
    BY <2>2, UnencodableSyslogInv, SnapshotSyslogInv
  <2>3. CASE WriteStep
    BY <2>3, InstallSyslogInv, SendOkSyslogInv, SendErrorSyslogInv
    DEF WriteStep
  <2>4. CASE CloseCancel \/ CloseSocket \/ CloseConnections
    BY <2>4, CloseSyslogInv, CloseConnectionsSyslogInv
  <2>5. CASE UNCHANGED vars
    BY <2>5
    DEF vars, writerVars, closeVars, udp, history, SyslogInv, TypeOK,
        PhaseInv, OpenInv, NewcomerInv, ListedInv, Kept, ClientInv,
        ServedSince, Quiet
  <2> QED BY <2>1, <2>2, <2>3, <2>4, <2>5 DEF Next
<1> QED BY <1>1, <1>2, PTL DEF Spec

(* Every variable keeps its type; a registered address is never too old.   *)
THEOREM SyslogTypesHold == Spec => []TypeOK
<1>1. SyslogInv => TypeOK
  BY DEF SyslogInv
<1> QED BY <1>1, SyslogInvariant, PTL

(* Write, which holds no mutex while it sends, never sends to a connection *)
(* that the server itself has closed.                                      *)
THEOREM NoWriteToClosedHolds == Spec => []NoWriteToClosed
<1>1. SyslogInv => NoWriteToClosed
  BY DEF SyslogInv, PhaseInv, OpenInv, NoWriteToClosed, Quiet
<1> QED BY <1>1, SyslogInvariant, PTL

(* Replacing the list by the survivors forgets no connection that was      *)
(* added between two writes: it gets every later message.                  *)
THEOREM ServedOnceListedHolds == Spec => []ServedOnceListed
<1>1. SyslogInv => ServedOnceListed
  BY DEF SyslogInv, PhaseInv, ListedInv, Kept, ServedOnceListed, Quiet
<1> QED BY <1>1, SyslogInvariant, PTL

(* The register and cleanup loops never forget an address that was seen    *)
(* within the time to live, and it gets every message that can be sent.    *)
THEOREM FreshClientsServedHolds == Spec => []FreshClientsServed
<1>1. SyslogInv => FreshClientsServed
  BY DEF SyslogInv, ClientInv, FreshClientsServed
<1> QED BY <1>1, SyslogInvariant, PTL
=============================================================================
