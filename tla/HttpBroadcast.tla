--------------------------- MODULE HttpBroadcast ---------------------------
(***************************************************************************)
(* The streaming HTTP endpoint of                                          *)
(* runtime-go/internal/server/http_server.go, driven by the one goroutine  *)
(* of RuntimeServer.RunWithContext: it writes the events of the plan one   *)
(* after the other and closes the endpoint when a signal arrives.          *)
(*                                                                         *)
(* Each connection is served by a goroutine running handleEvents: under    *)
(* the mutex it copies the replay buffer and registers a channel, writes   *)
(* the copy to its client, then whatever arrives on the channel.  Write    *)
(* appends to the replay buffer and copies the list of channels under the  *)
(* same mutex, and sends to them after releasing it.                       *)
(***************************************************************************)
EXTENDS Integers, Sequences, FiniteSets, Functions, SequencesExt

CONSTANTS
    NumEvents,     \* the plan is 1..NumEvents, in order
    Clients,       \* connections, each served by one handler
    ReplaySize,    \* httpReplayBuffer
    ChannelSize    \* httpChannelBuffer

ASSUME BroadcastAssumption ==
    /\ NumEvents \in Nat
    /\ IsFiniteSet(Clients)
    /\ ReplaySize \in Nat \ {0}
    /\ ChannelSize \in Nat \ {0}

Plan == 1..NumEvents

VARIABLES
    next,          \* the next event of the plan
    spc,           \* where the server goroutine is
    todo,          \* the copied channels the current event is still due on
    sent,          \* to how many channels it went
    emitted, failed,   \* EndpointStats
    ctxDone,       \* s.ctx is cancelled
    buffer,        \* the replay buffer
    subs,          \* s.subs, the registered channels, named by their client
    channel,       \* what each channel holds
    shut,          \* the channels that Close has closed
    hpc,           \* where each handler is
    replay,        \* what each handler has left of its copy of the buffer
    hungUp,        \* clients whose request context is done
    seen,          \* what each client was sent
    lost,          \* history: events dropped for a slow client
    broadcast,     \* history: the events that reached the buffer
    joined         \* history: Len(broadcast) when each client registered

serverVars  == <<next, spc, todo, sent, emitted, failed, ctxDone>>
handlerVars == <<hpc, replay, seen>>
vars == <<serverVars, buffer, subs, channel, shut, handlerVars, hungUp,
          lost, broadcast, joined>>

\* Mutated LastOf: keeps one element too many.
LastOfOneMore(s, n) == SubSeq(s, IF Len(s) > n THEN Len(s) - n ELSE 1, Len(s))

LastOf(s, n) == SubSeq(s, IF Len(s) > n THEN Len(s) - n + 1 ELSE 1, Len(s))

Init ==
    /\ next = 1
    /\ spc = "loop"
    /\ todo = <<>>
    /\ sent = 0
    /\ emitted = 0 /\ failed = 0
    /\ ctxDone = FALSE
    /\ buffer = <<>>
    /\ subs = <<>>
    /\ channel = [c \in Clients |-> <<>>]
    /\ shut = {}
    /\ hpc = [c \in Clients |-> "absent"]
    /\ replay = [c \in Clients |-> <<>>]
    /\ hungUp = {}
    /\ seen = [c \in Clients |-> <<>>]
    /\ lost = [c \in Clients |-> {}]
    /\ broadcast = <<>>
    /\ joined = [c \in Clients |-> 0]
-----------------------------------------------------------------------------
(* Write of an event that cannot be encoded.                               *)
WriteUnencodable ==
    /\ spc = "loop"
    /\ next <= NumEvents
    /\ failed' = failed + 1
    /\ next' = next + 1
    /\ UNCHANGED <<spc, todo, sent, emitted, ctxDone, buffer, subs, channel,
                   shut, handlerVars, hungUp, lost, broadcast, joined>>

(* Write, the part under the mutex.  Without a client it ends here.        *)
WriteRetain ==
    /\ spc = "loop"
    /\ next <= NumEvents
    /\ buffer' = LastOf(Append(buffer, next), ReplaySize)
    /\ broadcast' = Append(broadcast, next)
    /\ IF subs = <<>>
       THEN next' = next + 1 /\ UNCHANGED <<spc, todo, sent>>
       ELSE spc' = "send" /\ todo' = subs /\ sent' = 0 /\ UNCHANGED next
    /\ UNCHANGED <<emitted, failed, ctxDone, subs, channel, shut,
                   handlerVars, hungUp, lost, joined>>

(* Write, the part after it: a channel with room takes the event.          *)
WriteSend ==
    /\ spc = "send"
    /\ todo # <<>>
    /\ Len(channel[Head(todo)]) < ChannelSize
    /\ channel' = [channel EXCEPT ![Head(todo)] = Append(@, next)]
    /\ sent' = sent + 1
    /\ todo' = Tail(todo)
    /\ UNCHANGED <<next, spc, emitted, failed, ctxDone, buffer, subs, shut,
                   handlerVars, hungUp, lost, broadcast, joined>>

\* Mutated WriteTimeout: only a client that hung up is given up on.
WriteTimeoutHungUp ==
    /\ spc = "send"
    /\ todo # <<>>
    /\ Len(channel[Head(todo)]) = ChannelSize
    /\ Head(todo) \in hungUp
    /\ lost' = [lost EXCEPT ![Head(todo)] = @ \cup {next}]
    /\ todo' = Tail(todo)
    /\ UNCHANGED <<next, spc, sent, emitted, failed, ctxDone, buffer, subs,
                   channel, shut, handlerVars, hungUp, broadcast, joined>>

(* A channel that stays full for httpWriteTimeout misses it.               *)
WriteTimeout ==
    /\ spc = "send"
    /\ todo # <<>>
    /\ Len(channel[Head(todo)]) = ChannelSize
    /\ lost' = [lost EXCEPT ![Head(todo)] = @ \cup {next}]
    /\ todo' = Tail(todo)
    /\ UNCHANGED <<next, spc, sent, emitted, failed, ctxDone, buffer, subs,
                   channel, shut, handlerVars, hungUp, broadcast, joined>>

WriteReturn ==
    /\ spc = "send"
    /\ todo = <<>>
    /\ IF sent > 0 THEN emitted' = emitted + 1 /\ UNCHANGED failed
                   ELSE failed' = failed + 1 /\ UNCHANGED emitted
    /\ next' = next + 1
    /\ spc' = "loop"
    /\ UNCHANGED <<todo, sent, ctxDone, buffer, subs, channel, shut,
                   handlerVars, hungUp, lost, broadcast, joined>>

(* A signal ends the loop between two events, or the wait after it.  Close *)
(* cancels the context, ...                                                *)
CloseCancel ==
    /\ spc = "loop"
    /\ spc' = "cancelled"
    /\ ctxDone' = TRUE
    /\ UNCHANGED <<next, todo, sent, emitted, failed, buffer, subs, channel,
                   shut, handlerVars, hungUp, lost, broadcast, joined>>

(* ... shuts the listener and breaks every connection, ...                 *)
CloseListener ==
    /\ spc = "cancelled"
    /\ spc' = "deaf"
    /\ hungUp' = Clients
    /\ UNCHANGED <<next, todo, sent, emitted, failed, ctxDone, buffer, subs,
                   channel, shut, handlerVars, lost, broadcast, joined>>

(* ... and then closes the channels.                                       *)
CloseChannels ==
    /\ spc = "deaf"
    /\ spc' = "closed"
    /\ shut' = Range(subs)
    /\ subs' = <<>>
    /\ UNCHANGED <<next, todo, sent, emitted, failed, ctxDone, buffer,
                   channel, handlerVars, hungUp, lost, broadcast, joined>>

WriteStep == WriteSend \/ WriteTimeout \/ WriteReturn
-----------------------------------------------------------------------------
(* A GET request arrives and its handler starts.                           *)
Connect(c) ==
    /\ hpc[c] = "absent"
    /\ spc \notin {"deaf", "closed"}
    /\ hpc' = [hpc EXCEPT ![c] = "started"]
    /\ UNCHANGED <<serverVars, buffer, subs, channel, shut, replay, seen,
                   hungUp, lost, broadcast, joined>>

\* Mutated Register: registers first and copies the buffer in a second
\* critical section.
RegisterThenCopy(c) ==
    /\ hpc[c] = "started"
    /\ IF c \in Range(subs)
       THEN /\ hpc' = [hpc EXCEPT ![c] = "streaming"]
            /\ replay' = [replay EXCEPT ![c] = buffer]
            /\ UNCHANGED <<subs, joined>>
       ELSE /\ subs' = Append(subs, c)
            /\ joined' = [joined EXCEPT ![c] = Len(broadcast)]
            /\ UNCHANGED <<hpc, replay>>
    /\ UNCHANGED <<serverVars, buffer, channel, shut, seen, hungUp,
                   lost, broadcast>>

(* Copy the buffer and register, in one critical section.                  *)
Register(c) ==
    /\ hpc[c] = "started"
    /\ hpc' = [hpc EXCEPT ![c] = "streaming"]
    /\ replay' = [replay EXCEPT ![c] = buffer]
    /\ subs' = Append(subs, c)
    /\ joined' = [joined EXCEPT ![c] = Len(broadcast)]
    /\ UNCHANGED <<serverVars, buffer, channel, shut, seen, hungUp,
                   lost, broadcast>>

WriteReplayed(c) ==
    /\ hpc[c] = "streaming"
    /\ replay[c] # <<>>
    /\ seen' = [seen EXCEPT ![c] = Append(@, Head(replay[c]))]
    /\ replay' = [replay EXCEPT ![c] = Tail(@)]
    /\ UNCHANGED <<serverVars, buffer, subs, channel, shut, hpc, hungUp,
                   lost, broadcast, joined>>

(* The select of the live phase picks any of its arms that is ready.       *)
WriteLive(c) ==
    /\ hpc[c] = "streaming"
    /\ replay[c] = <<>>
    /\ channel[c] # <<>>
    /\ seen' = [seen EXCEPT ![c] = Append(@, Head(channel[c]))]
    /\ channel' = [channel EXCEPT ![c] = Tail(@)]
    /\ UNCHANGED <<serverVars, buffer, subs, shut, hpc, replay, hungUp,
                   lost, broadcast, joined>>

\* Mutated StopStreaming: only a closed channel ends the live phase.
StopStreamingWhenShut(c) ==
    /\ hpc[c] = "streaming"
    /\ replay[c] = <<>>
    /\ c \in shut /\ channel[c] = <<>>
    /\ hpc' = [hpc EXCEPT ![c] = "leaving"]
    /\ UNCHANGED <<serverVars, buffer, subs, channel, shut, replay, seen,
                   hungUp, lost, broadcast, joined>>

StopStreaming(c) ==
    /\ hpc[c] = "streaming"
    /\ replay[c] = <<>>
    /\ \/ ctxDone
       \/ c \in hungUp
       \/ c \in shut /\ channel[c] = <<>>
    /\ hpc' = [hpc EXCEPT ![c] = "leaving"]
    /\ UNCHANGED <<serverVars, buffer, subs, channel, shut, replay, seen,
                   hungUp, lost, broadcast, joined>>

\* Mutated Unregister: removes the channel that was registered last.
UnregisterLast(c) ==
    /\ hpc[c] = "leaving"
    /\ hpc' = [hpc EXCEPT ![c] = "gone"]
    /\ subs' = IF subs = <<>> THEN subs ELSE Front(subs)
    /\ UNCHANGED <<serverVars, buffer, channel, shut, replay, seen, hungUp,
                   lost, broadcast, joined>>

(* The deferred unregistration.                                            *)
Unregister(c) ==
    /\ hpc[c] = "leaving"
    /\ hpc' = [hpc EXCEPT ![c] = "gone"]
    /\ IF c \in Range(subs)
       THEN \E i \in DOMAIN subs : subs[i] = c /\ subs' = RemoveAt(subs, i)
       ELSE UNCHANGED subs
    /\ UNCHANGED <<serverVars, buffer, channel, shut, replay, seen, hungUp,
                   lost, broadcast, joined>>

Handler(c) ==
    \/ Register(c)
    \/ WriteReplayed(c)
    \/ WriteLive(c)
    \/ StopStreaming(c)
    \/ Unregister(c)

(* The client goes away: its request context is cancelled.                 *)
HangUp(c) ==
    /\ hpc[c] \in {"started", "streaming"}
    /\ c \notin hungUp
    /\ hungUp' = hungUp \cup {c}
    /\ UNCHANGED <<serverVars, buffer, subs, channel, shut, handlerVars,
                   lost, broadcast, joined>>

Next ==
    \/ WriteUnencodable \/ WriteRetain \/ WriteStep
    \/ CloseCancel \/ CloseListener \/ CloseChannels
    \/ \E c \in Clients : Connect(c) \/ Handler(c) \/ HangUp(c)

Spec == Init /\ [][Next]_vars

(* The sending loop runs, its timeout elapses, and a Close that has begun  *)
(* goes on.  A handler may be stuck for as long as its client does not     *)
(* read, but not once the connection is broken.  Signals, requests and     *)
(* clients that hang up need never come.                                   *)
FairSpec ==
    /\ Spec
    /\ WF_vars(WriteStep)
    /\ WF_vars(CloseListener \/ CloseChannels)
    /\ \A c \in Clients : WF_vars(c \in hungUp /\ Handler(c))
-----------------------------------------------------------------------------
(* Every variable has its type; buffer and channels keep their bounds.     *)
TypeOK ==
    /\ next \in 1..(NumEvents + 1)
    /\ spc \in {"loop", "send", "cancelled", "deaf", "closed"}
    /\ todo \in Seq(Clients) /\ subs \in Seq(Clients)
    /\ sent \in Nat /\ emitted \in Nat /\ failed \in Nat
    /\ ctxDone \in BOOLEAN
    /\ buffer \in Seq(Plan) /\ Len(buffer) <= ReplaySize
    /\ \A c \in Clients :
           channel[c] \in Seq(Plan) /\ Len(channel[c]) <= ChannelSize
    /\ shut \subseteq Clients /\ hungUp \subseteq Clients
    /\ hpc \in [Clients ->
                {"absent", "started", "streaming", "leaving", "gone"}]
    /\ replay \in [Clients -> Seq(Plan)] /\ seen \in [Clients -> Seq(Plan)]
    /\ lost \in [Clients -> SUBSET Plan]
    /\ broadcast \in Seq(Plan)
    /\ joined \in [Clients -> 0..NumEvents]

(* What client c has been sent, followed by what is on its way to it.      *)
Due(c) == IF \E i \in DOMAIN todo : todo[i] = c THEN <<next>> ELSE <<>>
Stream(c) == seen[c] \o replay[c] \o channel[c] \o Due(c)

(* A client sees no event twice and none out of plan order, not even where *)
(* the replayed events meet those that are written meanwhile.              *)
InOrderOnce ==
    \A c \in Clients : \A i, j \in DOMAIN Stream(c) :
        i < j => Stream(c)[i] < Stream(c)[j]

(* From the last ReplaySize events before it registered on, a connected    *)
(* client misses only what was dropped because its channel stayed full.    *)
NothingSilentlyMissed ==
    \A c \in Clients : hpc[c] = "streaming" /\ ~ctxDone =>
        \A i \in DOMAIN broadcast :
            i > joined[c] - ReplaySize =>
                broadcast[i] \in Range(Stream(c)) \cup lost[c]

(* A client that does not read delays a Write by its timeouts only.        *)
WritesReturn == spc = "send" ~> spc = "loop"

(* Close leaves no handler behind, not even one that had not yet           *)
(* registered when the channels were closed.                               *)
HandlersExit ==
    spc = "closed" ~> \A c \in Clients : hpc[c] \in {"absent", "gone"}
=============================================================================
