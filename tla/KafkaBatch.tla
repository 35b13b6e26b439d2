---------------------------- MODULE KafkaBatch ----------------------------
(***************************************************************************)
(* The batching Kafka sink of runtime-go/internal/sinks/kafka/batch.go.    *)
(*                                                                         *)
(* Write appends to a buffer and sends it when it is full; the first       *)
(* message of a buffer arms a timer whose callback sends a partial one;    *)
(* Flush and Close send what is left.  All of them run under one mutex,    *)
(* which is held while a batch is sent and retried.  A timer that fires    *)
(* while the mutex is taken leaves a callback waiting for it, and stopping *)
(* such a timer does not call the callback off.                            *)
(*                                                                         *)
(* The failed counter is also incremented where an event cannot be         *)
(* encoded, outside the mutex: reading and storing it are separate steps.  *)
(***************************************************************************)
EXTENDS Integers, Sequences, FiniteSets, Functions

CONSTANTS
    Events,        \* the events that may be written
    Writers,       \* the goroutines that call Write
    BatchSize, Retries,
    ClientAttempts, \* how often the Kafka client tries a message in one call
    MaxUnencodable \* bound: how many events fail to encode

(* config.Validate wants a positive batch size and retries >= 0; the sink  *)
(* is built for batch sizes above one only.  The client's own attempts are *)
(* not configured, so that its default (more than one) is in force.        *)
ASSUME BatchAssumption ==
    /\ BatchSize \in Nat /\ BatchSize > 1
    /\ Retries \in Nat
    /\ ClientAttempts \in Nat \ {0}
    /\ MaxUnencodable \in Nat
    /\ IsFiniteSet(Events)

VARIABLES
    buffer,        \* s.buffer
    closed,        \* s.closed
    timer,         \* s.timer: nil, armed, fired with its callback waiting,
                   \* or spent (its callback has run)
    stale,         \* callbacks waiting whose timer has been replaced
    mu,            \* "free", or what holds the mutex while it sends a batch
    flight,        \* msgs, the batch being sent
    attempt,       \* attempts that have failed for it
    count,         \* s.count
    failed,        \* s.failed
    read,          \* the value of s.failed that a goroutine is incrementing
    written,       \* history: events accepted into the buffer
    acked,         \* history: events of batches that were acknowledged
    dropped,       \* history: events of batches that were given up
    unencodable,   \* history: number of events that could not be encoded
    copies         \* how often the brokers store each event: see Store

sending == <<mu, flight, attempt>>
history == <<written, acked, dropped, unencodable>>
vars == <<buffer, closed, timer, stale, sending, count, failed, read,
                   history, copies>>

NotReading == -1
Sender     == "sender"     \* whoever holds the mutex, as a reader of failed

(* The name of the holder of the mutex is not that of a goroutine.         *)
ASSUME SenderAssumption == Sender \notin Writers

Init ==
    /\ buffer = <<>>
    /\ closed = FALSE
    /\ timer = "nil"
    /\ stale = 0
    /\ mu = "free"
    /\ flight = <<>>
    /\ attempt = 0
    /\ count = 0
    /\ failed = 0
    /\ read = [w \in Writers \cup {Sender} |-> NotReading]
    /\ written = {} /\ acked = {} /\ dropped = {}
    /\ unencodable = 0
    /\ copies = [e \in Events |-> 0]
-----------------------------------------------------------------------------
\* Mutated StopTimer: s.timer is stopped but not set to nil.
StopTimerKept(waiting) ==
    /\ timer' = "spent"
    /\ stale' = IF timer = "fired" THEN waiting + 1 ELSE waiting

(* timer.Stop; s.timer = nil.  A callback that is waiting goes on waiting. *)
StopTimer(waiting) ==
    /\ timer' = "nil"
    /\ stale' = IF timer = "fired" THEN waiting + 1 ELSE waiting

\* Mutated FlushLocked: the buffer is copied and not emptied.
FlushLockedKeeps(by, buf, waiting) ==
    IF buf = <<>>
    THEN /\ stale' = waiting
         /\ UNCHANGED <<buffer, timer, sending>>
    ELSE /\ StopTimer(waiting)
         /\ flight' = buf
         /\ buffer' = Tail(buf)
         /\ mu' = by
         /\ attempt' = 0

(* flushLocked up to the network: the buffer becomes the batch in flight.  *)
(* With an empty buffer it returns at once and leaves s.timer alone.       *)
(* "waiting" counts the stale callbacks that go on waiting.                *)
FlushLocked(by, buf, waiting) ==
    IF buf = <<>>
    THEN /\ stale' = waiting
         /\ UNCHANGED <<buffer, timer, sending>>
    ELSE /\ StopTimer(waiting)
         /\ flight' = buf
         /\ buffer' = <<>>
         /\ mu' = by
         /\ attempt' = 0

\* Mutated Write: the batch is sent when it is more than full.
WriteOverfull(w, e) ==
    /\ mu = "free"
    /\ read[w] = NotReading
    /\ e \notin written
    /\ ~closed
    /\ written' = written \cup {e}
    /\ IF Len(buffer) + 1 > BatchSize
       THEN FlushLocked("write", Append(buffer, e), stale)
       ELSE /\ buffer' = Append(buffer, e)
            /\ timer' = IF timer = "nil" THEN "armed" ELSE timer
            /\ UNCHANGED <<stale, sending>>
    /\ UNCHANGED <<closed, count, failed, read,
                   acked, dropped, unencodable, copies>>

(* Write of an event that encodes; a closed sink returns an error instead  *)
(* and changes nothing.                                                    *)
Write(w, e) ==
    /\ mu = "free"
    /\ read[w] = NotReading
    /\ e \notin written
    /\ ~closed
    /\ written' = written \cup {e}
    /\ IF Len(buffer) + 1 >= BatchSize
       THEN FlushLocked("write", Append(buffer, e), stale)
       ELSE /\ buffer' = Append(buffer, e)
            /\ timer' = IF timer = "nil" THEN "armed" ELSE timer
            /\ UNCHANGED <<stale, sending>>
    /\ UNCHANGED <<closed, count, failed, read,
                   acked, dropped, unencodable, copies>>

(* Write of an event that does not: s.failed++ without the mutex.          *)
EncodeErrorLoad(w) ==
    /\ read[w] = NotReading
    /\ unencodable < MaxUnencodable
    /\ unencodable' = unencodable + 1
    /\ read' = [read EXCEPT ![w] = failed]
    /\ UNCHANGED <<buffer, closed, timer, stale, sending, count, failed,
                   written, acked, dropped, copies>>

EncodeErrorStore(w) ==
    /\ read[w] # NotReading
    /\ failed' = read[w] + 1
    /\ read' = [read EXCEPT ![w] = NotReading]
    /\ UNCHANGED <<buffer, closed, timer, stale, sending, count,
                   history, copies>>

TimerFires ==
    /\ timer = "armed"
    /\ timer' = "fired"
    /\ UNCHANGED <<buffer, closed, stale, sending, count, failed, read,
                   history, copies>>

(* The callback of the current timer gets the mutex.                       *)
TimerCallback ==
    /\ mu = "free"
    /\ timer = "fired"
    /\ IF closed \/ buffer = <<>>
       THEN /\ timer' = "spent"
            /\ UNCHANGED <<buffer, stale, sending>>
       ELSE /\ timer' = "nil"
            /\ flight' = buffer
            /\ buffer' = <<>>
            /\ mu' = "timer"
            /\ attempt' = 0
            /\ UNCHANGED stale
    /\ UNCHANGED <<closed, count, failed, read, history, copies>>

(* The callback of a timer that was stopped too late.  It flushes whatever *)
(* the buffer holds by now, and stops the timer armed for that.            *)
StaleCallback ==
    /\ mu = "free"
    /\ stale > 0
    /\ IF closed
       THEN /\ stale' = stale - 1
            /\ UNCHANGED <<buffer, timer, sending>>
       ELSE FlushLocked("timer", buffer, stale - 1)
    /\ UNCHANGED <<closed, count, failed, read, history, copies>>

(* Flush, by the replay loop or by the pool's Close.                       *)
Flush ==
    /\ mu = "free"
    /\ FlushLocked("flush", buffer, stale)
    /\ UNCHANGED <<closed, count, failed, read, history, copies>>

(* Close stops the timer even when there is nothing to flush; the writer   *)
(* is closed after the mutex is released.                                  *)
Close ==
    /\ mu = "free"
    /\ ~closed
    /\ closed' = TRUE
    /\ StopTimer(stale)
    /\ IF buffer = <<>>
       THEN UNCHANGED <<buffer, sending>>
       ELSE /\ flight' = buffer
            /\ buffer' = <<>>
            /\ mu' = "close"
            /\ attempt' = 0
    /\ UNCHANGED <<count, failed, read, history, copies>>
-----------------------------------------------------------------------------
InFlight == Range(flight)

(* One call of WriteMessages stores k[e] copies of event e of the batch.   *)
(* The client tries each message up to ClientAttempts times and an attempt *)
(* it takes for failed may have stored it all the same.  When the context  *)
(* expires the call returns before its attempts are over; what they store  *)
(* later is counted here with the call they belong to, because nothing the *)
(* sink does depends on when it arrives.                                   *)
Store(k) ==
    copies' = [e \in Events |-> copies[e] + (IF e \in InFlight THEN k[e] ELSE 0)]

Unlock == mu' = "free" /\ flight' = <<>> /\ attempt' = 0

(* WriteMessages succeeds: each message of the batch is stored, once or    *)
(* more often.                                                             *)
SendOk ==
    /\ mu # "free"
    /\ read[Sender] = NotReading
    /\ \E k \in [InFlight -> 1..ClientAttempts] : Store(k)
    /\ count' = count + Len(flight)
    /\ acked' = acked \cup InFlight
    /\ Unlock
    /\ UNCHANGED <<buffer, closed, timer, stale, failed, read,
                   written, dropped, unencodable>>

\* Mutated SendError: one retry too many.
SendErrorOneMore ==
    /\ mu # "free"
    /\ read[Sender] = NotReading
    /\ \E k \in [InFlight -> 0..ClientAttempts] : Store(k)
    /\ IF attempt <= Retries
       THEN attempt' = attempt + 1 /\ UNCHANGED read
       ELSE UNCHANGED attempt /\ read' = [read EXCEPT ![Sender] = failed]
    /\ UNCHANGED <<buffer, closed, timer, stale, mu, flight, count, failed,
                   history>>

\* Mutated SendError: every failed attempt counts the batch as failed.
SendErrorCounts ==
    /\ mu # "free"
    /\ read[Sender] = NotReading
    /\ failed' = failed + Len(flight)
    /\ IF attempt < Retries
       THEN attempt' = attempt + 1 /\ UNCHANGED read
       ELSE UNCHANGED attempt /\ read' = [read EXCEPT ![Sender] = failed]
    /\ UNCHANGED <<buffer, closed, timer, stale, mu, flight, count,
                   history, copies>>

\* Mutated SendError: after the last attempt the batch starts over.
SendErrorStartsOver ==
    /\ mu # "free"
    /\ read[Sender] = NotReading
    /\ attempt' = IF attempt < Retries THEN attempt + 1 ELSE 0
    /\ UNCHANGED <<buffer, closed, timer, stale, mu, flight, count, failed,
                   read, history, copies>>

(* WriteMessages fails, whatever it has stored or will have stored of the  *)
(* batch, and the whole batch is sent again or given up.                   *)
SendError ==
    /\ mu # "free"
    /\ read[Sender] = NotReading
    /\ \E k \in [InFlight -> 0..ClientAttempts] : Store(k)
    /\ IF attempt < Retries
       THEN attempt' = attempt + 1 /\ UNCHANGED read
       ELSE UNCHANGED attempt /\ read' = [read EXCEPT ![Sender] = failed]
    /\ UNCHANGED <<buffer, closed, timer, stale, mu, flight, count, failed,
                   history>>

GiveUp ==
    /\ read[Sender] # NotReading
    /\ failed' = read[Sender] + Len(flight)
    /\ read' = [read EXCEPT ![Sender] = NotReading]
    /\ dropped' = dropped \cup InFlight
    /\ Unlock
    /\ UNCHANGED <<buffer, closed, timer, stale, count,
                   written, acked, unencodable, copies>>

Send == SendOk \/ SendError \/ GiveUp

Next ==
    \/ \E w \in Writers, e \in Events : Write(w, e)
    \/ \E w \in Writers : EncodeErrorLoad(w) \/ EncodeErrorStore(w)
    \/ TimerFires \/ TimerCallback \/ StaleCallback
    \/ Flush \/ Close
    \/ Send

Spec == Init /\ [][Next]_vars

(* Timers fire and their callbacks get the mutex in the end; a send ends   *)
(* because its context has a deadline.  Nothing obliges anyone to write,   *)
(* to flush or to close.                                                   *)
FairSpec ==
    /\ Spec
    /\ WF_vars(TimerFires)
    /\ SF_vars(TimerCallback)
    /\ SF_vars(StaleCallback)
    /\ WF_vars(Send)
-----------------------------------------------------------------------------
(* Every variable has its type; a partial batch is never a full one.       *)
TypeOK ==
    /\ buffer \in Seq(Events)
    /\ Len(buffer) < BatchSize
    /\ flight \in Seq(Events)
    /\ Len(flight) <= BatchSize
    /\ closed \in BOOLEAN
    /\ timer \in {"nil", "armed", "fired", "spent"}
    /\ stale \in Nat
    /\ mu \in {"free", "write", "timer", "flush", "close"}
    /\ attempt \in 0..Retries
    /\ count \in Nat /\ failed \in Nat /\ unencodable \in Nat
    /\ read \in [Writers \cup {Sender} -> Nat \cup {NotReading}]
    /\ written \subseteq Events
    /\ acked \subseteq written
    /\ dropped \subseteq written
    /\ copies \in [Events -> Nat]

(* An accepted event is in exactly one place: in the buffer, in the batch  *)
(* being sent, acknowledged, or given up.                                  *)
OnePlace ==
    /\ written = Range(buffer) \cup InFlight \cup acked \cup dropped
    /\ Cardinality(written) = Len(buffer) + Len(flight)
                              + Cardinality(acked) + Cardinality(dropped)

(* A buffered event is never left without something that will flush it:    *)
(* the sink is open and a timer is running or has its callback waiting.    *)
NeverStranded == buffer # <<>> => ~closed /\ timer \in {"armed", "fired"}

(* At least once, and a bounded number of times: what the sink counts as   *)
(* written is stored; no event is stored more often than the client tries  *)
(* it in the calls of a first attempt and its retries, the copies that     *)
(* arrive after a call has returned included.                              *)
StoredAtLeastOnce ==
    /\ \A e \in acked : copies[e] >= 1
    /\ \A e \in Events : copies[e] <= ClientAttempts * (Retries + 1)

(* The counters: successes are exact, because they are counted under the   *)
(* mutex; the racy failed counter may lose increments but never invents    *)
(* one.                                                                    *)
HonestCounters ==
    /\ count = Cardinality(acked)
    /\ failed <= Cardinality(dropped) + unencodable

(* Every accepted event is acknowledged or given up in the end, though     *)
(* nobody may ever write, flush or close again.                            *)
EveryEventSettles ==
    \A e \in Events : e \in written ~> e \in acked \cup dropped
=============================================================================
