----------------------------- MODULE LocalRuntime -----------------------------
(***************************************************************************)
(* The commands that send an event plan somewhere: eventweave run, which   *)
(* is LocalRuntime of eventweave/runtime/local.py with its sinks, and      *)
(* encode run, encode preflight and export.  An event is a record          *)
(* [id, type, time, attributes, refs]; of its attributes only the names    *)
(* matter, for an encoder fails when one that it requires is missing.      *)
(*                                                                         *)
(* The http sink posts an event until it is accepted, refused for good, or *)
(* out of retries, and counts a failure; the file and stdout sinks raise   *)
(* when an event cannot be encoded, and the http sink on an answer that is *)
(* no HTTP, which ends the run after close.                                *)
(*                                                                         *)
(* received is what has reached the other side of the sink: posts, each    *)
(* with the answer that the sink saw, or lines, whose answer is "ok".  An  *)
(* endpoint may have processed any of them, whatever it answered.          *)
(*                                                                         *)
(* Waiting for the time of an event (RuntimeClock) delays the loop and     *)
(* changes no other state: it is left out.  flush does nothing that close  *)
(* does not do.                                                            *)
(***************************************************************************)
EXTENDS Semantic

CONSTANTS
    Retries,           \* --retries
    MaxRetryDuration,  \* --max-retry-duration, in seconds
    BackoffFactor,     \* --backoff-factor
    Timeout,           \* --timeout: the longest time an answer takes
    Required,          \* the attributes that the encoder requires
    Mappings,          \* of its enrichment profile: <<target, source>>, a
                       \* sequence
    Defaults           \* the attributes that the profile has defaults for

ASSUME RetryAssumption ==
    /\ Retries \in Nat /\ MaxRetryDuration \in Nat
    /\ BackoffFactor \in Nat /\ Timeout \in Nat

VARIABLES
    running,    \* "no", "write", "post", "finished" or "aborted"
    sink,       \* [kind, encode, enrich, skip]: kind is "export" for encode
                \* run and export; whether there is an encoder, --enrich
                \* and --skip-failed
    todo,       \* the events, for run sorted and cut at --limit
    emitted,    \* the events that the loop has passed, stats.emitted
    written,    \* sink.count()
    failed,     \* sink.failed()
    unresolved, \* stats.unresolved_refs
    opened,     \* sink.open was called, and sink.close was not
    attempt,    \* HTTPSink.write: retries so far
    elapsed,    \* seconds since start_time of HTTPSink.write
    received    \* [id, answer]: "ok" for 2xx, "429", "5xx", "other" for any
                \* other status, "none" when no answer came

runVars == <<running, sink, todo, emitted, written, failed, unresolved, opened,
             attempt, elapsed, received>>

NoSink == [kind |-> None, encode |-> FALSE, enrich |-> FALSE, skip |-> FALSE]

RunInit ==
    /\ running = "no" /\ sink = NoSink /\ todo = <<>>
    /\ emitted = 0 /\ written = 0 /\ failed = 0 /\ unresolved = 0
    /\ opened = FALSE /\ attempt = 0 /\ elapsed = 0 /\ received = <<>>

Before(a, b) == a.time < b.time \/ (a.time = b.time /\ a.id < b.id)

SortEvents(events) ==
    LET Pairs == (DOMAIN events) \X (DOMAIN events)
        order == Ranked(DOMAIN events,
                        {p \in Pairs : Before(events[p[1]], events[p[2]])})
    IN  [k \in DOMAIN events |-> events[order[k]]]

Limited(events, limit) ==
    IF limit = None THEN events
    ELSE SubSeq(events, 1, Min({limit, Len(events)}))

(* Events with references that are still semantic:// placeholders.         *)
Unresolved(events) ==
    Cardinality({i \in DOMAIN events :
        \E ref \in Range(events[i].refs) : IsPlaceholder(ref)})

(* enrich_event: a mapping may use what an earlier one has added.          *)
Enriched(attributes) ==
    FoldLeft(LAMBDA known, m : IF m[2] \in known THEN known \cup {m[1]}
                               ELSE known,
             attributes, Mappings)
    \cup Defaults

CanEncode(e, enrich) ==
    Required \subseteq IF enrich THEN Enriched(e.attributes) ELSE e.attributes

(* encode preflight: how many events can be encoded.                       *)
Preflight(events, enrich) ==
    Cardinality({i \in DOMAIN events : CanEncode(events[i], enrich)})

(* Without events, the run is over before the sink is opened.              *)
StartRun(plan, s, limit) ==
    LET events == Limited(SortEvents(plan), limit) IN
    /\ running = "no"
    /\ todo' = events
    /\ sink' = s
    /\ unresolved' = Unresolved(events)
    /\ running' = IF events = <<>> THEN "finished" ELSE "write"
    /\ opened' = (events # <<>>)
    /\ UNCHANGED <<emitted, written, failed, attempt, elapsed, received>>

(* encode run and export take the lines as they come.                      *)
StartExport(plan, s) ==
    /\ running = "no"
    /\ todo' = plan
    /\ sink' = s
    /\ running' = "write"
    /\ opened' = TRUE
    /\ UNCHANGED <<emitted, written, failed, unresolved, attempt, elapsed,
                   received>>

Event   == todo[emitted + 1]
Encodes == ~sink.encode \/ CanEncode(Event, sink.enrich)
Looping == running = "write" /\ emitted < Len(todo)
Arrives(answer) ==
    received' = Append(received, [id |-> Event.id, answer |-> answer])
SameRun == UNCHANGED <<sink, todo, unresolved>>

WriteNull ==
    /\ Looping /\ sink.kind = "null"
    /\ written' = written + 1
    /\ emitted' = emitted + 1
    /\ SameRun
    /\ UNCHANGED <<running, failed, opened, attempt, elapsed, received>>

(* FileSink, StdoutSink and the output of encode run and export.           *)
WriteLine ==
    /\ Looping /\ sink.kind \in {"file", "stdout", "export"}
    /\ Encodes
    /\ Arrives("ok")
    /\ written' = written + 1
    /\ emitted' = emitted + 1
    /\ SameRun /\ UNCHANGED <<running, failed, opened, attempt, elapsed>>

(* An encoder's failure; that of the http sink is in PostRaises.           *)
WriteRaises ==
    /\ Looping /\ sink.kind \in {"file", "stdout", "export"}
    /\ ~sink.skip
    /\ ~Encodes
    /\ failed' = failed + 1
    /\ opened' = FALSE
    /\ running' = "aborted"
    /\ SameRun /\ UNCHANGED <<emitted, written, attempt, elapsed, received>>

(* The http sink goes on without the event, and so does --skip-failed.     *)
WriteUnencodable ==
    /\ Looping /\ (sink.kind = "http" \/ sink.skip)
    /\ ~Encodes
    /\ failed' = failed + 1
    /\ emitted' = emitted + 1
    /\ SameRun
    /\ UNCHANGED <<running, written, opened, attempt, elapsed, received>>

(* HTTPSink.write, up to the first post.                                   *)
WritePost ==
    /\ Looping /\ sink.kind = "http"
    /\ Encodes
    /\ running' = "post"
    /\ attempt' = 0 /\ elapsed' = 0
    /\ SameRun /\ UNCHANGED <<emitted, written, failed, opened, received>>

Backoff(n) == Min({BackoffFactor * 2^n, 30})

\* Mutated ShouldRetry: the duration of the retries has no limit.
ShouldRetryUntimed(n, t) == n < Retries

ShouldRetry(n, t) == n < Retries /\ t < MaxRetryDuration

(* write returns, and the loop counts the event whatever became of it.     *)
WriteReturns ==
    /\ running' = "write"
    /\ emitted' = emitted + 1
    /\ UNCHANGED <<attempt, elapsed>>

PostAccepted ==
    /\ running = "post"
    /\ Arrives("ok")
    /\ written' = written + 1
    /\ WriteReturns
    /\ SameRun /\ UNCHANGED <<failed, opened>>

(* Redirects are not followed.                                             *)
PostRefused ==
    /\ running = "post"
    /\ Arrives("other")
    /\ failed' = failed + 1
    /\ WriteReturns
    /\ SameRun /\ UNCHANGED <<written, opened>>

(* The answers after which an event may be posted again, "none" among them *)
(* for a timeout, a broken or a refused connection.                        *)
Retried == {"429", "5xx", "none"}

(* Such an answer after t seconds.  A post without an answer may have      *)
(* arrived nevertheless.                                                   *)
PostFails(t, answer) ==
    /\ running = "post"
    /\ \/ Arrives(answer)
       \/ answer = "none" /\ UNCHANGED received
    /\ LET at == elapsed + t IN
       IF ShouldRetry(attempt, at)
       THEN /\ elapsed' = at + Backoff(attempt)
            /\ attempt' = attempt + 1
            /\ UNCHANGED <<running, emitted, failed>>
       ELSE failed' = failed + 1 /\ WriteReturns
    /\ SameRun /\ UNCHANGED <<written, opened>>

(* The answer is no HTTP: an HTTPException is neither a URLError nor an    *)
(* OSError, leaves write and the loop, and the event is not counted.       *)
PostRaises ==
    /\ running = "post"
    /\ Arrives("none")
    /\ opened' = FALSE
    /\ running' = "aborted"
    /\ SameRun /\ UNCHANGED <<emitted, written, failed, attempt, elapsed>>

FinishRun ==
    /\ running = "write" /\ emitted = Len(todo)
    /\ opened' = FALSE
    /\ running' = "finished"
    /\ SameRun
    /\ UNCHANGED <<emitted, written, failed, attempt, elapsed, received>>

RunStep ==
    \/ WriteNull \/ WriteLine \/ WriteRaises
    \/ WriteUnencodable \/ WritePost
    \/ PostAccepted \/ PostRefused \/ PostRaises
    \/ \E t \in {0, Timeout}, answer \in Retried : PostFails(t, answer)
    \/ FinishRun

(* The process ends; what it held is gone.                                 *)
EndRun ==
    /\ running \in {"finished", "aborted"}
    /\ running' = "no" /\ sink' = NoSink /\ todo' = <<>>
    /\ emitted' = 0 /\ written' = 0 /\ failed' = 0 /\ unresolved' = 0
    /\ opened' = FALSE /\ attempt' = 0 /\ elapsed' = 0 /\ received' = <<>>
-----------------------------------------------------------------------------
Position(id) == CHOOSE i \in DOMAIN todo : todo[i].id = id

Ids(posts) == [i \in DOMAIN posts |-> posts[i].id]

(* Every event of a run is accounted for: whatever the answers of the      *)
(* endpoint, events arrive in the order of the plan, one again only after  *)
(* a 429, a 5xx or no answer, and at most once for each try that is        *)
(* allowed; a retry starts within --max-retry-duration of the first try,   *)
(* but for the pause before it; what counts as written has arrived and was *)
(* accepted, exactly.  A finished run has counted each event as written or *)
(* failed, and closed its sink.  An aborted one has closed it as well: a   *)
(* sink of lines has exactly those before the event that could not be      *)
(* encoded, and the http sink has counted all but the one in flight.       *)
(* What encode preflight foretells comes true: so many events are written, *)
(* and when it finds no failure none is raised.                            *)
EveryEventAccounted ==
    /\ \A i, j \in DOMAIN received : i < j =>
          LET a == received[i] b == received[j] IN
          /\ Position(a.id) <= Position(b.id)
          /\ a.id = b.id => a.answer \in Retried
    /\ \A k \in DOMAIN todo :
          Cardinality({i \in DOMAIN received : received[i].id = todo[k].id})
             <= Retries + 1
    /\ (running = "post" /\ attempt > 0) =>
          elapsed < MaxRetryDuration + Backoff(attempt - 1)
    /\ sink.kind # "null" => written =
          Cardinality({i \in DOMAIN received : received[i].answer = "ok"})
    /\ running = "finished" => written + failed = Len(todo) /\ ~opened
    /\ running = "aborted" =>
          /\ emitted < Len(todo) /\ ~opened
          /\ IF sink.kind = "http" THEN written + failed = emitted
             ELSE /\ Ids(received) = Ids(SubSeq(todo, 1, emitted))
                  /\ failed = 1
    /\ (sink.kind = "export" /\ sink.encode) =>
          LET foretold == Preflight(todo, sink.enrich) IN
          /\ running = "finished" => written = foretold
          /\ foretold = Len(todo) => running # "aborted"
=============================================================================
