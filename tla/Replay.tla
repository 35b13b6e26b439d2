------------------------------ MODULE Replay ------------------------------
(***************************************************************************)
(* LocalRuntime.RunWithContext of runtime-go/internal/runtime/runtime.go,  *)
(* run over the two kinds of sink that NewWithMode builds: a sink written  *)
(* directly by the replay loop, and a worker pool (module WorkerPool)      *)
(* around one.  The replay goroutine is the pool's only submitter and the  *)
(* one that closes it; a signal may cancel its context at any moment.      *)
(*                                                                         *)
(* A direct sink (any but the batching one of module KafkaBatch) keeps two *)
(* counters of its own and increments one of them in every Write.          *)
(***************************************************************************)
EXTENDS Integers, Sequences, FiniteSets, TLC, Functions

CONSTANTS
    Events,        \* the events of the plan
    Time,          \* the event_time of each event
    Id,            \* the event_id of each event, as a number
    Configs,       \* the configurations that are considered
    Workers, QueueSize, Policies, NoEvent

(* A configuration: is the sink wrapped in a pool, the --limit and the     *)
(* --max-failures (0 is "none"), and whether writes are paced at all.      *)
ASSUME ReplayAssumption ==
    /\ IsFiniteSet(Events)
    /\ Time \in [Events -> Nat]
    /\ Id \in [Events -> Nat]
    /\ \A d, e \in Events : Id[d] = Id[e] => d = e
    /\ Configs \subseteq [pooled : BOOLEAN, limit : Nat,
                          maxFailures : Nat, paced : BOOLEAN]

VARIABLES
    onFull, phase, jobs, spc, carried, wpc, hand, submitted, processed,
    failed, writes, refused, accepted, owed,     \* the pool
    cfg,           \* the configuration of this run
    pc,            \* where the replay goroutine is
    order,         \* the sorted and limited events
    next,          \* index in order of the event being handled
    emitted,       \* stats.Emitted
    statFailed,    \* stats.Failed
    count,         \* the direct sink's successful writes
    bad,           \* the direct sink's failed writes
    ctxDone,       \* the context has been cancelled
    late           \* history: writes begun with a cancelled context

Pool == INSTANCE WorkerPool WITH Submitters <- {"replay"}

(* What the pool asks of its parameters holds of those it is given here.   *)
ASSUME PooledAssumption == Pool!PoolAssumption /\ Pool!FiniteThreads

mainVars == <<cfg, pc, order, next, emitted, statFailed, count, bad, late>>
poolVars == <<onFull, phase, jobs, spc, carried, wpc, hand, submitted,
              processed, failed, writes, refused, accepted, owed>>
vars == <<poolVars, mainVars, ctxDone>>

PoolUnused == UNCHANGED poolVars
Current    == order[next]
Over       == pc \in {"returned", "interrupted", "error"}

Before(d, e) == Time[d] < Time[e] \/ (Time[d] = Time[e] /\ Id[d] < Id[e])

\* Mutated SortEvents: by event_id alone.
SortEventsById(S) ==
    CHOOSE f \in Bijection(1..Cardinality(S), S) :
        \A i, j \in 1..Cardinality(S) : i < j => Id[f[i]] < Id[f[j]]

(* SortEvents: by event_time, then by event_id.                            *)
SortEvents(S) ==
    CHOOSE f \in Bijection(1..Cardinality(S), S) :
        \A i, j \in 1..Cardinality(S) : i < j => Before(f[i], f[j])

Init ==
    /\ Pool!Init
    /\ cfg \in Configs
    /\ pc = "load"
    /\ order = <<>>
    /\ next = 1
    /\ emitted = 0 /\ statFailed = 0
    /\ count = 0 /\ bad = 0
    /\ ctxDone = FALSE
    /\ late = 0
-----------------------------------------------------------------------------
(* The plan file is unreadable, or it is read, sorted and cut to --limit;  *)
(* an empty plan ends the run before the sink is opened.                   *)
Load ==
    /\ pc = "load"
    /\ \/ pc' = "error" /\ UNCHANGED order
       \/ pc' = "returned" /\ UNCHANGED order
       \/ /\ LET all == SortEvents(Events)
                 cut == cfg.limit > 0 /\ Len(all) > cfg.limit
             IN  order' = IF cut THEN SubSeq(all, 1, cfg.limit) ELSE all
          /\ pc' = "open"
    /\ UNCHANGED <<cfg, next, emitted, statFailed, count, bad, ctxDone, late>>
    /\ PoolUnused

(* Open the sink.  When that fails the deferred Close is not yet due.      *)
OpenSink ==
    /\ pc = "open"
    /\ IF cfg.pooled
       THEN /\ Pool!Open
            /\ pc' = IF phase' = "open" THEN "loop" ELSE "error"
       ELSE /\ pc' \in {"loop", "error"}
            /\ PoolUnused
    /\ UNCHANGED <<cfg, order, next, emitted, statFailed, count, bad,
                   ctxDone, late>>

\* Mutated LoopHead: ctx.Err() is not looked at.
LoopHeadUnchecked ==
    /\ pc = "loop"
    /\ pc' = IF next > Len(order) THEN "flush" ELSE "pace"
    /\ UNCHANGED <<cfg, order, next, emitted, statFailed, count, bad,
                   ctxDone, late>>
    /\ PoolUnused

(* Head of the loop: ctx.Err() is looked at once per event, and returned.  *)
LoopHead ==
    /\ pc = "loop"
    /\ pc' = IF next > Len(order) THEN "flush"
             ELSE IF ctxDone THEN "abandon" ELSE "pace"
    /\ UNCHANGED <<cfg, order, next, emitted, statFailed, count, bad,
                   ctxDone, late>>
    /\ PoolUnused

(* wait: without pacing it never looks at the context; with it, it returns *)
(* when the event is due or, if it had to sleep, when ctx is cancelled,    *)
(* which RunWithContext does not report as an error.                       *)
Pace ==
    /\ pc = "pace"
    /\ \/ pc' = "write"
       \/ cfg.paced /\ ctxDone /\ pc' = "close"
    /\ UNCHANGED <<cfg, order, next, emitted, statFailed, count, bad,
                   ctxDone, late>>
    /\ PoolUnused

\* Mutated WriteOk: an event is skipped.
WriteOkSkips ==
    /\ emitted' = emitted + 1
    /\ next' = next + 2
    /\ pc' = "loop"
    /\ UNCHANGED statFailed

(* What the loop does with the result of sink.Write.                       *)
WriteOk ==
    /\ emitted' = emitted + 1
    /\ next' = next + 1
    /\ pc' = "loop"
    /\ UNCHANGED statFailed

\* Mutated WriteFailed: one failure more than --max-failures is allowed.
WriteFailedOneMore ==
    /\ statFailed' = statFailed + 1
    /\ IF cfg.maxFailures > 0 /\ statFailed' > cfg.maxFailures
       THEN pc' = "flush" /\ UNCHANGED next
       ELSE pc' = "loop" /\ next' = next + 1
    /\ UNCHANGED emitted

WriteFailed ==
    /\ statFailed' = statFailed + 1
    /\ IF cfg.maxFailures > 0 /\ statFailed' >= cfg.maxFailures
       THEN pc' = "flush" /\ UNCHANGED next
       ELSE pc' = "loop" /\ next' = next + 1
    /\ UNCHANGED emitted

LateBy == late' = IF ctxDone THEN late + 1 ELSE late

(* Write to a direct sink, which counts the outcome itself as well.        *)
WriteDirect ==
    /\ pc = "write"
    /\ ~cfg.pooled
    /\ writes' = [writes EXCEPT ![Current] = @ + 1]
    /\ \/ WriteOk /\ count' = count + 1 /\ UNCHANGED bad
       \/ WriteFailed /\ bad' = bad + 1 /\ UNCHANGED count
    /\ LateBy
    /\ UNCHANGED <<onFull, phase, jobs, spc, carried, wpc, hand, submitted,
                   processed, failed, refused, accepted, owed,
                   cfg, order, ctxDone>>

(* Write to a pool is Submit, which takes several steps.                   *)
WriteBegin ==
    /\ pc = "write"
    /\ cfg.pooled
    /\ Pool!SubmitBegin("replay", Current)
    /\ pc' = "submit"
    /\ LateBy
    /\ UNCHANGED <<cfg, order, next, emitted, statFailed, count, bad, ctxDone>>

WriteStep ==
    /\ pc = "submit"
    /\ Pool!Submit("replay")
    /\ UNCHANGED <<mainVars, ctxDone>>

WriteEnd ==
    /\ pc = "submit"
    /\ spc["replay"] = "idle"
    /\ IF Current \in refused THEN WriteFailed ELSE WriteOk
    /\ UNCHANGED <<cfg, order, count, bad, ctxDone, late>>
    /\ PoolUnused

\* Mutated FlushAndCount: waits until a pool has written what was emitted.
FlushAndCountWaits ==
    /\ pc = "flush"
    /\ cfg.pooled => processed = emitted
    /\ statFailed' = statFailed + (IF cfg.pooled THEN failed ELSE bad)
    /\ pc' = "close"
    /\ UNCHANGED <<cfg, order, next, emitted, count, bad, ctxDone, late>>
    /\ PoolUnused

(* sink.Flush waits for nothing in a pool or a direct sink; then the       *)
(* sink's own failures are added to those the loop has seen.               *)
FlushAndCount ==
    /\ pc = "flush"
    /\ statFailed' = statFailed + (IF cfg.pooled THEN failed ELSE bad)
    /\ pc' = "close"
    /\ UNCHANGED <<cfg, order, next, emitted, count, bad, ctxDone, late>>
    /\ PoolUnused

\* Mutated CloseSink: no deferred Close.
CloseSinkSkipped ==
    /\ pc \in {"close", "abandon"}
    /\ pc' = IF pc = "close" THEN "returned" ELSE "interrupted"
    /\ UNCHANGED <<cfg, order, next, emitted, statFailed, count, bad,
                   ctxDone, late>>
    /\ PoolUnused

(* The deferred sink.Close, on every way out of the loop.  After an        *)
(* error the command prints it in place of the statistics.                 *)
CloseSink ==
    /\ pc \in {"close", "abandon"}
    /\ IF cfg.pooled /\ phase # "closed"
       THEN Pool!Close /\ UNCHANGED pc
       ELSE /\ PoolUnused
            /\ pc' = IF pc = "close" THEN "returned" ELSE "interrupted"
    /\ UNCHANGED <<cfg, order, next, emitted, statFailed, count, bad,
                   ctxDone, late>>

Main ==
    \/ Load \/ OpenSink \/ LoopHead \/ Pace
    \/ WriteDirect \/ WriteBegin \/ WriteStep \/ WriteEnd
    \/ FlushAndCount \/ CloseSink

(* The pool's workers run beside the replay.                               *)
Work(w) ==
    /\ Pool!RunWorker(w)
    /\ UNCHANGED <<mainVars, ctxDone>>

(* SIGINT or SIGTERM.                                                      *)
Cancel ==
    /\ ~ctxDone
    /\ ~Over
    /\ ctxDone' = TRUE
    /\ UNCHANGED mainVars
    /\ PoolUnused

Returned ==
    /\ Over
    /\ UNCHANGED vars

Next ==
    \/ Main
    \/ \E w \in Workers : Work(w)
    \/ Cancel
    \/ Returned

Spec == Init /\ [][Next]_vars

(* The replay goroutine and the workers run; signals need not come.        *)
FairSpec ==
    /\ Spec
    /\ WF_vars(Main)
    /\ \A w \in Workers : WF_vars(Work(w))
-----------------------------------------------------------------------------
Succeeded == IF cfg.pooled THEN processed ELSE count
SinkFailed == IF cfg.pooled THEN failed ELSE bad

(* Every variable of the loop has its type, and so has the pool.           *)
TypeOK ==
    /\ Pool!TypeOK
    /\ cfg \in Configs
    /\ pc \in {"load", "open", "loop", "pace", "write", "submit", "flush",
               "close", "abandon", "returned", "interrupted", "error"}
    /\ order \in Seq(Events)
    /\ next \in 1..(Len(order) + 1)
    /\ emitted \in Nat /\ statFailed \in Nat
    /\ count \in Nat /\ bad \in Nat /\ late \in Nat
    /\ ctxDone \in BOOLEAN

Refusals == IF cfg.pooled THEN Cardinality(refused) ELSE bad

(* The loop's own limit: sink.Write returns no more than --max-failures    *)
(* errors to it, and nothing but that limit or a signal makes it return    *)
(* before every event has been offered.  With a pool these are the events  *)
(* it turned down; for what its workers fail to write, see                 *)
(* StopsAfterFailedWrites.                                                 *)
LoopStopsAtMaxFailures ==
    /\ cfg.maxFailures > 0 => Refusals <= cfg.maxFailures
    /\ pc = "returned" /\ ~ctxDone =>
        \/ cfg.maxFailures > 0 /\ Refusals = cfg.maxFailures
        \/ \A e \in Range(order) : writes[e] = 1 \/ e \in refused

(* The emitted statistic never understates what reached the endpoint, and  *)
(* overstates it at most by writes that the sink knows to have failed: it  *)
(* is not the number of "succeeded writes" that stats.go:13 calls it, for  *)
(* what a pool has queued may fail later.                                  *)
EmittedBracket ==
    Over => Succeeded <= emitted /\ emitted <= Succeeded + SinkFailed

(* After the context is cancelled at most the write that was already due   *)
(* is still begun, even in a run that is never paced.                      *)
AtMostOneLateWrite == late <= 1

(* A run ends, with a failing sink, a full queue or a signal too.          *)
Terminates == <>Over

(* docs/go-runtime.md says that on a signal the runtime "prints final      *)
(* stats": a run that got as far as opening its sink returns them without  *)
(* an error.  Where the signal is noticed decides whether the code does.   *)
ShutdownPrintsStats == Over /\ pc # "error" => pc = "returned"

(* docs/go-runtime.md:84 says that --max-failures stops the run "after N   *)
(* failed writes": the loop does not turn to another event when that many  *)
(* have failed already.  The failures of a pool's workers never reach it.  *)
StopsAfterFailedWrites ==
    [][LoopHead /\ pc' = "pace" =>
           cfg.maxFailures = 0 \/ SinkFailed < cfg.maxFailures]_vars

-----------------------------------------------------------------------------
(* Refinement of Delivery: an event inside Submit, in the channel or in a  *)
(* worker's hands has been taken.                                          *)
Status(e) ==
    IF writes[e] > 1 THEN "written twice"
    ELSE IF writes[e] = 1 THEN "written"
    ELSE IF e \in refused THEN "refused"
    ELSE IF e \in accepted \cup Range(carried) THEN "taken"
    ELSE "waiting"

Promise == INSTANCE Delivery WITH
    order   <- order,
    offered <- Cardinality({e \in Events : Status(e) # "waiting"}),
    status  <- [e \in Events |-> Status(e)],
    over    <- Over

(* Every replay delivers as Delivery promises: in plan order, never twice, *)
(* and on every way out (end of plan, too many failures, a signal) with    *)
(* no taken event left unwritten, because the deferred Close drains.       *)
KeepsPromise == Promise!Spec
=============================================================================
