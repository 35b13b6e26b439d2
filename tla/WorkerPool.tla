---------------------------- MODULE WorkerPool ----------------------------
(***************************************************************************)
(* The bounded worker pool of runtime-go/internal/worker/pool.go.          *)
(*                                                                         *)
(* Submit enqueues an event on the channel "jobs"; the worker goroutines   *)
(* take events from it and hand them to the wrapped sink; Close marks the  *)
(* pool closed, cancels its context, waits for the workers, and flushes    *)
(* and closes the sink.  The three run concurrently: every point where a   *)
(* goroutine can be descheduled between two shared accesses is a step.     *)
(*                                                                         *)
(* The events are distinct: an event is submitted at most once.  The sink  *)
(* is reduced to what the pool sees of it, a Write that succeeds or fails. *)
(***************************************************************************)
EXTENDS Integers, Sequences, FiniteSets, Functions

CONSTANTS
    Events,        \* the events that may be submitted
    Submitters,    \* the goroutines that call Submit
    Workers,       \* the worker goroutines
    QueueSize,     \* capacity of the channel "jobs"
    Policies,      \* the values of onFull that are considered
    NoEvent        \* "no event in hand"

(* config.Validate demands a queue of at least one event; a pool is built  *)
(* only for more than one worker, of which the model needs at least one.   *)
ASSUME PoolAssumption ==
    /\ QueueSize \in Nat \ {0}
    /\ Workers # {}
    /\ Policies \subseteq {"block", "fail"}
    /\ NoEvent \notin Events

ASSUME FiniteThreads == IsFiniteSet(Workers) /\ IsFiniteSet(Submitters)

VARIABLES
    onFull,        \* the policy of this pool, fixed when it is built
    phase,         \* how far the life of the pool has come, see Phases
    jobs,          \* the content of the channel
    spc,           \* where each submitter is in Submit
    carried,       \* the event each submitter is submitting
    wpc,           \* where each worker is in runWorker
    hand,          \* the event each worker is writing
    submitted,     \* PoolStats.Submitted
    processed,     \* PoolStats.Processed
    failed,        \* PoolStats.Failed
    writes,        \* history: how often the sink was given each event
    refused,       \* history: events for which Submit returned an error
    accepted,      \* history: events for which Submit returned nil
    owed           \* history: events accepted before Close was called

submitterVars == <<spc, carried>>
workerVars    == <<wpc, hand>>
stats         == <<submitted, processed, failed>>
history       == <<writes, refused, accepted, owed>>
vars == <<onFull, phase, jobs, submitterVars, workerVars, stats, history>>

(* "new" and "broken" are before and after a failed Open; "marked",        *)
(* "cancelled" and "joined" are the points inside Close after the flag is  *)
(* stored, after cancel(), and after wg.Wait().                            *)
Phases == {"new", "broken", "open", "marked", "cancelled", "joined", "closed"}

Closed    == phase \in {"marked", "cancelled", "joined", "closed"}
Cancelled == phase \in {"cancelled", "joined", "closed"}
Queued    == Range(jobs)
Fresh(e)  == e \notin refused \cup accepted \cup Range(carried)
Busy      == {s \in Submitters : spc[s] # "idle"}
Writing   == {w \in Workers : hand[w] # NoEvent}

Init ==
    /\ onFull \in Policies
    /\ phase = "new"
    /\ jobs = <<>>
    /\ spc = [s \in Submitters |-> "idle"]
    /\ carried = [s \in Submitters |-> NoEvent]
    /\ wpc = [w \in Workers |-> "off"]
    /\ hand = [w \in Workers |-> NoEvent]
    /\ submitted = 0
    /\ processed = 0
    /\ failed = 0
    /\ writes = [e \in Events |-> 0]
    /\ refused = {}
    /\ accepted = {}
    /\ owed = {}
-----------------------------------------------------------------------------
(* Open: a sink that cannot be opened leaves the pool without workers.     *)
Open ==
    /\ phase = "new"
    /\ \/ /\ phase' = "open"
          /\ wpc' = [w \in Workers |-> "select"]
       \/ /\ phase' = "broken"
          /\ UNCHANGED wpc
    /\ UNCHANGED <<onFull, jobs, submitterVars, hand, stats, history>>
-----------------------------------------------------------------------------
(* Submit.  Its caller got the pool from a successful Open.                *)
SubmitBegin(s, e) ==
    /\ phase \notin {"new", "broken"}
    /\ spc[s] = "idle"
    /\ Fresh(e)
    /\ spc' = [spc EXCEPT ![s] = "check"]
    /\ carried' = [carried EXCEPT ![s] = e]
    /\ submitted' = submitted + 1
    /\ UNCHANGED <<onFull, phase, jobs, workerVars, processed, failed, history>>

(* The closed flag is read once, on entry.                                 *)
SubmitCheckOpen(s) ==
    /\ spc[s] = "check"
    /\ ~Closed
    /\ spc' = [spc EXCEPT ![s] = "send"]
    /\ UNCHANGED <<onFull, phase, jobs, carried, workerVars, stats, history>>

\* Mutated Refuse: the error is returned but not counted.
RefuseUncounted(s) ==
    /\ refused' = refused \cup {carried[s]}
    /\ spc' = [spc EXCEPT ![s] = "idle"]
    /\ carried' = [carried EXCEPT ![s] = NoEvent]
    /\ UNCHANGED <<onFull, phase, jobs, workerVars, stats,
                   writes, accepted, owed>>

(* Return an error for the event that s carries.                           *)
Refuse(s) ==
    /\ refused' = refused \cup {carried[s]}
    /\ failed' = failed + 1
    /\ spc' = [spc EXCEPT ![s] = "idle"]
    /\ carried' = [carried EXCEPT ![s] = NoEvent]
    /\ UNCHANGED <<onFull, phase, jobs, workerVars, submitted, processed,
                   writes, accepted, owed>>

\* Mutated SubmitFindsClosed: no return after the failure is counted.
SubmitFindsClosedFallsThrough(s) ==
    /\ spc[s] = "check"
    /\ Closed
    /\ refused' = refused \cup {carried[s]}
    /\ failed' = failed + 1
    /\ spc' = [spc EXCEPT ![s] = "send"]
    /\ UNCHANGED <<onFull, phase, jobs, carried, workerVars, submitted,
                   processed, writes, accepted, owed>>

SubmitFindsClosed(s) ==
    /\ spc[s] = "check"
    /\ Closed
    /\ Refuse(s)

\* Mutated SubmitSend: the capacity of the channel is not respected.
SubmitSendUnbounded(s) ==
    /\ spc[s] = "send"
    /\ jobs' = Append(jobs, carried[s])
    /\ accepted' = accepted \cup {carried[s]}
    /\ spc' = [spc EXCEPT ![s] = "idle"]
    /\ carried' = [carried EXCEPT ![s] = NoEvent]
    /\ UNCHANGED <<onFull, phase, workerVars, stats, writes, refused, owed>>

(* Both policies send when the channel has room.  Under "block" the select *)
(* may take this arm even when the context is already cancelled.           *)
SubmitSend(s) ==
    /\ spc[s] = "send"
    /\ Len(jobs) < QueueSize
    /\ jobs' = Append(jobs, carried[s])
    /\ accepted' = accepted \cup {carried[s]}
    /\ spc' = [spc EXCEPT ![s] = "idle"]
    /\ carried' = [carried EXCEPT ![s] = NoEvent]
    /\ UNCHANGED <<onFull, phase, workerVars, stats, writes, refused, owed>>

SubmitFull(s) ==
    /\ spc[s] = "send"
    /\ onFull = "fail"
    /\ Len(jobs) = QueueSize
    /\ Refuse(s)

\* Mutated SubmitCancelled: the arm on ctx.Done under the wrong policy.
SubmitCancelledMisplaced(s) ==
    /\ spc[s] = "send"
    /\ onFull = "fail"
    /\ Cancelled
    /\ Refuse(s)

SubmitCancelled(s) ==
    /\ spc[s] = "send"
    /\ onFull # "fail"
    /\ Cancelled
    /\ Refuse(s)

Submit(s) ==
    \/ SubmitCheckOpen(s)
    \/ SubmitFindsClosed(s)
    \/ SubmitSend(s)
    \/ SubmitFull(s)
    \/ SubmitCancelled(s)
-----------------------------------------------------------------------------
(* runWorker.  In the outer select a worker may take a job or notice the   *)
(* cancellation; once it has, it takes jobs until it finds none.           *)
TakeJob(w) ==
    /\ wpc[w] \in {"select", "drain"}
    /\ hand[w] = NoEvent
    /\ jobs # <<>>
    /\ hand' = [hand EXCEPT ![w] = Head(jobs)]
    /\ jobs' = Tail(jobs)
    /\ UNCHANGED <<onFull, phase, submitterVars, wpc, stats, history>>

\* Mutated SeeCancel: the worker returns instead of draining.
SeeCancelQuits(w) ==
    /\ wpc[w] = "select"
    /\ hand[w] = NoEvent
    /\ Cancelled
    /\ wpc' = [wpc EXCEPT ![w] = "exited"]
    /\ UNCHANGED <<onFull, phase, jobs, submitterVars, hand, stats, history>>

\* Mutated SeeCancel: the context is only looked at when a job is there.
SeeCancelWithJobs(w) ==
    /\ wpc[w] = "select"
    /\ hand[w] = NoEvent
    /\ Cancelled
    /\ jobs # <<>>
    /\ wpc' = [wpc EXCEPT ![w] = "drain"]
    /\ UNCHANGED <<onFull, phase, jobs, submitterVars, hand, stats, history>>

SeeCancel(w) ==
    /\ wpc[w] = "select"
    /\ hand[w] = NoEvent
    /\ Cancelled
    /\ wpc' = [wpc EXCEPT ![w] = "drain"]
    /\ UNCHANGED <<onFull, phase, jobs, submitterVars, hand, stats, history>>

Exit(w) ==
    /\ wpc[w] = "drain"
    /\ hand[w] = NoEvent
    /\ jobs = <<>>
    /\ wpc' = [wpc EXCEPT ![w] = "exited"]
    /\ UNCHANGED <<onFull, phase, jobs, submitterVars, hand, stats, history>>

(* processEvent: the sink's verdict decides which counter is incremented.  *)
ProcessEvent(w) ==
    /\ hand[w] # NoEvent
    /\ writes' = [writes EXCEPT ![hand[w]] = @ + 1]
    /\ hand' = [hand EXCEPT ![w] = NoEvent]
    /\ \/ processed' = processed + 1 /\ UNCHANGED failed
       \/ failed' = failed + 1 /\ UNCHANGED processed
    /\ UNCHANGED <<onFull, phase, jobs, submitterVars, wpc, submitted,
                   refused, accepted, owed>>

RunWorker(w) ==
    \/ TakeJob(w)
    \/ SeeCancel(w)
    \/ Exit(w)
    \/ ProcessEvent(w)
-----------------------------------------------------------------------------
(* Close, step by step.                                                    *)
CloseMark ==
    /\ phase = "open"
    /\ phase' = "marked"
    /\ owed' = accepted
    /\ UNCHANGED <<onFull, jobs, submitterVars, workerVars, stats,
                   writes, refused, accepted>>

CloseCancel ==
    /\ phase = "marked"
    /\ phase' = "cancelled"
    /\ UNCHANGED <<onFull, jobs, submitterVars, workerVars, stats, history>>

CloseJoin ==
    /\ phase = "cancelled"
    /\ \A w \in Workers : wpc[w] = "exited"
    /\ phase' = "joined"
    /\ UNCHANGED <<onFull, jobs, submitterVars, workerVars, stats, history>>

(* sink.Flush and sink.Close, whose results do not matter to the pool.     *)
CloseSink ==
    /\ phase = "joined"
    /\ phase' = "closed"
    /\ UNCHANGED <<onFull, jobs, submitterVars, workerVars, stats, history>>

Close ==
    \/ CloseMark
    \/ CloseCancel
    \/ CloseJoin
    \/ CloseSink
-----------------------------------------------------------------------------
(* The pool is idle for good: nobody is inside Submit and Close is over,   *)
(* or the pool never opened.                                               *)
Finished ==
    /\ phase \in {"closed", "broken"}
    /\ Busy = {}
    /\ UNCHANGED vars

Next ==
    \/ Open
    \/ \E s \in Submitters, e \in Events : SubmitBegin(s, e)
    \/ \E s \in Submitters : Submit(s)
    \/ \E w \in Workers : RunWorker(w)
    \/ Close
    \/ Finished

Spec == Init /\ [][Next]_vars

(* The Go scheduler runs every runnable goroutine, so each submitter, each *)
(* worker and the caller of Close keeps moving once it has started.        *)
(* Nothing makes a program start a Submit or a Close.                      *)
Fairness ==
    /\ \A s \in Submitters : WF_vars(Submit(s))
    /\ \A w \in Workers : WF_vars(RunWorker(w))
    /\ WF_vars(CloseCancel \/ CloseJoin \/ CloseSink)

FairSpec == Spec /\ Fairness
-----------------------------------------------------------------------------
(* Every variable has its type; the channel never exceeds its capacity.    *)
TypeOK ==
    /\ onFull \in Policies
    /\ phase \in Phases
    /\ jobs \in Seq(Events)
    /\ Len(jobs) <= QueueSize
    /\ spc \in [Submitters -> {"idle", "check", "send"}]
    /\ carried \in [Submitters -> Events \cup {NoEvent}]
    /\ wpc \in [Workers -> {"off", "select", "drain", "exited"}]
    /\ hand \in [Workers -> Events \cup {NoEvent}]
    /\ submitted \in Nat
    /\ processed \in Nat
    /\ failed \in Nat
    /\ writes \in [Events -> Nat]
    /\ refused \subseteq Events
    /\ accepted \subseteq Events
    /\ owed \subseteq Events

(* No event escapes the counters of PoolStats: what was submitted is       *)
(* processed, failed, waiting in the channel, in the hands of a worker or  *)
(* still inside a Submit, whatever Close is doing meanwhile.               *)
Conservation ==
    submitted = processed + failed + Len(jobs)
                + Cardinality(Writing) + Cardinality(Busy)

(* An event has one outcome: the sink is given it at most once, and never  *)
(* when Submit told its caller that it failed.                             *)
OneOutcome ==
    \A e \in Events :
        /\ writes[e] <= 1
        /\ e \in refused => writes[e] = 0

(* An event whose Submit returned nil before Close was called has been     *)
(* given to the sink when Close closes the sink, and no worker is still    *)
(* using the sink by then.  A later one need not be: Submit looks at the   *)
(* closed flag before it sends.                                            *)
DrainedOnClose ==
    phase \in {"joined", "closed"} =>
        /\ \A e \in owed : writes[e] = 1
        /\ Writing = {}

(* A Submit never blocks for ever: a full channel is eventually drained by *)
(* the workers or the wait is ended by Close.                              *)
SubmitReturns ==
    \A s \in Submitters : spc[s] # "idle" ~> spc[s] = "idle"

(* Close terminates, however many submitters and queued events it meets.   *)
CloseReturns == phase = "marked" ~> phase = "closed"
=============================================================================
