------------------------- MODULE WorkerPoolProofs -------------------------
(***************************************************************************)
(* Theorems about WorkerPool, for every number of submitters and workers,  *)
(* every queue size and both policies.                                     *)
(***************************************************************************)
EXTENDS WorkerPool, FiniteSetTheorems, TLAPS

(* What makes DrainedOnClose inductive is the account of accepted events,  *)
(* and that an exited worker saw a cancelled pool with nothing owed in the *)
(* channel: what is appended later comes from a Submit that had not        *)
(* returned when Close began.                                              *)
InQueue(e) == \E i \in 1..Len(jobs) : jobs[i] = e
InHand(e)  == \E w \in Workers : hand[w] = e

(* A submitter carries an event exactly while it is inside Submit, no two  *)
(* carry the same, and a carried event has no outcome yet.                 *)
CarriedInv ==
    /\ \A s \in Submitters : spc[s] = "idle" <=> carried[s] = NoEvent
    /\ \A s, t \in Submitters :
           carried[s] = carried[t] /\ carried[s] # NoEvent => s = t
    /\ \A s \in Submitters : carried[s] \notin refused \cup accepted
    /\ refused \cap accepted = {}

(* The queue holds accepted, unwritten events, each once.                  *)
QueueInv ==
    /\ \A i, j \in 1..Len(jobs) : jobs[i] = jobs[j] => i = j
    /\ \A i \in 1..Len(jobs) : jobs[i] \in accepted /\ writes[jobs[i]] = 0

(* So do the workers' hands, which share nothing with the queue.           *)
HandInv ==
    \A w \in Workers : hand[w] # NoEvent =>
        /\ hand[w] \in accepted
        /\ writes[hand[w]] = 0
        /\ ~InQueue(hand[w])
        /\ \A v \in Workers : hand[v] = hand[w] => v = w

(* Only accepted events are written, once; an accepted event is written,   *)
(* queued or in hand.                                                      *)
AcceptedInv ==
    /\ \A e \in Events : writes[e] <= 1 /\ (writes[e] = 1 => e \in accepted)
    /\ \A e \in accepted : writes[e] = 1 \/ InQueue(e) \/ InHand(e)

(* What an exited worker knows, and what Close knows after the join.       *)
CloseInv ==
    /\ owed \subseteq accepted
    /\ \A w \in Workers : wpc[w] = "exited" =>
           /\ Cancelled
           /\ hand[w] = NoEvent
           /\ \A e \in owed : ~InQueue(e)
    /\ \A w \in Workers : wpc[w] = "drain" => Cancelled
    /\ phase \in {"joined", "closed"} =>
           \A w \in Workers : wpc[w] = "exited"

PoolInv ==
    TypeOK /\ CarriedInv /\ QueueInv /\ HandInv /\ AcceptedInv /\ CloseInv
-----------------------------------------------------------------------------
(* A pool that is built and not yet opened satisfies the invariant.        *)
LEMMA InitPoolInv == Init => PoolInv
  BY PoolAssumption
  DEF Init, PoolInv, TypeOK, Phases, CarriedInv, QueueInv, HandInv,
      AcceptedInv, CloseInv, InQueue, InHand, Cancelled

(* Open starts the workers or leaves the pool without any.                 *)
LEMMA OpenPoolInv == PoolInv /\ Open => PoolInv'
  BY PoolAssumption
  DEF Open, submitterVars, stats, history,
      PoolInv, TypeOK, Phases, CarriedInv, QueueInv, HandInv,
      AcceptedInv, CloseInv, InQueue, InHand, Cancelled

(* A fresh event enters Submit: no other submitter carries it.             *)
LEMMA BeginPoolInv ==
  ASSUME PoolInv, NEW s \in Submitters, NEW e \in Events, SubmitBegin(s, e)
  PROVE  PoolInv'
<1> USE PoolAssumption
    DEF SubmitBegin, workerVars, stats, history, PoolInv, TypeOK
<1>1. TypeOK'
  OBVIOUS
<1>2. \A t \in Submitters : carried[t] # e
  <2> SUFFICES ASSUME NEW t \in Submitters PROVE carried[t] # e
    OBVIOUS
  <2> QED BY DEF Fresh, Range
<1>3. CarriedInv'
  BY <1>2 DEF CarriedInv, Fresh
<1>4. QueueInv' /\ HandInv'
  BY DEF QueueInv, HandInv, InQueue
<1>5. AcceptedInv' /\ CloseInv'
  BY DEF AcceptedInv, CloseInv, InQueue, InHand, Cancelled
<1> QED BY <1>1, <1>3, <1>4, <1>5

(* The look at the closed flag moves only its submitter.                   *)
LEMMA CheckOpenPoolInv ==
  ASSUME PoolInv, NEW s \in Submitters, SubmitCheckOpen(s)
  PROVE  PoolInv'
  BY PoolAssumption
  DEF SubmitCheckOpen, workerVars, stats, history,
      PoolInv, TypeOK, CarriedInv, QueueInv, HandInv,
      AcceptedInv, CloseInv, InQueue, InHand, Cancelled

(* Every error return of Submit: the event was nowhere else.               *)
LEMMA RefusePoolInv ==
  ASSUME PoolInv, NEW s \in Submitters, spc[s] # "idle", Refuse(s)
  PROVE  PoolInv'
<1> USE PoolAssumption DEF Refuse, workerVars, stats, PoolInv, TypeOK
<1>1. carried[s] \in Events
  BY DEF CarriedInv
<1>2. TypeOK'
  BY <1>1
<1>3. CarriedInv'
  BY <1>1 DEF CarriedInv
<1>4. QueueInv' /\ HandInv' /\ AcceptedInv' /\ CloseInv'
  BY DEF QueueInv, HandInv, AcceptedInv, CloseInv, InQueue, InHand, Cancelled
<1> QED BY <1>2, <1>3, <1>4

(* A send puts an event into the queue that no one else has. After Close   *)
(* began it is not an owed one.                                            *)
LEMMA SendPoolInv ==
  ASSUME PoolInv, NEW s \in Submitters, SubmitSend(s)
  PROVE  PoolInv'
<1> USE PoolAssumption DEF SubmitSend, workerVars, stats, PoolInv, TypeOK
<1> DEFINE e == carried[s]
<1>1. e \in Events /\ e \notin accepted
  BY DEF CarriedInv
<1>2. TypeOK'
  BY <1>1
<1>3. CarriedInv'
  BY <1>1 DEF CarriedInv
<1>4. /\ Len(jobs') = Len(jobs) + 1
      /\ jobs'[Len(jobs) + 1] = e
      /\ \A i \in 1..Len(jobs) : jobs'[i] = jobs[i]
  BY <1>1
<1>5. \A f : InQueue(f)' <=> InQueue(f) \/ f = e
  BY <1>4 DEF InQueue
<1>6. \A i \in 1..Len(jobs) : jobs[i] # e
  BY <1>1 DEF QueueInv
<1>7. writes[e] = 0
  BY <1>1 DEF AcceptedInv
<1>8. QueueInv'
  <2>1. \A i, j \in 1..Len(jobs') : jobs'[i] = jobs'[j] => i = j
    BY <1>4, <1>6 DEF QueueInv
  <2>2. ASSUME NEW i \in 1..Len(jobs')
        PROVE  jobs'[i] \in accepted' /\ writes'[jobs'[i]] = 0
    <3>1. CASE i = Len(jobs) + 1
      BY <3>1, <1>4, <1>7
    <3>2. CASE i \in 1..Len(jobs)
      BY <3>2, <1>4 DEF QueueInv
    <3> QED BY <3>1, <3>2, <1>4
  <2> QED BY <2>1, <2>2 DEF QueueInv
<1>9. HandInv'
  BY <1>1, <1>5 DEF HandInv
<1>10. AcceptedInv'
  BY <1>1, <1>5 DEF AcceptedInv, InHand
<1>11. CloseInv'
  BY <1>1, <1>5 DEF CloseInv, Cancelled
<1> QED BY <1>2, <1>3, <1>8, <1>9, <1>10, <1>11

(* A worker takes the head of the queue, which no other place holds.       *)
LEMMA TakePoolInv ==
  ASSUME PoolInv, NEW w \in Workers, TakeJob(w)
  PROVE  PoolInv'
<1> USE PoolAssumption
    DEF TakeJob, submitterVars, stats, history, PoolInv, TypeOK
<1> PICK e \in Events : e = Head(jobs)
  OBVIOUS
<1>1. /\ Len(jobs) >= 1
      /\ e = jobs[1]
      /\ Len(jobs') = Len(jobs) - 1
      /\ \A i \in 1..Len(jobs') : jobs'[i] = jobs[i + 1]
      /\ jobs' \in Seq(Events)
  OBVIOUS
<1>2. e \in accepted /\ writes[e] = 0
  BY <1>1 DEF QueueInv
<1>3. TypeOK'
  BY <1>1, <1>2
<1>4. CarriedInv'
  BY DEF CarriedInv
<1>5. \A f : InQueue(f) <=> InQueue(f)' \/ f = e
  <2> SUFFICES ASSUME NEW f PROVE InQueue(f) <=> InQueue(f)' \/ f = e
    OBVIOUS
  <2>1. InQueue(f) => InQueue(f)' \/ f = e
    <3> SUFFICES ASSUME NEW i \in 1..Len(jobs), jobs[i] = f, i # 1
                 PROVE  InQueue(f)'
      BY <1>1 DEF InQueue
    <3>1. i - 1 \in 1..Len(jobs') /\ jobs'[i - 1] = f
      BY <1>1
    <3> QED BY <3>1 DEF InQueue
  <2>2. InQueue(f)' => InQueue(f)
    BY <1>1 DEF InQueue
  <2> QED BY <1>1, <2>1, <2>2 DEF InQueue
<1>6. ~InQueue(e)'
  BY <1>1 DEF InQueue, QueueInv
<1>7. QueueInv'
  BY <1>1 DEF QueueInv
<1>8. \A v \in Workers : hand[v] # e
  BY <1>1, <1>2 DEF HandInv, InQueue
<1>9. HandInv'
  BY <1>2, <1>5, <1>6, <1>8 DEF HandInv
<1>10. AcceptedInv'
  BY <1>5 DEF AcceptedInv, InHand
<1>11. CloseInv'
  BY <1>5 DEF CloseInv, Cancelled
<1> QED BY <1>3, <1>4, <1>7, <1>9, <1>10, <1>11

(* A worker that starts to drain knows of the cancellation.                *)
LEMMA SeeCancelPoolInv ==
  ASSUME PoolInv, NEW w \in Workers, SeeCancel(w)
  PROVE  PoolInv'
  BY PoolAssumption
  DEF SeeCancel, submitterVars, stats, history,
      PoolInv, TypeOK, CarriedInv, QueueInv, HandInv,
      AcceptedInv, CloseInv, InQueue, InHand, Cancelled

(* A worker leaves only from the drain loop, which it enters only after    *)
(* the cancellation, and with nothing in the channel.                      *)
LEMMA ExitPoolInv ==
  ASSUME PoolInv, NEW w \in Workers, Exit(w)
  PROVE  PoolInv'
  BY PoolAssumption
  DEF Exit, submitterVars, stats, history,
      PoolInv, TypeOK, CarriedInv, QueueInv, HandInv,
      AcceptedInv, CloseInv, InQueue, InHand, Cancelled

(* The event that a worker writes is written for the first time.           *)
LEMMA ProcessPoolInv ==
  ASSUME PoolInv, NEW w \in Workers, ProcessEvent(w)
  PROVE  PoolInv'
<1> USE PoolAssumption DEF ProcessEvent, submitterVars, stats, PoolInv, TypeOK
<1> DEFINE e == hand[w]
<1>1. /\ e \in Events /\ e \in accepted /\ writes[e] = 0 /\ ~InQueue(e)
      /\ \A v \in Workers : hand[v] = e => v = w
  BY DEF HandInv
<1>2. TypeOK'
  BY <1>1
<1>3. writes' = [writes EXCEPT ![e] = 1]
  BY <1>1
<1>4. CarriedInv'
  BY DEF CarriedInv
<1>5. QueueInv'
  <2> SUFFICES ASSUME NEW i \in 1..Len(jobs)
               PROVE  jobs[i] \in accepted /\ writes'[jobs[i]] = 0
    BY DEF QueueInv
  <2>1. jobs[i] # e /\ jobs[i] \in Events
    BY <1>1 DEF InQueue
  <2> QED BY <1>3, <2>1 DEF QueueInv
<1>6. HandInv'
  BY <1>1, <1>3 DEF HandInv, InQueue
<1>7. AcceptedInv'
  BY <1>1, <1>3 DEF AcceptedInv, InQueue, InHand
<1>8. CloseInv'
  BY DEF CloseInv, Cancelled, InQueue
<1> QED BY <1>2, <1>4, <1>5, <1>6, <1>7, <1>8

(* The four steps of Close; the join knows that all workers exited.        *)
LEMMA ClosePoolInv ==
  ASSUME PoolInv, Close
  PROVE  PoolInv'
<1> USE PoolAssumption
    DEF submitterVars, workerVars, stats, history, PoolInv, TypeOK, Phases
<1>1. CASE CloseMark
  BY <1>1 DEF CloseMark, CarriedInv, QueueInv, HandInv,
              AcceptedInv, CloseInv, InQueue, InHand, Cancelled
<1>2. CASE CloseCancel
  BY <1>2 DEF CloseCancel, CarriedInv, QueueInv, HandInv,
              AcceptedInv, CloseInv, InQueue, InHand, Cancelled
<1>3. CASE CloseJoin
  BY <1>3 DEF CloseJoin, CarriedInv, QueueInv, HandInv,
              AcceptedInv, CloseInv, InQueue, InHand, Cancelled
<1>4. CASE CloseSink
  BY <1>4 DEF CloseSink, CarriedInv, QueueInv, HandInv,
              AcceptedInv, CloseInv, InQueue, InHand, Cancelled
<1> QED BY <1>1, <1>2, <1>3, <1>4 DEF Close

(* Every step of the pool keeps the invariant.                             *)
LEMMA PoolInvStep == PoolInv /\ [Next]_vars => PoolInv'
<1> SUFFICES ASSUME PoolInv, [Next]_vars PROVE PoolInv'
  OBVIOUS
<1>1. CASE Open
  BY <1>1, OpenPoolInv
<1>2. CASE \E s \in Submitters, e \in Events : SubmitBegin(s, e)
  BY <1>2, BeginPoolInv
<1>3. ASSUME NEW s \in Submitters, Submit(s) PROVE PoolInv'
  BY <1>3, CheckOpenPoolInv, RefusePoolInv, SendPoolInv
  DEF Submit, SubmitFindsClosed, SubmitFull, SubmitCancelled
<1>4. ASSUME NEW w \in Workers, RunWorker(w) PROVE PoolInv'
  BY <1>4, TakePoolInv, SeeCancelPoolInv, ExitPoolInv, ProcessPoolInv
  DEF RunWorker
<1>5. CASE Close
  BY <1>5, ClosePoolInv
<1>6. CASE UNCHANGED vars
  BY <1>6
  DEF vars, submitterVars, workerVars, stats, history,
      PoolInv, TypeOK, CarriedInv, QueueInv, HandInv,
      AcceptedInv, CloseInv, InQueue, InHand, Cancelled
<1> QED
  BY <1>1, <1>2, <1>3, <1>4, <1>5, <1>6 DEF Next, Finished

(* The invariant holds in every reachable state.                           *)
THEOREM PoolInvariant == Spec => []PoolInv
  BY InitPoolInv, PoolInvStep, PTL DEF Spec

(* The variables keep their types and the channel its capacity.            *)
THEOREM TypeCorrect == Spec => []TypeOK
<1>1. PoolInv => TypeOK
  BY DEF PoolInv
<1> QED BY PoolInvariant, <1>1, PTL

(* No event is written twice, or written after Submit failed it.           *)
THEOREM OneOutcomeHolds == Spec => []OneOutcome
<1>1. PoolInv => OneOutcome
  BY DEF PoolInv, CarriedInv, AcceptedInv, TypeOK, OneOutcome
<1> QED BY PoolInvariant, <1>1, PTL

(* Close drains: whatever was accepted before Close began has been given   *)
(* to the sink once by the time the sink is closed, and no worker is       *)
(* still writing.                                                          *)
THEOREM DrainedOnCloseHolds == Spec => []DrainedOnClose
<1>1. PoolInv => DrainedOnClose
  <2> SUFFICES ASSUME PoolInv, phase \in {"joined", "closed"}
               PROVE  (\A e \in owed : writes[e] = 1) /\ Writing = {}
    BY DEF DrainedOnClose
  <2>1. \A w \in Workers : hand[w] = NoEvent
    BY DEF PoolInv, CloseInv
  <2>2. \A e \in owed : ~InQueue(e)
    BY PoolAssumption DEF PoolInv, CloseInv
  <2>3. \A e \in owed : ~InHand(e)
    BY <2>1, PoolAssumption DEF InHand, PoolInv, TypeOK
  <2>4. \A e \in owed : writes[e] = 1
    BY <2>2, <2>3 DEF PoolInv, CloseInv, AcceptedInv
  <2> QED BY <2>1, <2>4 DEF Writing
<1> QED BY PoolInvariant, <1>1, PTL
-----------------------------------------------------------------------------
(* Conservation is inductive over TypeOK: each step moves one event from   *)
(* one summand to another.                                                 *)
(* The threads inside a Submit or a sink Write can be counted.             *)
LEMMA WritingFinite == IsFiniteSet(Writing) /\ IsFiniteSet(Busy)
  BY FiniteThreads, FS_Subset DEF Writing, Busy

(* Their numbers are natural numbers.                                      *)
LEMMA CardTypes == Cardinality(Writing) \in Nat /\ Cardinality(Busy) \in Nat
  BY WritingFinite, FS_CardinalityType

(* One more submitter is busy.                                             *)
LEMMA CarriedEnters ==
  ASSUME NEW s \in Submitters, s \notin Busy, Busy' = Busy \cup {s}
  PROVE  Cardinality(Busy') = Cardinality(Busy) + 1
  BY WritingFinite, FS_AddElement

(* One submitter less is busy.                                             *)
LEMMA CarriedLeaves ==
  ASSUME NEW s \in Submitters, s \in Busy, Busy' = Busy \ {s}
  PROVE  Cardinality(Busy') = Cardinality(Busy) - 1
  BY WritingFinite, FS_RemoveElement

(* One more worker is writing.                                             *)
LEMMA HandFills ==
  ASSUME NEW w \in Workers, w \notin Writing, Writing' = Writing \cup {w}
  PROVE  Cardinality(Writing') = Cardinality(Writing) + 1
  BY WritingFinite, FS_AddElement

(* One worker less is writing.                                             *)
LEMMA HandEmpties ==
  ASSUME NEW w \in Workers, w \in Writing, Writing' = Writing \ {w}
  PROVE  Cardinality(Writing') = Cardinality(Writing) - 1
  BY WritingFinite, FS_RemoveElement

(* Submit counts the event and carries it.                                 *)
LEMMA BeginConserves ==
  ASSUME TypeOK, Conservation,
         NEW s \in Submitters, NEW e \in Events, SubmitBegin(s, e)
  PROVE  Conservation'
<1>1. s \notin Busy /\ Busy' = Busy \cup {s} /\ Writing' = Writing
  BY DEF SubmitBegin, TypeOK, Busy, Writing, workerVars
<1>2. Cardinality(Busy') = Cardinality(Busy) + 1
  BY <1>1, CarriedEnters
<1> QED
  BY <1>1, <1>2, CardTypes DEF SubmitBegin, TypeOK, Conservation

(* A carried event becomes a failed one.                                   *)
LEMMA RefuseConserves ==
  ASSUME TypeOK, Conservation, NEW s \in Submitters,
         spc[s] # "idle", Refuse(s)
  PROVE  Conservation'
<1>1. s \in Busy /\ Busy' = Busy \ {s} /\ Writing' = Writing
  BY DEF Refuse, TypeOK, Busy, Writing, workerVars
<1>2. Cardinality(Busy') = Cardinality(Busy) - 1
  BY <1>1, CarriedLeaves
<1> QED
  BY <1>1, <1>2, CardTypes DEF Refuse, TypeOK, Conservation

(* A carried event becomes a queued one.                                   *)
LEMMA SendConserves ==
  ASSUME TypeOK, Conservation, NEW s \in Submitters,
         carried[s] \in Events, SubmitSend(s)
  PROVE  Conservation'
<1>1. s \in Busy /\ Busy' = Busy \ {s} /\ Writing' = Writing
  BY DEF SubmitSend, TypeOK, Busy, Writing, workerVars
<1>2. Cardinality(Busy') = Cardinality(Busy) - 1
  BY <1>1, CarriedLeaves
<1>3. Len(jobs') = Len(jobs) + 1 /\ Len(jobs) \in Nat
  BY DEF SubmitSend, TypeOK
<1> QED
  BY <1>1, <1>2, <1>3, CardTypes DEF SubmitSend, stats, TypeOK, Conservation

(* A queued event goes into a worker's hands.                              *)
LEMMA TakeConserves ==
  ASSUME TypeOK, Conservation, NEW w \in Workers, TakeJob(w)
  PROVE  Conservation'
<1>1. Head(jobs) # NoEvent
  BY PoolAssumption DEF TakeJob, TypeOK
<1>2. w \notin Writing /\ Writing' = Writing \cup {w} /\ Busy' = Busy
  BY <1>1 DEF TakeJob, TypeOK, Busy, Writing, submitterVars
<1>3. Cardinality(Writing') = Cardinality(Writing) + 1
  BY <1>2, HandFills
<1>4. Len(jobs') = Len(jobs) - 1 /\ Len(jobs) \in Nat
  BY DEF TakeJob, TypeOK
<1> QED
  BY <1>2, <1>3, <1>4, CardTypes DEF TakeJob, stats, TypeOK, Conservation

(* An event in hand becomes a processed or a failed one.                   *)
LEMMA ProcessConserves ==
  ASSUME TypeOK, Conservation, NEW w \in Workers, ProcessEvent(w)
  PROVE  Conservation'
<1>1. w \in Writing /\ Writing' = Writing \ {w} /\ Busy' = Busy
  BY DEF ProcessEvent, TypeOK, Busy, Writing, submitterVars
<1>2. Cardinality(Writing') = Cardinality(Writing) - 1
  BY <1>1, HandEmpties
<1>3. Len(jobs) \in Nat
  BY DEF TypeOK
<1> QED
  BY SMTT(30), <1>1, <1>2, <1>3, CardTypes DEF ProcessEvent, TypeOK, Conservation

(* A pool that was just built has counted nothing.                         *)
LEMMA InitConserves == Init => Conservation
<1> SUFFICES ASSUME Init PROVE Conservation
  OBVIOUS
<1>1. Writing = {} /\ Busy = {}
  BY DEF Init, Writing, Busy
<1> QED BY <1>1, FS_EmptySet DEF Init, Conservation

(* Every step of the pool keeps the counters in balance.                   *)
LEMMA ConservationStep ==
  PoolInv /\ Conservation /\ [Next]_vars => Conservation'
<1> SUFFICES ASSUME PoolInv, TypeOK, Conservation, [Next]_vars
             PROVE  Conservation'
  BY DEF PoolInv
<1>1. \A s \in Submitters : spc[s] # "idle" => carried[s] \in Events
  BY DEF PoolInv, CarriedInv, TypeOK
<1>2. ASSUME NEW s \in Submitters, Submit(s) PROVE Conservation'
  <2>1. CASE SubmitCheckOpen(s)
    <3>1. Busy' = Busy /\ Writing' = Writing
      BY <2>1 DEF SubmitCheckOpen, TypeOK, Busy, Writing, workerVars
    <3> QED BY <2>1, <3>1 DEF SubmitCheckOpen, stats, Conservation
  <2>2. CASE SubmitSend(s)
    BY <2>2, <1>1, SendConserves DEF SubmitSend
  <2> QED
    BY <1>2, <2>1, <2>2, RefuseConserves
    DEF Submit, SubmitFindsClosed, SubmitFull, SubmitCancelled
<1>3. ASSUME NEW w \in Workers, SeeCancel(w) \/ Exit(w) PROVE Conservation'
  <2>1. Busy' = Busy /\ Writing' = Writing
    BY <1>3 DEF SeeCancel, Exit, Busy, Writing, submitterVars
  <2> QED BY <1>3, <2>1 DEF SeeCancel, Exit, stats, Conservation
<1>4. CASE Open
  <2>1. Busy' = Busy /\ Writing' = Writing
    BY <1>4 DEF Open, Busy, Writing, submitterVars
  <2> QED BY <1>4, <2>1 DEF Open, stats, Conservation
<1>5. CASE Close
  <2>1. UNCHANGED <<jobs, submitterVars, workerVars, stats>>
    BY <1>5 DEF Close, CloseMark, CloseCancel, CloseJoin, CloseSink
  <2>2. Busy' = Busy /\ Writing' = Writing
    BY <2>1 DEF Busy, Writing, submitterVars, workerVars
  <2> QED BY <2>1, <2>2 DEF stats, Conservation
<1>6. CASE UNCHANGED vars
  BY <1>6 DEF vars, submitterVars, workerVars, stats,
              Busy, Writing, Conservation
<1> QED
  BY <1>2, <1>3, <1>4, <1>5, <1>6,
     BeginConserves, TakeConserves, ProcessConserves
  DEF Next, RunWorker, Finished

(* No event escapes the counters of PoolStats.                             *)
THEOREM ConservationHolds == Spec => []Conservation
  BY PoolInvariant, InitConserves, ConservationStep, PTL DEF Spec
=============================================================================
