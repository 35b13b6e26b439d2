--------------------------- MODULE ReplayProofs ---------------------------
(***************************************************************************)
(* Theorems about Replay, for every plan, every set of configurations,     *)
(* every number of workers and every queue size: the invariants of the     *)
(* loop, and that a replay over a direct sink or over a pool delivers as   *)
(* module Delivery promises.  What the pool contributes are the theorems   *)
(* of WorkerPoolProofs, instantiated for the replay's only submitter.      *)
(***************************************************************************)
EXTENDS Replay, FiniteSetTheorems, SequenceTheorems, TLAPS

P == INSTANCE WorkerPoolProofs WITH Submitters <- {"replay"}
-----------------------------------------------------------------------------
(* SortEvents is a choice: that there is an enumeration to choose follows  *)
(* from the number of events before each event, which is its place.        *)
Place(S, e) == Cardinality({d \in S : Before(d, e)}) + 1

Sorted(f, n) == \A i, j \in 1..n : i < j => Before(f[i], f[j])

(* Before is a strict total order on the events of a plan.                 *)
LEMMA BeforeOrders ==
  ASSUME NEW d \in Events, NEW e \in Events
  PROVE  /\ ~Before(e, e)
         /\ d # e => Before(d, e) \/ Before(e, d)
         /\ Before(d, e) => ~Before(e, d)
         /\ \A c \in Events : Before(c, d) /\ Before(d, e) => Before(c, e)
  BY ReplayAssumption DEF Before

(* Places are numbers from 1 to the number of events.                      *)
LEMMA PlaceInRange ==
  ASSUME NEW S \in SUBSET Events, IsFiniteSet(S), NEW e \in S
  PROVE  Place(S, e) \in 1..Cardinality(S)
<1> DEFINE T == {d \in S : Before(d, e)}
<1>1. T \in SUBSET (S \ {e})
  BY BeforeOrders
<1>2. IsFiniteSet(S \ {e}) /\ Cardinality(S \ {e}) = Cardinality(S) - 1
  BY FS_RemoveElement
<1> HIDE DEF T
<1>3. IsFiniteSet(T) /\ Cardinality(T) <= Cardinality(S \ {e})
  BY <1>1, <1>2, FS_Subset
<1>4. Cardinality(T) \in Nat /\ Cardinality(S) \in Nat
  BY <1>3, FS_CardinalityType
<1>5. Place(S, e) = Cardinality(T) + 1
  BY DEF Place, T
<1> QED BY <1>2, <1>3, <1>4, <1>5

(* An earlier event has a smaller place.                                   *)
LEMMA PlaceIsMonotone ==
  ASSUME NEW S \in SUBSET Events, IsFiniteSet(S),
         NEW d \in S, NEW e \in S, Before(d, e)
  PROVE  Place(S, d) < Place(S, e)
<1> DEFINE Lower == {c \in S : Before(c, d)}
           Upper == {c \in S : Before(c, e)}
<1>1. Lower \in SUBSET Upper /\ Lower # Upper
  BY BeforeOrders
<1>2. Upper \in SUBSET S /\ Lower \in SUBSET S
  OBVIOUS
<1>3. Place(S, d) = Cardinality(Lower) + 1
      /\ Place(S, e) = Cardinality(Upper) + 1
  BY DEF Place
<1> HIDE DEF Lower, Upper
<1>4. IsFiniteSet(Upper) /\ IsFiniteSet(Lower)
  BY <1>2, FS_Subset
<1>5. Cardinality(Lower) <= Cardinality(Upper)
      /\ Cardinality(Lower) # Cardinality(Upper)
  BY <1>1, <1>4, FS_Subset
<1>6. Cardinality(Lower) \in Nat /\ Cardinality(Upper) \in Nat
  BY <1>4, FS_CardinalityType
<1> QED BY <1>3, <1>5, <1>6

(* A finite set of events can be sorted.                                   *)
LEMMA SortedExists ==
  ASSUME NEW S \in SUBSET Events, IsFiniteSet(S)
  PROVE  \E f \in Bijection(1..Cardinality(S), S) : Sorted(f, Cardinality(S))
<1> DEFINE n == Cardinality(S)
           r == [e \in S |-> Place(S, e)]
           f == [i \in 1..n |-> CHOOSE e \in S : r[e] = i]
<1>1. n \in Nat
  BY FS_CardinalityType
<1>2. \A e \in S : r[e] \in 1..n
  BY PlaceInRange
<1>3. \A d, e \in S : Before(d, e) => r[d] < r[e]
  BY PlaceIsMonotone
<1>4. \A d, e \in S : r[d] = r[e] => d = e
  <2> SUFFICES ASSUME NEW d \in S, NEW e \in S, d # e PROVE r[d] # r[e]
    OBVIOUS
  <2>1. Before(d, e) \/ Before(e, d)
    BY BeforeOrders
  <2>2. r[d] \in Nat /\ r[e] \in Nat
    BY <1>2
  <2> HIDE DEF r
  <2> QED BY <1>3, <2>1, <2>2
<1>5. r \in Injection(S, 1..n)
  <2>1. r \in [S -> 1..n] /\ DOMAIN r = S
    BY <1>2
  <2> HIDE DEF r
  <2> QED BY <1>4, <2>1 DEF Injection, IsInjective
<1>6. IsFiniteSet(1..n) /\ Cardinality(1..n) = n
  BY <1>1, FS_Interval
<1>7. r \in Surjection(S, 1..n)
  <2> HIDE DEF r
  <2> QED BY <1>5, <1>6, FS_Injection
<1>8. \A i \in 1..n : f[i] \in S /\ r[f[i]] = i
  <2> SUFFICES ASSUME NEW i \in 1..n PROVE f[i] \in S /\ r[f[i]] = i
    OBVIOUS
  <2>1. \E e \in S : r[e] = i
    <3> HIDE DEF r
    <3> QED BY <1>7 DEF Surjection
  <2> HIDE DEF r
  <2> QED BY <2>1
<1>9. f \in [1..n -> S] /\ DOMAIN f = 1..n
  <2>1. \A i \in 1..n : (CHOOSE e \in S : r[e] = i) \in S
    BY <1>8
  <2> QED BY <2>1
<1> HIDE DEF r, f
<1>10. f \in Bijection(1..n, S)
  <2>1. \A i, j \in 1..n : f[i] = f[j] => i = j
    BY <1>8
  <2>2. \A e \in S : f[r[e]] = e
    BY <1>2, <1>4, <1>8
  <2> QED
    BY <1>2, <1>9, <2>1, <2>2 DEF Bijection, Injection, IsInjective, Surjection
<1>11. Sorted(f, n)
  <2> SUFFICES ASSUME NEW i \in 1..n, NEW j \in 1..n, i < j
               PROVE  Before(f[i], f[j])
    BY DEF Sorted
  <2>1. f[i] \in S /\ f[j] \in S /\ f[i] # f[j] /\ ~(r[f[j]] < r[f[i]])
    BY <1>1, <1>8
  <2> QED BY <1>3, <2>1, BeforeOrders
<1> QED BY <1>10, <1>11
-----------------------------------------------------------------------------
(* The inductive invariant.  Offered(e): the sink was asked to write e.    *)
Offered(e) == IF cfg.pooled
              THEN e \in refused \cup accepted \/ carried["replay"] = e
              ELSE writes[e] = 1

(* Exactly the first n events of the plan have been offered.               *)
Tried(n) == \A e \in Events : Offered(e) <=> \E i \in 1..n : order[i] = e

(* The loop has been told of this many failed writes: while the result of  *)
(* a Submit has not been looked at, it is not counted.                     *)
Noted == IF ~cfg.pooled THEN bad
         ELSE IF pc = "submit" THEN Cardinality(refused \ {Current})
         ELSE Cardinality(refused)

Looping == pc \in {"load", "open", "loop", "pace", "write"}
LimitHit == cfg.maxFailures > 0 /\ Refusals = cfg.maxFailures

LoopTypes ==
    /\ cfg \in Configs
    /\ pc \in {"load", "open", "loop", "pace", "write", "submit", "flush",
               "close", "abandon", "returned", "interrupted", "error"}
    /\ order \in Seq(Events)
    /\ next \in 1..(Len(order) + 1)
    /\ emitted \in Nat /\ statFailed \in Nat
    /\ count \in Nat /\ bad \in Nat /\ late \in Nat
    /\ ctxDone \in BOOLEAN

(* A direct sink leaves the pool as it was.                                *)
DirectInv ==
    /\ Pool!TypeOK
    /\ phase = "new"
    /\ spc["replay"] = "idle" /\ carried["replay"] = NoEvent
    /\ \A w \in Workers : wpc[w] = "off" /\ hand[w] = NoEvent
    /\ jobs = <<>> /\ refused = {} /\ accepted = {}
    /\ \A e \in Events : writes[e] <= 1

(* A pool is open while the loop runs, and closed by the loop's goroutine  *)
(* once it has left the loop, so that nothing is accepted after Close      *)
(* began.                                                                  *)
PooledInv ==
    /\ P!PoolInv /\ P!Conservation
    /\ pc \in {"load", "open"} => phase = "new"
    /\ pc \in {"loop", "pace", "write", "submit", "flush"} => phase = "open"
    /\ pc \in {"close", "abandon"} => phase \notin {"new", "broken"}
    /\ pc \in {"returned", "interrupted"} =>
           phase = "closed" \/ (phase = "new" /\ order = <<>>)
    /\ pc = "error" => phase \in {"new", "broken"}
    /\ spc["replay"] # "idle" => pc = "submit"
    /\ pc = "submit" => carried["replay"] \in {Current, NoEvent}
    /\ phase \notin {"new", "broken", "open"} => owed = accepted

SinkInv == IF cfg.pooled THEN PooledInv ELSE DirectInv /\ pc # "submit"

(* Where the loop stands in the sorted plan, and what it has offered.      *)
OfferInv ==
    /\ Sorted(order, Len(order))
    /\ pc = "load" => order = <<>>
    /\ pc \in {"load", "open"} => next = 1
    /\ pc \in {"pace", "write", "submit"} => next <= Len(order)
    /\ Looping => Tried(next - 1)
    /\ pc = "submit" => Tried(next)
    /\ pc = "error" => Tried(0)
    /\ \E n \in 0..Len(order) : Tried(n)

(* The counters of the loop, against the sink's.                           *)
CountInv ==
    /\ Looping \/ pc \in {"submit", "flush"} => statFailed = Noted
    /\ IF cfg.pooled
       THEN /\ submitted = emitted + Noted + (IF pc = "submit" THEN 1 ELSE 0)
            /\ Cardinality(refused) <= failed
       ELSE emitted = count
    /\ cfg.maxFailures > 0 =>
           /\ Refusals <= cfg.maxFailures
           /\ Looping \/ pc = "submit" => statFailed < cfg.maxFailures

(* Why the loop was left.                                                  *)
StopInv ==
    /\ pc = "flush" => LimitHit \/ Tried(Len(order))
    /\ pc \in {"close", "returned"} =>
           LimitHit \/ Tried(Len(order)) \/ ctxDone

(* After a late write the loop is back at its head before the next one,    *)
(* where the cancelled context ends it.                                    *)
LateInv ==
    /\ late <= 1
    /\ late = 1 => ctxDone /\ pc \notin {"pace", "write"}

ReplayInv ==
    LoopTypes /\ SinkInv /\ OfferInv /\ CountInv /\ StopInv /\ LateInv
-----------------------------------------------------------------------------
(* The pool's assumptions about its parameters hold for this one.          *)
LEMMA PoolConstants == P!PoolAssumption /\ P!FiniteThreads
<1>1. P!PoolAssumption
  BY PooledAssumption
<1>2. P!FiniteThreads
  BY PooledAssumption DEF Pool!IsFiniteSet, P!IsFiniteSet, IsFiniteSet
<1> QED BY <1>1, <1>2

(* Every step of the pool, and every step of which it takes no notice,     *)
(* keeps what is known about it.                                           *)
LEMMA PoolMoves ==
  ASSUME P!PoolInv, P!Conservation, Pool!Next \/ UNCHANGED poolVars
  PROVE  P!PoolInv' /\ P!Conservation'
<1> USE DEF Pool!submitterVars, Pool!workerVars, Pool!stats, Pool!history,
            P!submitterVars, P!workerVars, P!stats, P!history
<1>1. Pool!Open => P!Open
  BY DEF Pool!Open, P!Open
<1>2. \A s, e : Pool!SubmitBegin(s, e) => P!SubmitBegin(s, e)
  BY DEF Pool!SubmitBegin, P!SubmitBegin, Pool!Fresh, P!Fresh,
         Pool!Range, P!Range
<1>3. \A s : Pool!Submit(s) => P!Submit(s)
  <2>1. \A s : Pool!SubmitCheckOpen(s) => P!SubmitCheckOpen(s)
    BY DEF Pool!SubmitCheckOpen, P!SubmitCheckOpen, Pool!Closed, P!Closed
  <2>2. \A s : Pool!Refuse(s) => P!Refuse(s)
    BY DEF Pool!Refuse, P!Refuse
  <2>3. \A s : Pool!SubmitSend(s) => P!SubmitSend(s)
    BY DEF Pool!SubmitSend, P!SubmitSend
  <2> QED
    BY <2>1, <2>2, <2>3
    DEF Pool!Submit, Pool!SubmitFindsClosed, Pool!SubmitFull,
        Pool!SubmitCancelled, Pool!Closed, Pool!Cancelled,
        P!Submit, P!SubmitFindsClosed, P!SubmitFull,
        P!SubmitCancelled, P!Closed, P!Cancelled
<1>4. \A w : Pool!RunWorker(w) => P!RunWorker(w)
  BY DEF Pool!RunWorker, Pool!TakeJob, Pool!SeeCancel, Pool!Exit,
         Pool!ProcessEvent, Pool!Cancelled,
         P!RunWorker, P!TakeJob, P!SeeCancel, P!Exit, P!ProcessEvent,
         P!Cancelled
<1>5. Pool!Close => P!Close
  BY DEF Pool!Close, Pool!CloseMark, Pool!CloseCancel, Pool!CloseJoin,
         Pool!CloseSink, P!Close, P!CloseMark, P!CloseCancel, P!CloseJoin,
         P!CloseSink
<1>6. Pool!Finished \/ UNCHANGED poolVars => UNCHANGED P!vars
  BY DEF Pool!Finished, Pool!vars, poolVars, P!vars
<1>7. Pool!Next => P!Next \/ UNCHANGED P!vars
  BY <1>1, <1>2, <1>3, <1>4, <1>5, <1>6 DEF Pool!Next, P!Next
<1> QED
  BY <1>6, <1>7, PoolConstants, P!PoolInvStep, P!ConservationStep

(* The sorted plan is a sequence of all events in the order of Before.     *)
LEMMA SortEventsSorts ==
  /\ SortEvents(Events) \in Seq(Events)
  /\ Sorted(SortEvents(Events), Len(SortEvents(Events)))
  /\ \A e \in Events :
        \E i \in 1..Len(SortEvents(Events)) : SortEvents(Events)[i] = e
<1> DEFINE n == Cardinality(Events)
           f == SortEvents(Events)
<1>1. n \in Nat
  BY ReplayAssumption, FS_CardinalityType
<1>2. f \in Bijection(1..n, Events) /\ Sorted(f, n)
  BY ReplayAssumption, SortedExists DEF SortEvents, Sorted
<1> HIDE DEF f, n
<1>3. f \in [1..n -> Events]
  BY <1>2 DEF Bijection, Injection
<1>4. f \in Seq(Events) /\ Len(f) = n
  BY <1>1, <1>3
<1>5. \A e \in Events : \E i \in 1..n : f[i] = e
  BY <1>2 DEF Bijection, Surjection
<1> QED BY <1>2, <1>4, <1>5 DEF f

(* Number of refusals.                                                     *)
LEMMA RefusedCard ==
  ASSUME NEW S \in SUBSET Events
  PROVE  IsFiniteSet(S) /\ Cardinality(S) \in Nat
  BY ReplayAssumption, FS_Subset, FS_CardinalityType

(* What the pool and the direct sink are, when a step leaves them alone.   *)
LEMMA QuietSink ==
  ASSUME SinkInv, UNCHANGED cfg, UNCHANGED poolVars
  PROVE  /\ cfg.pooled => P!PoolInv' /\ P!Conservation'
         /\ ~cfg.pooled => DirectInv'
         /\ \A n : order' = order => (Tried(n)' <=> Tried(n))
<1>1. cfg.pooled => P!PoolInv' /\ P!Conservation'
  BY PoolMoves DEF SinkInv, PooledInv
<1>2. ~cfg.pooled => DirectInv'
  BY DEF SinkInv, DirectInv, poolVars, Pool!TypeOK
<1>3. \A n : order' = order => (Tried(n)' <=> Tried(n))
  BY DEF Tried, Offered, poolVars
<1> QED BY <1>1, <1>2, <1>3

(* A run begins with a pool that was just built.                           *)
LEMMA InitReplayInv == Init => ReplayInv
<1> SUFFICES ASSUME Init PROVE ReplayInv
  OBVIOUS
<1>1. P!PoolInv /\ P!Conservation
  <2>1. P!Init
    BY DEF Init, Pool!Init, P!Init
  <2> QED BY <2>1, PoolConstants, P!InitPoolInv, P!InitConserves
<1>2. Pool!TypeOK
  BY <1>1 DEF P!PoolInv, P!TypeOK, P!Phases, Pool!TypeOK, Pool!Phases
<1>3. LoopTypes
  <2>1. ctxDone \in BOOLEAN
    BY DEF Init
  <2>2. order \in Seq(Events) /\ Len(order) = 0
    BY DEF Init
  <2> QED BY <2>1, <2>2 DEF Init, LoopTypes
<1>4. SinkInv
  <2>1. DirectInv
    BY <1>2 DEF DirectInv, Init, Pool!Init
  <2>2. PooledInv
    BY <1>1 DEF PooledInv, Init, Pool!Init
  <2> QED BY <2>1, <2>2 DEF SinkInv, Init
<1>5. Tried(0)
  BY PoolConstants DEF Tried, Offered, Init, Pool!Init, P!PoolAssumption
<1>6. OfferInv
  BY <1>5 DEF OfferInv, Sorted, Init
<1>7. cfg.maxFailures \in Nat
  BY ReplayAssumption DEF Init
<1>8. CountInv
  BY <1>7, FS_EmptySet DEF CountInv, Noted, Refusals, Init, Pool!Init
<1>9. StopInv /\ LateInv
  BY DEF StopInv, LateInv, Init
<1> QED BY <1>3, <1>4, <1>6, <1>8, <1>9 DEF ReplayInv
-----------------------------------------------------------------------------
(* Cutting the sorted plan to the limit leaves out no event before one     *)
(* that is kept.                                                           *)
LEMMA CutsTheEnd ==
  ASSUME LoopTypes, Load, pc' = "open",
         NEW i \in DOMAIN order', NEW e \in Events, Before(e, order'[i])
  PROVE  \E j \in DOMAIN order' : order'[j] = e
<1> DEFINE all == SortEvents(Events)
<1>1. /\ all \in Seq(Events) /\ Len(all) \in Nat
      /\ \A j, k \in 1..Len(all) : j < k => Before(all[j], all[k])
  BY SortEventsSorts DEF Sorted
<1>2. cfg.limit \in Nat
  BY ReplayAssumption DEF LoopTypes
<1>3. PICK n \in Nat :
         /\ n <= Len(all) /\ DOMAIN order' = 1..n
         /\ \A k \in 1..n : order'[k] = all[k]
  <2>1. order' = IF cfg.limit > 0 /\ Len(all) > cfg.limit
                 THEN SubSeq(all, 1, cfg.limit) ELSE all
    BY DEF Load
  <2> HIDE DEF all
  <2>2. CASE cfg.limit > 0 /\ Len(all) > cfg.limit
    <3>1. /\ DOMAIN order' = 1..cfg.limit
          /\ \A k \in 1..cfg.limit : order'[k] = all[k]
      BY <1>1, <1>2, <2>1, <2>2
    <3> QED BY <1>1, <1>2, <2>2, <3>1
  <2>3. CASE ~(cfg.limit > 0 /\ Len(all) > cfg.limit)
    BY <1>1, <2>1, <2>3
  <2> QED BY <2>2, <2>3
<1>4. PICK k \in 1..Len(all) : all[k] = e
  BY SortEventsSorts
<1> HIDE DEF all
<1>5. i \in 1..Len(all) /\ i \in Nat /\ order'[i] = all[i]
  BY <1>1, <1>3
<1>6. all[i] \in Events
  BY <1>1, <1>5
<1>7. ~(i < k) /\ i # k
  BY <1>1, <1>4, <1>5, <1>6, BeforeOrders
<1>8. k \in 1..n
  BY <1>1, <1>3, <1>5, <1>7
<1> QED BY <1>3, <1>4, <1>8

(* The plan is loaded, or the run ends before the sink is opened.          *)
LEMMA LoadReplayInv ==
  ASSUME ReplayInv, Load
  PROVE  ReplayInv'
<1> USE DEF ReplayInv
<1>1. order' \in Seq(Events) /\ Sorted(order', Len(order'))
  <2> DEFINE all == SortEvents(Events)
  <2>1. all \in Seq(Events) /\ Sorted(all, Len(all))
    BY SortEventsSorts
  <2>2. cfg.limit \in Nat
    BY ReplayAssumption DEF LoopTypes
  <2> HIDE DEF all
  <2>3. ASSUME cfg.limit > 0, Len(all) > cfg.limit
        PROVE  LET f == SubSeq(all, 1, cfg.limit)
               IN  f \in Seq(Events) /\ Sorted(f, Len(f))
    <3> DEFINE f == SubSeq(all, 1, cfg.limit)
    <3>1. f \in Seq(Events) /\ Len(f) = cfg.limit
          /\ \A i \in 1..cfg.limit : f[i] = all[i]
      BY <2>1, <2>2, <2>3
    <3> HIDE DEF f
    <3>2. 1..cfg.limit \subseteq 1..Len(all)
      BY <2>1, <2>2, <2>3
    <3>3. Sorted(f, Len(f))
      BY <2>1, <3>1, <3>2 DEF Sorted
    <3> QED BY <3>1, <3>3 DEF f
  <2> QED BY <2>1, <2>3 DEF Load, LoopTypes, OfferInv, all
<1>2. cfg.pooled => P!PoolInv' /\ P!Conservation'
  BY QuietSink DEF Load, PoolUnused
<1>3. ~cfg.pooled => DirectInv'
  BY QuietSink DEF Load, PoolUnused
<1>4. Tried(0)'
  <2>1. Tried(0)
    BY DEF OfferInv, Load, Looping
  <2>2. (\A e \in Events : Offered(e)' <=> Offered(e)) /\ 1..0 = {}
    BY DEF Load, PoolUnused, poolVars, Offered
  <2> QED BY <2>1, <2>2 DEF Tried
<1>5. LoopTypes'
  <2>1. next' = 1 /\ Len(order') \in Nat
    BY <1>1 DEF OfferInv, Load
  <2> QED BY <1>1, <2>1 DEF LoopTypes, Load
<1>6. SinkInv'
  BY <1>2, <1>3 DEF SinkInv, PooledInv, Load, PoolUnused, poolVars, OfferInv
<1>7. OfferInv'
  <2>1. 0 \in 0..Len(order')
    BY <1>1
  <2>2. next' = 1
    BY DEF OfferInv, Load
  <2> QED BY <1>1, <1>4, <2>1, <2>2 DEF OfferInv, Load, Looping
<1>8. CountInv'
  BY DEF CountInv, Noted, Refusals, Looping, Load, PoolUnused, poolVars
<1>9. StopInv'
  <2>1. pc' = "returned" => Len(order') = 0
    BY DEF OfferInv, Load
  <2> QED BY <1>4, <2>1 DEF StopInv, Load
<1>10. LateInv'
  BY DEF LateInv, Load
<1> QED BY <1>5, <1>6, <1>7, <1>8, <1>9, <1>10

(* The head of the loop, pacing and a signal touch no sink.                *)
LEMMA LoopHeadReplayInv ==
  ASSUME ReplayInv, LoopHead
  PROVE  ReplayInv'
<1> USE DEF ReplayInv
<1>1. UNCHANGED cfg /\ UNCHANGED poolVars /\ order' = order
  BY DEF LoopHead, PoolUnused
<1>2. SinkInv'
  BY <1>1, QuietSink DEF SinkInv, PooledInv, LoopHead, poolVars
<1>3. \A n : Tried(n)' <=> Tried(n)
  BY <1>1, QuietSink
<1>4. LoopTypes'
  BY DEF LoopTypes, LoopHead
<1>5. OfferInv'
  BY <1>3 DEF OfferInv, LoopHead, Looping, LoopTypes
<1>6. CountInv'
  BY DEF CountInv, Noted, Refusals, Looping, LoopHead, PoolUnused, poolVars
<1>7. StopInv'
  <2>1. pc' = "flush" => next - 1 = Len(order)
    BY DEF LoopHead, LoopTypes
  <2> QED BY <1>3, <2>1 DEF StopInv, LoopHead, OfferInv, Looping
<1>8. LateInv'
  BY DEF LateInv, LoopHead
<1> QED BY <1>2, <1>4, <1>5, <1>6, <1>7, <1>8

(* Pacing moves the loop to its write, or out of it after a signal.        *)
LEMMA PaceReplayInv ==
  ASSUME ReplayInv, Pace
  PROVE  ReplayInv'
<1> USE DEF ReplayInv
<1>1. UNCHANGED cfg /\ UNCHANGED poolVars /\ order' = order
  BY DEF Pace, PoolUnused
<1>2. SinkInv'
  BY <1>1, QuietSink DEF SinkInv, PooledInv, Pace, poolVars
<1>3. \A n : Tried(n)' <=> Tried(n)
  BY <1>1, QuietSink
<1>4. LoopTypes'
  BY DEF LoopTypes, Pace
<1>5. OfferInv'
  BY <1>3 DEF OfferInv, Pace, Looping, LoopTypes
<1>6. CountInv'
  BY DEF CountInv, Noted, Refusals, Looping, Pace, PoolUnused, poolVars
<1>7. StopInv' /\ LateInv'
  BY DEF StopInv, LateInv, Pace
<1> QED BY <1>2, <1>4, <1>5, <1>6, <1>7

(* A signal changes what may happen next, and nothing that is counted.     *)
LEMMA CancelReplayInv ==
  ASSUME ReplayInv, Cancel
  PROVE  ReplayInv'
<1> USE DEF ReplayInv
<1>1. UNCHANGED cfg /\ UNCHANGED poolVars /\ order' = order
  BY DEF Cancel, mainVars, PoolUnused
<1>2. SinkInv'
  BY <1>1, QuietSink DEF SinkInv, PooledInv, Current, Cancel, mainVars, poolVars
<1>3. \A n : Tried(n)' <=> Tried(n)
  BY <1>1, QuietSink
<1>4. LoopTypes'
  BY DEF LoopTypes, Cancel, mainVars
<1>5. OfferInv'
  BY <1>3 DEF OfferInv, Cancel, mainVars, Looping
<1>6. CountInv'
  BY DEF CountInv, Noted, Current, Refusals, Looping, Cancel, mainVars,
         PoolUnused, poolVars
<1>7. StopInv' /\ LateInv'
  BY <1>3 DEF StopInv, LateInv, LimitHit, Refusals, Cancel, mainVars,
         PoolUnused, poolVars
<1> QED BY <1>2, <1>4, <1>5, <1>6, <1>7

(* Flushing waits for nothing; after it the loop's failures no longer      *)
(* match the sink's, which are added to them.                              *)
LEMMA FlushReplayInv ==
  ASSUME ReplayInv, FlushAndCount
  PROVE  ReplayInv'
<1> USE DEF ReplayInv
<1>1. UNCHANGED cfg /\ UNCHANGED poolVars /\ order' = order
  BY DEF FlushAndCount, PoolUnused
<1>2. SinkInv'
  BY <1>1, QuietSink DEF SinkInv, PooledInv, FlushAndCount, poolVars
<1>3. \A n : Tried(n)' <=> Tried(n)
  BY <1>1, QuietSink
<1>4. LoopTypes'
  <2>1. failed \in Nat
    BY DEF SinkInv, PooledInv, DirectInv, P!PoolInv, P!TypeOK, Pool!TypeOK
  <2> QED BY <2>1 DEF LoopTypes, FlushAndCount
<1>5. OfferInv'
  BY <1>3 DEF OfferInv, FlushAndCount, Looping
<1>6. CountInv'
  BY DEF CountInv, Noted, Refusals, Looping, FlushAndCount, PoolUnused, poolVars
<1>7. StopInv' /\ LateInv'
  BY <1>3 DEF StopInv, LateInv, LimitHit, Refusals, FlushAndCount,
         PoolUnused, poolVars
<1> QED BY <1>2, <1>4, <1>5, <1>6, <1>7

(* Nothing changes.                                                        *)
LEMMA StutterReplayInv ==
  ASSUME ReplayInv, UNCHANGED vars
  PROVE  ReplayInv'
<1> USE DEF ReplayInv
<1>1. UNCHANGED cfg /\ UNCHANGED poolVars /\ order' = order
  BY DEF vars, mainVars
<1>2. SinkInv'
  BY <1>1, QuietSink DEF SinkInv, PooledInv, Current, vars, mainVars, poolVars
<1>3. \A n : Tried(n)' <=> Tried(n)
  BY <1>1, QuietSink
<1>4. LoopTypes'
  BY DEF LoopTypes, vars, mainVars
<1>5. OfferInv'
  BY <1>3 DEF OfferInv, vars, mainVars, Looping
<1>6. CountInv'
  BY DEF CountInv, Noted, Current, Refusals, Looping, vars, mainVars, poolVars
<1>7. StopInv' /\ LateInv'
  BY <1>3 DEF StopInv, LateInv, LimitHit, Refusals, vars, mainVars, poolVars
<1> QED BY <1>2, <1>4, <1>5, <1>6, <1>7
-----------------------------------------------------------------------------
(* Opening a pool or a direct sink, or failing to.                         *)
LEMMA OpenReplayInv ==
  ASSUME ReplayInv, OpenSink
  PROVE  ReplayInv'
<1> USE DEF ReplayInv
<1>1. UNCHANGED <<cfg, order, next, emitted, statFailed, count, bad,
                  ctxDone, late>>
      /\ pc = "open" /\ pc' \in {"loop", "error"}
  BY DEF OpenSink
<1>2. CASE cfg.pooled
  <2>1. Pool!Open
    BY <1>2 DEF OpenSink
  <2>2. P!PoolInv' /\ P!Conservation'
    BY <1>2, <2>1, PoolMoves DEF SinkInv, PooledInv, Pool!Next
  <2>3. UNCHANGED <<onFull, jobs, spc, carried, hand, submitted,
                    processed, failed, writes, refused, accepted, owed>>
    BY <2>1 DEF Pool!Open, Pool!submitterVars, Pool!stats, Pool!history
  <2>4. \/ pc' = "loop" /\ phase' = "open"
        \/ pc' = "error" /\ phase' = "broken"
    BY <1>2, <2>1 DEF OpenSink, Pool!Open
  <2>5. SinkInv'
    BY <1>1, <1>2, <2>2, <2>3, <2>4 DEF SinkInv, PooledInv
  <2>6. \A n : Tried(n)' <=> Tried(n)
    BY <1>1, <2>3 DEF Tried, Offered
  <2>7. CountInv'
    BY <1>1, <2>3 DEF CountInv, Noted, Refusals, Looping
  <2> QED BY <1>1, <2>5, <2>6, <2>7
          DEF LoopTypes, OfferInv, Looping, StopInv, LateInv
<1>3. CASE ~cfg.pooled
  <2>1. UNCHANGED poolVars
    BY <1>3 DEF OpenSink, PoolUnused
  <2>2. SinkInv' /\ \A n : Tried(n)' <=> Tried(n)
    BY <1>1, <1>3, <2>1, QuietSink DEF SinkInv
  <2>3. CountInv'
    BY <1>1, <2>1 DEF CountInv, Noted, Refusals, Looping, poolVars
  <2> QED BY <1>1, <2>2, <2>3
          DEF LoopTypes, OfferInv, Looping, StopInv, LateInv
<1> QED BY <1>2, <1>3

(* The next event is the first that has not been offered.                  *)
LEMMA CurrentIsNew ==
  ASSUME ReplayInv, pc \in {"pace", "write"}
  PROVE  /\ Current \in Events /\ ~Offered(Current)
         /\ next \in 1..Len(order)
         /\ \A e \in Events :
               (\E i \in 1..next : order[i] = e)
                   <=> e = Current \/ \E i \in 1..(next - 1) : order[i] = e
<1> USE DEF ReplayInv
<1>1. next \in 1..Len(order) /\ Tried(next - 1)
      /\ order \in Seq(Events) /\ Sorted(order, Len(order))
  BY DEF LoopTypes, OfferInv, Looping
<1>2. Current \in Events
  BY <1>1 DEF Current
<1>3. \A i \in 1..(next - 1) : order[i] # Current
  <2> SUFFICES ASSUME NEW i \in 1..(next - 1) PROVE order[i] # Current
    OBVIOUS
  <2>1. i \in 1..Len(order) /\ i < next
    BY <1>1
  <2>2. Before(order[i], Current)
    BY <1>1, <2>1 DEF Sorted, Current
  <2> QED BY <1>2, <2>2, BeforeOrders
<1>4. ~Offered(Current)
  BY <1>1, <1>2, <1>3 DEF Tried
<1>5. 1..next = 1..(next - 1) \cup {next}
  BY <1>1
<1> QED BY <1>1, <1>2, <1>4, <1>5 DEF Current

(* Whatever the loop makes of a write, the event has been offered, and the *)
(* loop goes on with the next one or stops.                                *)
LEMMA VerdictOffered ==
  ASSUME ReplayInv, next \in 1..Len(order), UNCHANGED <<cfg, order>>,
         \A n : n = next => Tried(n)', WriteOk \/ WriteFailed
  PROVE  OfferInv' /\ next' \in 1..(Len(order') + 1)
         /\ pc' \in {"loop", "flush"}
<1>1. Len(order) \in Nat /\ Sorted(order, Len(order))
  BY DEF ReplayInv, LoopTypes, OfferInv
<1>2. next \in 0..Len(order) /\ Len(order') = Len(order)
  BY <1>1
<1>3. \E n \in 0..Len(order') : Tried(n)'
  BY <1>2
<1>4. \/ pc' = "loop" /\ next' = next + 1
      \/ pc' = "flush" /\ next' = next
  BY DEF WriteOk, WriteFailed
<1>5. pc' = "loop" => Tried(next - 1)'
  BY <1>1, <1>4
<1> QED BY <1>1, <1>2, <1>3, <1>4, <1>5 DEF OfferInv, Looping

(* A direct sink writes the event at once and counts what the loop counts. *)
LEMMA WriteDirectReplayInv ==
  ASSUME ReplayInv, WriteDirect
  PROVE  ReplayInv'
<1> USE DEF ReplayInv
<1>1. /\ pc = "write" /\ ~cfg.pooled
      /\ UNCHANGED <<onFull, phase, jobs, spc, carried, wpc, hand, submitted,
                     processed, failed, refused, accepted, owed,
                     cfg, order, ctxDone>>
      /\ writes' = [writes EXCEPT ![Current] = @ + 1]
  BY DEF WriteDirect
<1>2. /\ Current \in Events /\ ~Offered(Current) /\ next \in 1..Len(order)
      /\ \A e \in Events :
            (\E i \in 1..next : order[i] = e)
                <=> e = Current \/ \E i \in 1..(next - 1) : order[i] = e
  BY <1>1, CurrentIsNew
<1>3. DirectInv
  BY <1>1 DEF SinkInv
<1>4. writes[Current] = 0 /\ writes \in [Events -> Nat]
  BY <1>1, <1>2, <1>3 DEF DirectInv, Pool!TypeOK, Offered
<1>5. SinkInv'
  <2>1. DirectInv'
    BY <1>1, <1>2, <1>3, <1>4 DEF DirectInv, Pool!TypeOK
  <2> QED BY <1>1, <2>1 DEF SinkInv, WriteDirect, WriteOk, WriteFailed
<1>6. \A n : n = next => Tried(n)'
  <2>1. Tried(next - 1)
    BY <1>1 DEF OfferInv, Looping
  <2> HIDE DEF ReplayInv
  <2> QED BY <1>1, <1>2, <1>4, <2>1 DEF Tried, Offered
<1>7. WriteOk \/ WriteFailed
  BY DEF WriteDirect
<1>8. OfferInv' /\ next' \in 1..(Len(order') + 1) /\ pc' \in {"loop", "flush"}
  BY <1>1, <1>2, <1>6, <1>7, VerdictOffered
<1>9. bad \in Nat /\ statFailed = bad /\ emitted = count
      /\ cfg.maxFailures \in Nat
      /\ (cfg.maxFailures > 0 => statFailed < cfg.maxFailures)
  BY <1>1, ReplayAssumption DEF CountInv, Noted, Looping, LoopTypes
<1>10. LoopTypes'
  BY <1>1, <1>8 DEF LoopTypes, WriteDirect, WriteOk, WriteFailed, LateBy
<1>11. CountInv' /\ StopInv'
  <2>1. CASE WriteOk /\ count' = count + 1 /\ UNCHANGED bad
    BY <1>1, <1>9, <2>1
    DEF WriteOk, CountInv, Noted, Refusals, Looping, StopInv
  <2>2. CASE WriteFailed /\ bad' = bad + 1 /\ UNCHANGED count
    BY <1>1, <1>9, <2>2
    DEF WriteFailed, CountInv, Noted, Refusals, Looping, StopInv, LimitHit
  <2> QED BY <2>1, <2>2 DEF WriteDirect
<1>12. LateInv'
  BY <1>1, <1>8 DEF LateInv, LoopTypes, WriteDirect, LateBy
<1> QED BY <1>5, <1>8, <1>10, <1>11, <1>12
-----------------------------------------------------------------------------
(* The current event enters Submit.                                        *)
LEMMA WriteBeginReplayInv ==
  ASSUME ReplayInv, WriteBegin
  PROVE  ReplayInv'
<1> USE DEF ReplayInv
<1>1. /\ pc = "write" /\ cfg.pooled /\ pc' = "submit"
      /\ UNCHANGED <<cfg, order, next, emitted, statFailed, count,
                     bad, ctxDone>>
      /\ Pool!SubmitBegin("replay", Current)
  BY DEF WriteBegin
<1>2. /\ Current \in Events /\ ~Offered(Current) /\ next \in 1..Len(order)
      /\ \A e \in Events :
            (\E i \in 1..next : order[i] = e)
                <=> e = Current \/ \E i \in 1..(next - 1) : order[i] = e
  BY <1>1, CurrentIsNew
<1>3. PooledInv
  BY <1>1 DEF SinkInv
<1>4. P!PoolInv' /\ P!Conservation'
  BY <1>1, <1>2, <1>3, PoolMoves DEF PooledInv, Pool!Next
<1>5. /\ UNCHANGED <<phase, failed, refused, accepted, owed>>
      /\ submitted' = submitted + 1
      /\ spc["replay"] = "idle" /\ spc' = [spc EXCEPT !["replay"] = "check"]
      /\ carried' = [carried EXCEPT !["replay"] = Current]
  BY <1>1 DEF Pool!SubmitBegin, Pool!history
<1>6. carried["replay"] = NoEvent /\ carried'["replay"] = Current
  BY <1>3, <1>5 DEF PooledInv, P!PoolInv, P!TypeOK, P!CarriedInv
<1>7. Current' = Current
  BY <1>1 DEF Current
<1>8. SinkInv'
  BY <1>1, <1>3, <1>4, <1>5, <1>6, <1>7 DEF SinkInv, PooledInv
<1>9. OfferInv'
  <2>1. Tried(next - 1)
    BY <1>1 DEF OfferInv, Looping
  <2>2. NoEvent \notin Events
    BY PooledAssumption
  <2>3. \A n : n = next => Tried(n)'
    <3> HIDE DEF ReplayInv
    <3> QED BY <1>1, <1>2, <1>5, <1>6, <2>1, <2>2 DEF Tried, Offered
  <2>4. Tried(next)'
    BY <1>1, <2>3
  <2>5. next \in 0..Len(order)
    BY <1>2
  <2>6. \E n \in 0..Len(order') : Tried(n)'
    BY <1>1, <2>3, <2>5
  <2> QED BY <1>1, <1>2, <2>4, <2>6 DEF OfferInv, Looping
<1>10. CountInv'
  <2>1. Current \notin refused
    BY <1>1, <1>2 DEF Offered
  <2>2. refused \ {Current} = refused
    BY <2>1
  <2>3. Noted' = Noted
    BY <1>1, <1>5, <1>7, <2>2 DEF Noted
  <2>4. Noted \in Nat /\ emitted \in Nat
    <3>1. refused \in SUBSET Events
      BY <1>3 DEF PooledInv, P!PoolInv, P!TypeOK
    <3> QED BY <1>1, <3>1, RefusedCard DEF Noted, LoopTypes
  <2> QED BY <1>1, <1>5, <2>3, <2>4 DEF CountInv, Refusals, Looping
<1>11. LoopTypes' /\ StopInv' /\ LateInv'
  BY <1>1 DEF LoopTypes, StopInv, LateInv, WriteBegin, LateBy
<1> QED BY <1>8, <1>9, <1>10, <1>11

(* Inside Submit the event is accepted, refused, or on its way.            *)
LEMMA WriteStepReplayInv ==
  ASSUME ReplayInv, WriteStep
  PROVE  ReplayInv'
<1> USE DEF ReplayInv
<1>1. /\ pc = "submit" /\ UNCHANGED <<mainVars, ctxDone>>
      /\ Pool!Submit("replay")
  BY DEF WriteStep
<1>2. Current' = Current
  BY <1>1 DEF Current, mainVars
<1>3. Pool!Submit("replay") => spc["replay"] # "idle"
  BY DEF Pool!Submit, Pool!SubmitCheckOpen, Pool!SubmitFindsClosed,
         Pool!SubmitSend, Pool!SubmitFull, Pool!SubmitCancelled
<1>4. cfg.pooled /\ PooledInv
  BY <1>1, <1>3 DEF SinkInv, DirectInv
<1>5. P!PoolInv' /\ P!Conservation'
  BY <1>1, <1>4, PoolMoves DEF PooledInv, Pool!Next
<1>6. /\ carried["replay"] = Current /\ Current # NoEvent
      /\ Current \notin refused \cup accepted
      /\ Current \in Events
      /\ refused \in SUBSET Events /\ failed \in Nat
      /\ spc \in [{"replay"} -> {"idle", "check", "send"}]
      /\ carried \in [{"replay"} -> Events \cup {NoEvent}]
  BY <1>1, <1>3, <1>4 DEF PooledInv, P!PoolInv, P!TypeOK, P!CarriedInv
<1>7. /\ UNCHANGED <<phase, submitted, owed>>
      /\ \/ UNCHANGED <<carried, refused, accepted, failed>>
         \/ /\ carried' = [carried EXCEPT !["replay"] = NoEvent]
            /\ refused' = refused \cup {Current} /\ failed' = failed + 1
            /\ UNCHANGED accepted
         \/ /\ carried' = [carried EXCEPT !["replay"] = NoEvent]
            /\ accepted' = accepted \cup {Current}
            /\ UNCHANGED <<refused, failed>>
  BY <1>1, <1>6
  DEF Pool!Submit, Pool!SubmitCheckOpen, Pool!SubmitFindsClosed,
      Pool!SubmitSend, Pool!SubmitFull, Pool!SubmitCancelled, Pool!Refuse,
      Pool!stats, Pool!history
<1>8. SinkInv'
  BY <1>1, <1>2, <1>4, <1>5, <1>6, <1>7 DEF SinkInv, PooledInv, mainVars
<1>9. \A n : Tried(n)' <=> Tried(n)
  <2>1. NoEvent \notin Events
    BY PooledAssumption
  <2>2. \A e \in Events : Offered(e)' <=> Offered(e)
    BY <1>1, <1>4, <1>6, <1>7, <2>1 DEF Offered, mainVars
  <2> QED BY <1>1, <2>2 DEF Tried, mainVars
<1>10. OfferInv'
  BY <1>1, <1>9 DEF OfferInv, mainVars, Looping
<1>11. CountInv'
  <2>1. Noted' = Noted
    <3>1. refused' \ {Current} = refused \ {Current}
      BY <1>7
    <3> QED BY <1>1, <1>2, <1>4, <3>1 DEF Noted, mainVars
  <2>2. /\ Cardinality(refused) \in Nat
        /\ Cardinality(refused \ {Current}) = Cardinality(refused)
        /\ Cardinality(refused') = Cardinality(refused)
           \/ (Cardinality(refused') = Cardinality(refused) + 1
               /\ failed' = failed + 1)
        /\ failed' = failed \/ failed' = failed + 1
    <3>1. IsFiniteSet(refused) /\ Cardinality(refused) \in Nat
      BY <1>6, RefusedCard
    <3>2. refused \ {Current} = refused
      BY <1>6
    <3>3. Cardinality(refused \cup {Current}) = Cardinality(refused) + 1
      BY <1>6, <3>1, FS_AddElement
    <3> QED BY <1>7, <3>1, <3>2, <3>3
  <2>3. cfg.maxFailures \in Nat /\ statFailed \in Nat
        /\ statFailed = Cardinality(refused)
    BY <1>1, <1>4, <2>2, ReplayAssumption DEF LoopTypes, CountInv, Noted
  <2>4. cfg.maxFailures > 0 => Refusals' <= cfg.maxFailures
    BY <1>1, <1>4, <2>2, <2>3 DEF CountInv, Refusals, mainVars
  <2>5. Cardinality(refused') <= failed'
    BY <1>1, <1>4, <1>6, <2>2 DEF CountInv
  <2> QED BY <1>1, <1>4, <1>7, <2>1, <2>4, <2>5
          DEF CountInv, mainVars, Looping
<1>12. LoopTypes' /\ StopInv' /\ LateInv'
  BY <1>1 DEF LoopTypes, StopInv, LateInv, mainVars
<1> QED BY <1>8, <1>10, <1>11, <1>12

(* The result of Submit reaches the loop.                                  *)
LEMMA WriteEndReplayInv ==
  ASSUME ReplayInv, WriteEnd
  PROVE  ReplayInv'
<1> USE DEF ReplayInv
<1>1. /\ pc = "submit" /\ spc["replay"] = "idle"
      /\ UNCHANGED <<cfg, order, count, bad, ctxDone, late>>
      /\ UNCHANGED poolVars
  BY DEF WriteEnd, PoolUnused
<1>2. CASE cfg.pooled
  <2>1. PooledInv
    BY <1>2 DEF SinkInv
  <2>2. WriteOk \/ WriteFailed
    BY DEF WriteEnd
  <2>3. SinkInv'
    <3>1. P!PoolInv' /\ P!Conservation'
      BY <1>1, <1>2, QuietSink
    <3>2. pc' \in {"loop", "flush"}
      BY <2>2 DEF WriteOk, WriteFailed
    <3> QED BY <1>1, <1>2, <2>1, <3>1, <3>2 DEF SinkInv, PooledInv, poolVars
  <2>4. \A n : n = next => Tried(n)'
    BY <1>1, QuietSink DEF OfferInv
  <2>5. next \in 1..Len(order)
    BY <1>1 DEF OfferInv, LoopTypes
  <2>6. OfferInv' /\ next' \in 1..(Len(order') + 1) /\ pc' \in {"loop", "flush"}
    BY <1>1, <2>2, <2>4, <2>5, VerdictOffered
  <2>7. /\ cfg.maxFailures \in Nat /\ emitted \in Nat /\ statFailed \in Nat
        /\ statFailed = Noted /\ submitted = emitted + Noted + 1
        /\ Noted = Cardinality(refused \ {Current})
        /\ Cardinality(refused) <= failed
        /\ (cfg.maxFailures > 0 => statFailed < cfg.maxFailures)
    BY <1>1, <1>2, ReplayAssumption DEF LoopTypes, CountInv, Noted
  <2>8. IsFiniteSet(refused) /\ Cardinality(refused) \in Nat
    <3>1. refused \in SUBSET Events
      BY <2>1 DEF PooledInv, P!PoolInv, P!TypeOK
    <3> QED BY <3>1, RefusedCard
  <2>9. LoopTypes'
    BY <1>1, <2>2, <2>6 DEF LoopTypes, WriteOk, WriteFailed
  <2>10. UNCHANGED <<submitted, refused, failed>>
    BY <1>1 DEF poolVars
  <2>11. CountInv' /\ StopInv'
    <3>1. CASE Current \in refused
      <4>1. Cardinality(refused \ {Current}) = Cardinality(refused) - 1
        BY <2>8, <3>1, FS_RemoveElement
      <4>2. WriteFailed
        BY <3>1 DEF WriteEnd
      <4> QED BY SMTT(30), <1>1, <1>2, <2>7, <2>8, <2>10, <4>1, <4>2
              DEF WriteFailed, CountInv, Noted, Refusals, Looping,
                  StopInv, LimitHit
    <3>2. CASE Current \notin refused
      <4>1. refused \ {Current} = refused
        BY <3>2
      <4>2. WriteOk
        BY <3>2 DEF WriteEnd
      <4> QED BY <1>1, <1>2, <2>7, <2>8, <2>10, <4>1, <4>2
              DEF WriteOk, CountInv, Noted, Refusals, Looping, StopInv
    <3> QED BY <3>1, <3>2
  <2>12. LateInv'
    BY <1>1, <2>6 DEF LateInv
  <2> QED BY <2>3, <2>6, <2>9, <2>11, <2>12
<1>3. cfg.pooled
  BY <1>1 DEF SinkInv
<1> QED BY <1>2, <1>3
-----------------------------------------------------------------------------
(* A worker's step changes nothing that the loop has counted.              *)
LEMMA WorkReplayInv ==
  ASSUME ReplayInv, NEW w \in Workers, Work(w)
  PROVE  ReplayInv'
<1> USE DEF ReplayInv
<1>1. UNCHANGED <<mainVars, ctxDone>> /\ Pool!RunWorker(w)
  BY DEF Work
<1>2. cfg.pooled /\ PooledInv
  BY <1>1 DEF SinkInv, DirectInv, Pool!RunWorker, Pool!TakeJob, Pool!SeeCancel,
              Pool!Exit, Pool!ProcessEvent
<1>3. P!PoolInv' /\ P!Conservation'
  BY <1>1, <1>2, PoolMoves DEF PooledInv, Pool!Next
<1>4. failed \in Nat
  BY <1>2 DEF PooledInv, P!PoolInv, P!TypeOK
<1>5. /\ UNCHANGED <<phase, spc, carried, submitted, refused, accepted, owed>>
      /\ failed' \in {failed, failed + 1}
  BY <1>1 DEF Pool!RunWorker, Pool!TakeJob, Pool!SeeCancel, Pool!Exit,
              Pool!ProcessEvent, Pool!submitterVars, Pool!stats, Pool!history
<1>6. SinkInv'
  BY <1>1, <1>2, <1>3, <1>5 DEF SinkInv, PooledInv, Current, mainVars
<1>7. \A n : Tried(n)' <=> Tried(n)
  BY <1>1, <1>2, <1>5 DEF Tried, Offered, mainVars
<1>8. LoopTypes' /\ LateInv'
  BY <1>1 DEF LoopTypes, LateInv, mainVars
<1>9. OfferInv'
  BY <1>1, <1>7 DEF OfferInv, Looping, mainVars
<1>10. CountInv'
  <2>1. Cardinality(refused) \in Nat
    BY <1>2, RefusedCard DEF PooledInv, P!PoolInv, P!TypeOK
  <2> QED BY <1>1, <1>2, <1>4, <1>5, <2>1
          DEF CountInv, Noted, Current, Refusals, Looping, mainVars
<1>11. StopInv'
  BY <1>1, <1>2, <1>5, <1>7 DEF StopInv, LimitHit, Refusals, mainVars
<1> QED BY <1>6, <1>8, <1>9, <1>10, <1>11

(* The deferred Close, a step of the pool's Close at a time.               *)
LEMMA CloseReplayInv ==
  ASSUME ReplayInv, CloseSink
  PROVE  ReplayInv'
<1> USE DEF ReplayInv
<1>1. /\ pc \in {"close", "abandon"}
      /\ UNCHANGED <<cfg, order, next, emitted, statFailed, count, bad,
                     ctxDone, late>>
  BY DEF CloseSink
<1>2. CASE cfg.pooled /\ phase # "closed"
  <2>1. Pool!Close /\ UNCHANGED pc
    BY <1>2 DEF CloseSink
  <2>2. PooledInv
    BY <1>2 DEF SinkInv
  <2>3. P!PoolInv' /\ P!Conservation'
    BY <2>1, <2>2, PoolMoves DEF PooledInv, Pool!Next
  <2>4. /\ UNCHANGED <<spc, carried, submitted, failed, writes,
                       refused, accepted>>
        /\ \/ phase = "open" /\ phase' = "marked" /\ owed' = accepted
           \/ /\ phase \notin {"new", "broken", "open"} /\ UNCHANGED owed
              /\ phase' \in {"cancelled", "joined", "closed"}
    BY <2>1 DEF Pool!Close, Pool!CloseMark, Pool!CloseCancel, Pool!CloseJoin,
                Pool!CloseSink, Pool!submitterVars, Pool!stats, Pool!history
  <2>5. SinkInv'
    BY <1>1, <1>2, <2>1, <2>2, <2>3, <2>4 DEF SinkInv, PooledInv
  <2>6. \A n : Tried(n)' <=> Tried(n)
    BY <1>1, <2>4 DEF Tried, Offered
  <2>7. LoopTypes' /\ LateInv'
    BY <1>1, <2>1 DEF LoopTypes, LateInv
  <2>8. OfferInv'
    BY <1>1, <2>1, <2>6 DEF OfferInv, Looping
  <2>9. CountInv'
    BY <1>1, <2>1, <2>4 DEF CountInv, Noted, Refusals, Looping
  <2>10. StopInv'
    BY <1>1, <2>1, <2>4, <2>6 DEF StopInv, LimitHit, Refusals
  <2> QED BY <2>5, <2>7, <2>8, <2>9, <2>10
<1>3. CASE ~(cfg.pooled /\ phase # "closed")
  <2>1. UNCHANGED poolVars
        /\ pc' = IF pc = "close" THEN "returned" ELSE "interrupted"
    BY <1>3 DEF CloseSink, PoolUnused
  <2>2. SinkInv'
    BY <1>1, <1>3, <2>1, QuietSink DEF SinkInv, PooledInv, poolVars
  <2>3. \A n : Tried(n)' <=> Tried(n)
    BY <1>1, <2>1, QuietSink
  <2>4. LoopTypes' /\ LateInv'
    BY <1>1, <2>1 DEF LoopTypes, LateInv
  <2>5. OfferInv'
    BY <1>1, <2>1, <2>3 DEF OfferInv, Looping
  <2>6. CountInv'
    BY <1>1, <2>1 DEF CountInv, Noted, Refusals, Looping, poolVars
  <2>7. StopInv'
    BY <1>1, <2>1, <2>3 DEF StopInv, LimitHit, Refusals, poolVars
  <2> QED BY <2>2, <2>4, <2>5, <2>6, <2>7
<1> QED BY <1>2, <1>3

(* Every step of a replay keeps the invariant.                             *)
LEMMA ReplayInvStep == ReplayInv /\ [Next]_vars => ReplayInv'
  BY LoadReplayInv, OpenReplayInv, LoopHeadReplayInv, PaceReplayInv,
     WriteDirectReplayInv, WriteBeginReplayInv, WriteStepReplayInv,
     WriteEndReplayInv, FlushReplayInv, CloseReplayInv, WorkReplayInv,
     CancelReplayInv, StutterReplayInv
  DEF Next, Main, Returned

(* The invariant holds in every state of every replay.                     *)
THEOREM ReplayInvariant == Spec => []ReplayInv
  BY InitReplayInv, ReplayInvStep, PTL DEF Spec

(* The loop's variables and the pool's keep their types.                   *)
THEOREM ReplayTypesHold == Spec => []TypeOK
<1>1. ReplayInv => TypeOK
  BY DEF ReplayInv, LoopTypes, SinkInv, PooledInv, DirectInv, TypeOK,
         P!PoolInv, P!TypeOK, P!Phases, Pool!TypeOK, Pool!Phases
<1> QED BY ReplayInvariant, <1>1, PTL

(* A cancelled context lets at most one more write begin.                  *)
THEOREM AtMostOneLateWriteHolds == Spec => []AtMostOneLateWrite
<1>1. ReplayInv => AtMostOneLateWrite
  BY DEF ReplayInv, LateInv, AtMostOneLateWrite
<1> QED BY ReplayInvariant, <1>1, PTL
(* A pool holds nothing once it is closed, or before anything was offered. *)
LEMMA NothingLeft ==
  ASSUME ReplayInv, pc # "submit", cfg.pooled, phase = "closed" \/ Tried(0)
  PROVE  /\ jobs = <<>> /\ P!Writing = {} /\ P!Busy = {}
         /\ \A e \in accepted : writes[e] = 1
         /\ carried["replay"] = NoEvent
<1>1. PooledInv /\ P!PoolInv
  BY DEF ReplayInv, SinkInv, PooledInv
<1>2. P!TypeOK /\ jobs \in Seq(Events) /\ accepted \in SUBSET Events
  BY <1>1 DEF P!PoolInv, P!TypeOK
<1>3. spc["replay"] = "idle"
  BY <1>1 DEF PooledInv
<1>4. carried["replay"] = NoEvent
  BY <1>1, <1>3 DEF P!PoolInv, P!CarriedInv
<1>5. P!Busy = {}
  BY <1>3 DEF P!Busy
<1>6. CASE phase = "closed"
  <2>1. \A w \in Workers : wpc[w] = "exited" /\ hand[w] = NoEvent
    BY <1>1, <1>6 DEF P!PoolInv, P!CloseInv
  <2>2. owed = accepted
    BY <1>1, <1>6 DEF PooledInv
  <2>3. PICK w \in Workers : TRUE
    BY PooledAssumption
  <2>4. \A e \in accepted : ~P!InQueue(e)
    BY <1>1, <2>1, <2>2, <2>3 DEF P!PoolInv, P!CloseInv
  <2>5. \A i \in 1..Len(jobs) : jobs[i] \in accepted
    BY <1>1 DEF P!PoolInv, P!QueueInv
  <2>6. 1..Len(jobs) = {}
    BY <2>4, <2>5 DEF P!InQueue
  <2>7. jobs = <<>>
    <3>1. Len(jobs) \in Nat /\ ~(1 <= Len(jobs))
      BY <1>2, <2>6
    <3>2. Len(jobs) = 0
      BY <3>1
    <3> QED BY <1>2, <3>2, EmptySeq
  <2>8. \A e \in accepted : writes[e] = 1
    BY <1>1, <1>2, <2>1, <2>4, PooledAssumption
    DEF P!PoolInv, P!AcceptedInv, P!InHand
  <2> QED BY <1>4, <1>5, <2>1, <2>7, <2>8 DEF P!Writing
<1>7. CASE phase # "closed"
  <2>1. Tried(0)
    BY <1>7
  <2>2. accepted = {}
    BY <1>2, <2>1 DEF Tried, Offered
  <2>3. 1..Len(jobs) = {}
    BY <1>1, <2>2 DEF P!PoolInv, P!QueueInv
  <2>4. jobs = <<>>
    <3>1. Len(jobs) \in Nat /\ ~(1 <= Len(jobs))
      BY <1>2, <2>3
    <3>2. Len(jobs) = 0
      BY <3>1
    <3> QED BY <1>2, <3>2, EmptySeq
  <2>5. P!Writing = {}
    BY <1>1, <2>2 DEF P!PoolInv, P!HandInv, P!Writing
  <2> QED BY <1>4, <1>5, <2>2, <2>4, <2>5
<1> QED BY <1>6, <1>7

(* A replay ends with its pool closed, or before it offered anything.      *)
LEMMA HowItEnds ==
  ASSUME ReplayInv, Over, cfg.pooled
  PROVE  phase = "closed" \/ Tried(0)
<1> USE DEF Over
<1>1. pc = "error" => Tried(0)
  BY DEF ReplayInv, OfferInv
<1>2. ASSUME pc # "error", phase # "closed" PROVE Tried(0)
  <2>1. order = <<>>
    BY <1>2 DEF ReplayInv, SinkInv, PooledInv
  <2>2. Len(order) = 0
    BY <2>1
  <2>3. PICK n \in 0..Len(order) : Tried(n)
    BY DEF ReplayInv, OfferInv
  <2> QED BY <2>2, <2>3
<1> QED BY <1>1, <1>2

(* The emitted statistic brackets what reached the endpoint.               *)
THEOREM EmittedBracketHolds == Spec => []EmittedBracket
<1>1. ReplayInv => EmittedBracket
  <2> SUFFICES ASSUME ReplayInv, Over
               PROVE  Succeeded <= emitted /\ emitted <= Succeeded + SinkFailed
    BY DEF EmittedBracket
  <2>1. emitted \in Nat /\ count \in Nat /\ bad \in Nat
    BY DEF ReplayInv, LoopTypes
  <2>2. CASE ~cfg.pooled
    BY <2>1, <2>2 DEF ReplayInv, CountInv, Succeeded, SinkFailed
  <2>3. CASE cfg.pooled
    <3>1. P!PoolInv /\ P!Conservation
      BY <2>3 DEF ReplayInv, SinkInv, PooledInv
    <3>2. jobs = <<>> /\ P!Writing = {} /\ P!Busy = {}
      BY <2>3, NothingLeft, HowItEnds DEF Over
    <3>3. P!Cardinality({}) = 0
      BY FS_EmptySet DEF P!Cardinality, Cardinality
    <3>4. Len(<<>>) = 0
      OBVIOUS
    <3>5. processed \in Nat /\ failed \in Nat /\ refused \in SUBSET Events
      BY <3>1 DEF P!PoolInv, P!TypeOK
    <3>6. submitted = processed + failed
      BY <3>1, <3>2, <3>3, <3>4, <3>5 DEF P!Conservation
    <3>7. submitted = emitted + Cardinality(refused)
          /\ Cardinality(refused) <= failed
      <4>1. Cardinality(refused) \in Nat
        BY <3>5, RefusedCard
      <4> QED BY <2>1, <2>3, <4>1 DEF ReplayInv, CountInv, Noted, Over
    <3>8. Cardinality(refused) \in Nat
      BY <3>5, RefusedCard
    <3> QED BY <2>1, <2>3, <3>5, <3>6, <3>7, <3>8 DEF Succeeded, SinkFailed
  <2> QED BY <2>2, <2>3
<1> QED BY ReplayInvariant, <1>1, PTL

(* --max-failures bounds the failures the loop sees, and nothing but that  *)
(* limit or a signal leaves an event of the plan without an outcome.       *)
THEOREM LoopStopsAtMaxFailuresHolds == Spec => []LoopStopsAtMaxFailures
<1>1. ReplayInv => LoopStopsAtMaxFailures
  <2> SUFFICES ASSUME ReplayInv PROVE LoopStopsAtMaxFailures
    OBVIOUS
  <2>1. cfg.maxFailures > 0 => Refusals <= cfg.maxFailures
    BY DEF ReplayInv, CountInv
  <2>2. ASSUME pc = "returned", ~ctxDone, Tried(Len(order)),
               NEW e \in Range(order)
        PROVE  writes[e] = 1 \/ e \in refused
    <3>1. order \in Seq(Events)
      BY DEF ReplayInv, LoopTypes
    <3>2. PICK i \in 1..Len(order) : order[i] = e
      BY <3>1 DEF Range
    <3>3. e \in Events /\ Offered(e)
      BY <2>2, <3>1, <3>2 DEF Tried
    <3>4. CASE ~cfg.pooled
      BY <3>3, <3>4 DEF Offered
    <3>5. CASE cfg.pooled
      <4>1. /\ \A d \in accepted : writes[d] = 1
            /\ carried["replay"] = NoEvent
        BY <2>2, <3>5, NothingLeft, HowItEnds DEF Over
      <4> QED BY <3>3, <3>5, <4>1, PooledAssumption DEF Offered
    <3> QED BY <3>4, <3>5
  <2>3. pc = "returned" /\ ~ctxDone => LimitHit \/ Tried(Len(order))
    BY DEF ReplayInv, StopInv
  <2> QED BY <2>1, <2>2, <2>3 DEF LoopStopsAtMaxFailures, LimitHit
<1> QED BY ReplayInvariant, <1>1, PTL
-----------------------------------------------------------------------------
(* Replay implements Delivery.  What Delivery sees of a replay:            *)
StatusMap    == [e \in Events |-> Status(e)]
OfferedCount == Cardinality({e \in Events : Status(e) # "waiting"})

(* A step of Delivery that nothing is seen of.                             *)
LEMMA Unseen ==
  ASSUME order' = order, \A e \in Events : Status(e)' = Status(e), Over' = Over
  PROVE  UNCHANGED Promise!vars
  BY DEF Promise!vars

(* The replay is over, with nothing taken.                                 *)
LEMMA StopStep ==
  ASSUME order' = order, \A e \in Events : Status(e)' = Status(e), Over',
         \A e \in Events : Status(e) # "taken"
  PROVE  Promise!Stop
  BY DEF Promise!Stop

(* A taken event gets its outcome.                                         *)
LEMMA SettleStep ==
  ASSUME ~Over, ~Over', order' = order, NEW e \in Events, Status(e) = "taken",
         NEW v \in {"refused", "written"},
         \A d \in Events : Status(d)' = IF d = e THEN v ELSE Status(d)
  PROVE  Promise!Settle(e)
<1>1. {d \in Events : Status(d) # "waiting"}
          = {d \in Events : Status(d)' # "waiting"}
  OBVIOUS
<1>2. OfferedCount' = OfferedCount
  BY <1>1 DEF OfferedCount
<1>3. StatusMap' = [StatusMap EXCEPT ![e] = v]
  BY DEF StatusMap
<1>4. StatusMap[e] = "taken"
  BY DEF StatusMap
<1>5. Over' = Over
  BY DEF Over
<1> QED
  BY <1>2, <1>3, <1>4, <1>5 DEF Promise!Settle, StatusMap, OfferedCount

(* The next event of the plan is offered.                                  *)
LEMMA OfferStep ==
  ASSUME ~Over, ~Over', order' = order, NEW c \in Events,
         NEW n \in Nat, OfferedCount = n, OfferedCount' = n + 1,
         n < Len(order), order[n + 1] = c, Status(c) = "waiting",
         NEW v \in {"taken", "refused", "written"},
         \A d \in Events : Status(d)' = IF d = c THEN v ELSE Status(d)
  PROVE  Promise!Offer
<1>1. StatusMap' = [StatusMap EXCEPT ![c] = v]
  BY DEF StatusMap
<1>2. StatusMap[c] = "waiting"
  BY DEF StatusMap
<1>3. Over' = Over
  BY DEF Over
<1> QED BY <1>1, <1>2, <1>3 DEF Promise!Offer, StatusMap, OfferedCount

(* The first n events of a sorted plan are n events.                       *)
LEMMA FirstEvents ==
  ASSUME NEW ord \in Seq(Events), Sorted(ord, Len(ord)), NEW n \in 0..Len(ord),
         NEW T \in SUBSET Events,
         \A e \in Events : e \in T <=> \E i \in 1..n : ord[i] = e
  PROVE  Cardinality(T) = n
<1> DEFINE f == [i \in 1..n |-> ord[i]]
<1>1. 1..n \subseteq 1..Len(ord) /\ n \in Nat
  OBVIOUS
<1>2. \A i \in 1..n : f[i] \in Events /\ f[i] \in T
  BY <1>1
<1>3. \A i, j \in 1..n : f[i] = f[j] => i = j
  <2> SUFFICES ASSUME NEW i \in 1..n, NEW j \in 1..n, i < j
               PROVE  f[i] # f[j]
    OBVIOUS
  <2>1. Before(ord[i], ord[j])
    BY <1>1 DEF Sorted
  <2> QED BY <1>2, <2>1, BeforeOrders
<1>4. \A e \in T : \E i \in 1..n : f[i] = e
  OBVIOUS
<1>5. f \in [1..n -> T] /\ DOMAIN f = 1..n
  BY <1>2
<1> HIDE DEF f
<1>6. f \in Bijection(1..n, T)
  BY <1>3, <1>4, <1>5 DEF Bijection, Injection, IsInjective, Surjection
<1>7. IsFiniteSet(1..n) /\ Cardinality(1..n) = n
  BY <1>1, FS_Interval
<1>8. ExistsBijection(1..n, T)
  BY <1>6 DEF ExistsBijection
<1> QED BY <1>7, <1>8, FS_Bijection

(* The replay's goroutine is the only one that carries an event.           *)
LEMMA OneCarrier ==
  ASSUME NEW D, NEW f \in [{"replay"} -> D]
  PROVE  Range(f) = {f["replay"]}
  BY DEF Range

(* What the status of an event says about it.                              *)
LEMMA StatusMeaning ==
  ASSUME ReplayInv, NEW e \in Events
  PROVE  /\ Status(e) # "waiting" <=> Offered(e)
         /\ Status(e) = "taken" => cfg.pooled
         /\ cfg.pooled =>
                Status(e) = IF writes[e] = 1 THEN "written"
                            ELSE IF e \in refused THEN "refused"
                            ELSE IF e \in accepted \/ carried["replay"] = e
                            THEN "taken" ELSE "waiting"
<1>1. CASE cfg.pooled
  <2>1. P!TypeOK /\ P!AcceptedInv
    BY <1>1 DEF ReplayInv, SinkInv, PooledInv, P!PoolInv
  <2>2. carried \in [{"replay"} -> Events \cup {NoEvent}]
    BY <2>1 DEF P!TypeOK
  <2>3. Range(carried) = {carried["replay"]}
    BY <2>2, OneCarrier
  <2>4. writes[e] \in Nat /\ writes[e] <= 1 /\ (writes[e] = 1 => e \in accepted)
    BY <2>1 DEF P!TypeOK, P!AcceptedInv
  <2>5. Status(e) = IF writes[e] = 1 THEN "written"
                    ELSE IF e \in refused THEN "refused"
                    ELSE IF e \in accepted \/ carried["replay"] = e
                    THEN "taken" ELSE "waiting"
    <3>1. ~(writes[e] > 1)
      BY <2>4
    <3> QED BY <2>3, <3>1 DEF Status
  <2> QED BY <1>1, <2>4, <2>5 DEF Offered
<1>2. CASE ~cfg.pooled
  <2>1. DirectInv
    BY <1>2 DEF ReplayInv, SinkInv
  <2>2. carried \in [{"replay"} -> Events \cup {NoEvent}]
    BY <2>1 DEF DirectInv, Pool!TypeOK
  <2>3. Range(carried) = {NoEvent}
    BY <2>1, <2>2, OneCarrier DEF DirectInv
  <2>4. writes[e] \in Nat /\ writes[e] <= 1 /\ refused = {} /\ accepted = {}
    BY <2>1 DEF DirectInv, Pool!TypeOK
  <2>5. e \notin accepted \cup Range(carried)
    BY <2>3, <2>4, PooledAssumption
  <2>6. Status(e) = IF writes[e] = 1 THEN "written" ELSE "waiting"
    <3>1. ~(writes[e] > 1)
      BY <2>4
    <3> QED BY <2>4, <2>5, <3>1 DEF Status
  <2> QED BY <1>2, <2>6 DEF Offered
<1> QED BY <1>1, <1>2
(* How many events have been offered, in terms of the loop.                *)
LEMMA CountOffered ==
  ASSUME ReplayInv, NEW n \in 0..Len(order), Tried(n)
  PROVE  OfferedCount = n
<1> DEFINE T == {e \in Events : Status(e) # "waiting"}
<1>1. \A e \in Events : e \in T <=> \E i \in 1..n : order[i] = e
  BY StatusMeaning DEF Tried
<1>2. order \in Seq(Events) /\ Sorted(order, Len(order)) /\ T \in SUBSET Events
  BY DEF ReplayInv, LoopTypes, OfferInv
<1> HIDE DEF T
<1>3. Cardinality(T) = n
  BY <1>1, <1>2, FirstEvents
<1> QED BY <1>3 DEF OfferedCount, T

(* The current event is offered and gets the verdict v.                    *)
LEMMA CurrentOffered ==
  ASSUME ReplayInv, pc = "write", ~Over', UNCHANGED order,
         NEW v \in {"taken", "refused", "written"},
         \A d \in Events : Status(d)' = IF d = Current THEN v ELSE Status(d)
  PROVE  Promise!Offer
<1>1. /\ Current \in Events /\ ~Offered(Current) /\ next \in 1..Len(order)
      /\ \A e \in Events :
            (\E i \in 1..next : order[i] = e)
                <=> e = Current \/ \E i \in 1..(next - 1) : order[i] = e
  BY CurrentIsNew
<1>2. order \in Seq(Events) /\ Sorted(order, Len(order)) /\ Tried(next - 1)
  BY DEF ReplayInv, LoopTypes, OfferInv, Looping
<1> DEFINE n == next - 1
<1>3. /\ n \in Nat /\ n \in 0..Len(order) /\ n + 1 \in 0..Len(order)
      /\ n < Len(order) /\ n + 1 = next
  BY <1>1, <1>2
<1>4. OfferedCount = n
  BY <1>2, <1>3, CountOffered
<1>5. Status(Current) = "waiting"
  BY <1>1, StatusMeaning
<1>6. OfferedCount' = n + 1
  <2> DEFINE T == {e \in Events : Status(e)' # "waiting"}
  <2>1. \A e \in Events : e \in T <=> e = Current \/ Status(e) # "waiting"
    BY <1>1
  <2>2. \A e \in Events : e \in T <=> \E i \in 1..next : order[i] = e
    BY <1>1, <1>2, <2>1, StatusMeaning DEF Tried
  <2>3. T \in SUBSET Events /\ next \in 0..Len(order)
    BY <1>1, <1>2
  <2> HIDE DEF T
  <2>4. Cardinality(T) = next
    BY <1>2, <2>2, <2>3, FirstEvents
  <2> QED BY <1>3, <2>4 DEF OfferedCount, T
<1>7. order[n + 1] = Current
  BY <1>3 DEF Current
<1>8. ~Over
  BY DEF Over
<1> HIDE DEF n
<1> QED BY <1>1, <1>3, <1>4, <1>5, <1>6, <1>7, <1>8, OfferStep

(* A step that leaves the pool and the order alone, and is not the end.    *)
LEMMA QuietStep ==
  ASSUME UNCHANGED poolVars, UNCHANGED order, Over' = Over
  PROVE  UNCHANGED Promise!vars
<1>1. \A e \in Events : Status(e)' = Status(e)
  BY DEF Status, poolVars
<1> QED BY <1>1, Unseen

(* The plan is loaded, or the run is over with nothing offered.            *)
LEMMA LoadDelivers ==
  ASSUME ReplayInv, ReplayInv', Load
  PROVE  Promise!Next
<1>1. \A e \in Events : Status(e)' = Status(e)
  BY DEF Load, PoolUnused, poolVars, Status
<1>2. CASE pc' = "open"
  <2>1. order = <<>> /\ Sorted(order', Len(order')) /\ order' \in Seq(Events)
    BY DEF Load, ReplayInv, OfferInv, LoopTypes
  <2>2. \A i, j \in DOMAIN order' : i < j => Before(order'[i], order'[j])
    BY <2>1 DEF Sorted
  <2>3. ~Over /\ Over' = Over
    BY <1>2 DEF Load, Over
  <2>5. \A i \in DOMAIN order', e \in Events :
           Before(e, order'[i]) => \E j \in DOMAIN order' : order'[j] = e
    BY <1>2, CutsTheEnd DEF ReplayInv
  <2>4. Promise!Load
    BY <1>1, <2>1, <2>2, <2>3, <2>5 DEF Promise!Load
  <2> QED BY <2>4 DEF Promise!Next
<1>3. CASE pc' # "open"
  <2>1. order' = order /\ Over'
    BY <1>3 DEF Load, Over
  <2>2. \A e \in Events : Status(e) # "taken"
    <3>1. Tried(0)
      BY DEF Load, ReplayInv, OfferInv, Looping
    <3> QED BY <3>1, StatusMeaning DEF Tried
  <2>3. Promise!Stop
    BY <1>1, <2>1, <2>2, StopStep
  <2> QED BY <2>3 DEF Promise!Next
<1> QED BY <1>2, <1>3

(* A sink that cannot be opened ends the run.                              *)
LEMMA OpenDelivers ==
  ASSUME ReplayInv, OpenSink
  PROVE  Promise!Next \/ UNCHANGED Promise!vars
<1>1. UNCHANGED <<order, carried, writes, refused, accepted>>
      /\ pc = "open" /\ pc' \in {"loop", "error"}
  BY DEF OpenSink, PoolUnused, poolVars, Pool!Open, Pool!submitterVars,
         Pool!history
<1>2. \A e \in Events : Status(e)' = Status(e)
  BY <1>1 DEF Status
<1>3. CASE pc' = "loop"
  <2>1. Over' = Over
    BY <1>1, <1>3 DEF Over
  <2> QED BY <1>1, <1>2, <2>1, Unseen
<1>4. CASE pc' = "error"
  <2>1. Over'
    BY <1>4 DEF Over
  <2>2. Tried(0)
    BY <1>1 DEF ReplayInv, OfferInv, Looping
  <2>3. \A e \in Events : Status(e) # "taken"
    BY <2>2, StatusMeaning DEF Tried
  <2> QED BY <1>1, <1>2, <2>1, <2>3, StopStep DEF Promise!Next
<1> QED BY <1>1, <1>3, <1>4

(* A direct sink writes the event that is offered.                         *)
LEMMA WriteDirectDelivers ==
  ASSUME ReplayInv, WriteDirect
  PROVE  Promise!Offer
<1>1. /\ pc = "write" /\ ~cfg.pooled
      /\ UNCHANGED <<order, carried, refused, accepted>>
      /\ writes' = [writes EXCEPT ![Current] = @ + 1]
      /\ pc' \in {"loop", "flush"}
  BY DEF WriteDirect, WriteOk, WriteFailed
<1>2. Current \in Events /\ ~Offered(Current)
  BY <1>1, CurrentIsNew
<1>3. writes \in [Events -> Nat] /\ writes[Current] = 0
  <2>1. DirectInv
    BY <1>1 DEF ReplayInv, SinkInv
  <2> QED BY <1>1, <1>2, <2>1 DEF DirectInv, Pool!TypeOK, Offered
<1>4. PICK c \in Events : c = Current
  BY <1>2
<1>5. Status(c)' = "written"
  <2>1. writes'[c] = 1 /\ ~(writes'[c] > 1)
    BY <1>1, <1>3, <1>4
  <2> QED BY <2>1 DEF Status
<1>6. ASSUME NEW d \in Events, d # c PROVE Status(d)' = Status(d)
  BY <1>1, <1>3, <1>4, <1>6 DEF Status
<1>7. \A d \in Events : Status(d)'
          = IF d = Current THEN "written" ELSE Status(d)
  BY <1>4, <1>5, <1>6
<1>8. ~Over'
  BY <1>1 DEF Over
<1> QED BY <1>1, <1>7, <1>8, CurrentOffered

(* A pool takes the event that is offered.                                 *)
LEMMA WriteBeginDelivers ==
  ASSUME ReplayInv, WriteBegin
  PROVE  Promise!Offer
<1>1. /\ pc = "write" /\ cfg.pooled /\ pc' = "submit"
      /\ UNCHANGED <<order, next, writes, refused, accepted>>
      /\ spc["replay"] = "idle"
      /\ carried' = [carried EXCEPT !["replay"] = Current]
  BY DEF WriteBegin, Pool!SubmitBegin, Pool!history
<1>2. Current \in Events /\ ~Offered(Current)
  BY <1>1, CurrentIsNew
<1>3. P!PoolInv
  BY <1>1 DEF ReplayInv, SinkInv, PooledInv
<1>4. carried \in [{"replay"} -> Events \cup {NoEvent}]
      /\ carried["replay"] = NoEvent
  BY <1>1, <1>3 DEF P!PoolInv, P!TypeOK, P!CarriedInv
<1>5. PICK c \in Events : c = Current
  BY <1>2
<1>6. Range(carried) = {NoEvent} /\ Range(carried') = {c}
  <2>1. carried' \in [{"replay"} -> Events \cup {NoEvent}]
        /\ carried'["replay"] = c
    BY <1>1, <1>4, <1>5
  <2> QED BY <1>4, <2>1, OneCarrier
<1>7. writes[c] = 0 /\ c \notin refused \cup accepted
  <2>1. c \notin refused \cup accepted
    BY <1>1, <1>2, <1>5 DEF Offered
  <2>2. writes[c] \in Nat /\ writes[c] <= 1 /\ (writes[c] = 1 => c \in accepted)
    BY <1>3 DEF P!PoolInv, P!TypeOK, P!AcceptedInv
  <2> QED BY <2>1, <2>2
<1>8. Status(c)' = "taken"
  <2>1. ~(writes'[c] > 1) /\ writes'[c] # 1
    BY <1>1, <1>7
  <2> QED BY <1>1, <1>6, <1>7, <2>1 DEF Status
<1>9. ASSUME NEW d \in Events, d # c PROVE Status(d)' = Status(d)
  BY <1>1, <1>6, <1>9, PooledAssumption DEF Status
<1>10. \A d \in Events : Status(d)' = IF d = Current THEN "taken" ELSE Status(d)
  BY <1>5, <1>8, <1>9
<1>11. ~Over'
  BY <1>1 DEF Over
<1> QED BY <1>1, <1>10, <1>11, CurrentOffered

(* Inside Submit a taken event may still be refused; once it is in the     *)
(* channel it stays taken.                                                 *)
LEMMA WriteStepDelivers ==
  ASSUME ReplayInv, ReplayInv', WriteStep
  PROVE  Promise!Next \/ UNCHANGED Promise!vars
<1>1. /\ pc = "submit" /\ UNCHANGED <<cfg, pc, order>>
      /\ Pool!Submit("replay")
  BY DEF WriteStep, mainVars
<1>2. Pool!Submit("replay") => spc["replay"] # "idle"
  BY DEF Pool!Submit, Pool!SubmitCheckOpen, Pool!SubmitFindsClosed,
         Pool!SubmitSend, Pool!SubmitFull, Pool!SubmitCancelled
<1>3. cfg.pooled
  BY <1>1 DEF ReplayInv, SinkInv
<1>4. P!PoolInv
  BY <1>3 DEF ReplayInv, SinkInv, PooledInv
<1>5. carried \in [{"replay"} -> Events \cup {NoEvent}]
  BY <1>4 DEF P!PoolInv, P!TypeOK
<1>6. PICK c \in Events : c = carried["replay"]
  BY <1>1, <1>2, <1>4, <1>5 DEF P!PoolInv, P!CarriedInv
<1>7. Range(carried) = {c}
  BY <1>5, <1>6, OneCarrier
<1>8. writes[c] = 0 /\ c \notin refused \cup accepted
  <2>1. c \notin refused \cup accepted
    BY <1>4, <1>6 DEF P!PoolInv, P!CarriedInv
  <2>2. writes[c] \in Nat /\ writes[c] <= 1 /\ (writes[c] = 1 => c \in accepted)
    BY <1>4 DEF P!PoolInv, P!TypeOK, P!AcceptedInv
  <2> QED BY <2>1, <2>2
<1>9. ~Over /\ ~Over' /\ Over' = Over
  BY <1>1 DEF Over
<1>10. /\ UNCHANGED writes
       /\ \/ UNCHANGED <<carried, refused, accepted>>
          \/ /\ carried' = [carried EXCEPT !["replay"] = NoEvent]
             /\ refused' = refused \cup {c} /\ UNCHANGED accepted
          \/ /\ carried' = [carried EXCEPT !["replay"] = NoEvent]
             /\ accepted' = accepted \cup {c} /\ UNCHANGED refused
  BY <1>1, <1>6
  DEF Pool!Submit, Pool!SubmitCheckOpen, Pool!SubmitFindsClosed,
      Pool!SubmitSend, Pool!SubmitFull, Pool!SubmitCancelled, Pool!Refuse,
      Pool!history
<1>11. carried' = [carried EXCEPT !["replay"] = NoEvent]
           => Range(carried') = {NoEvent}
  <2> SUFFICES ASSUME carried' = [carried EXCEPT !["replay"] = NoEvent]
               PROVE  Range(carried') = {NoEvent}
    OBVIOUS
  <2>1. carried' \in [{"replay"} -> Events \cup {NoEvent}]
        /\ carried'["replay"] = NoEvent
    BY <1>5
  <2> QED BY <2>1, OneCarrier
<1>12. ~(writes[c] > 1) /\ writes[c] # 1
  BY <1>8
<1>13. Status(c) = "taken"
  BY <1>7, <1>8, <1>12 DEF Status
<1>14. ASSUME NEW d \in Events, d # c PROVE Status(d)' = Status(d)
  BY <1>7, <1>10, <1>11, <1>14, PooledAssumption DEF Status
<1>15. CASE c \in refused'
  <2>1. Status(c)' = "refused"
    BY <1>10, <1>12, <1>15 DEF Status
  <2>2. \A d \in Events : Status(d)' = IF d = c THEN "refused" ELSE Status(d)
    BY <1>14, <2>1
  <2> QED BY <1>1, <1>9, <1>13, <2>2, SettleStep DEF Promise!Next
<1>16. CASE c \notin refused'
  <2>1. Status(c)' = "taken"
    <3>1. c \in accepted' \cup Range(carried')
      BY <1>7, <1>10, <1>16
    <3> QED BY <1>10, <1>12, <1>16, <3>1 DEF Status
  <2>2. \A d \in Events : Status(d)' = Status(d)
    BY <1>13, <1>14, <2>1
  <2> QED BY <1>1, <1>9, <2>2, Unseen
<1> QED BY <1>15, <1>16

(* A worker writes an event that was taken.                                *)
LEMMA WorkDelivers ==
  ASSUME ReplayInv, NEW w \in Workers, Work(w)
  PROVE  Promise!Next \/ UNCHANGED Promise!vars
<1>1. UNCHANGED <<cfg, pc, order>> /\ Pool!RunWorker(w)
  BY DEF Work, mainVars
<1>2. cfg.pooled /\ PooledInv
  BY <1>1 DEF ReplayInv, SinkInv, DirectInv, Pool!RunWorker, Pool!TakeJob,
              Pool!SeeCancel, Pool!Exit, Pool!ProcessEvent
<1>3. P!PoolInv
  BY <1>2 DEF PooledInv
<1>4. Over' = Over
  BY <1>1 DEF Over
<1>5. UNCHANGED <<carried, refused, accepted>>
  BY <1>1 DEF Pool!RunWorker, Pool!TakeJob, Pool!SeeCancel, Pool!Exit,
              Pool!ProcessEvent, Pool!submitterVars, Pool!history
<1>6. CASE UNCHANGED writes
  <2>1. \A d \in Events : Status(d)' = Status(d)
    BY <1>5, <1>6 DEF Status
  <2> QED BY <1>1, <1>4, <2>1, Unseen
<1>7. CASE Pool!ProcessEvent(w)
  <2>1. PICK c \in Events : c = hand[w]
    BY <1>3, <1>7 DEF Pool!ProcessEvent, P!PoolInv, P!TypeOK
  <2>2. c \in accepted /\ writes[c] = 0 /\ writes \in [Events -> Nat]
        /\ c \notin refused
    BY <1>3, <1>7, <2>1
    DEF Pool!ProcessEvent, P!PoolInv, P!TypeOK, P!HandInv, P!CarriedInv
  <2>3. writes' = [writes EXCEPT ![c] = @ + 1]
    BY <1>7, <2>1 DEF Pool!ProcessEvent
  <2>4. Status(c) = "taken"
    <3>1. ~(writes[c] > 1) /\ writes[c] # 1
      BY <2>2
    <3> QED BY <2>2, <3>1 DEF Status
  <2>5. Status(c)' = "written"
    <3>1. ~(writes'[c] > 1) /\ writes'[c] = 1
      BY <2>2, <2>3
    <3> QED BY <3>1 DEF Status
  <2>6. ASSUME NEW d \in Events, d # c PROVE Status(d)' = Status(d)
    BY <1>5, <2>2, <2>3, <2>6 DEF Status
  <2>7. \A d \in Events : Status(d)' = IF d = c THEN "written" ELSE Status(d)
    BY <2>5, <2>6
  <2>8. ~Over
    <3>1. hand[w] # NoEvent
      BY <1>7 DEF Pool!ProcessEvent
    <3>2. Over => hand[w] = NoEvent
      BY <1>2, HowItEnds, NothingLeft DEF Over, P!Writing
    <3> QED BY <3>1, <3>2
  <2> QED BY <1>1, <1>4, <2>4, <2>7, <2>8, SettleStep DEF Promise!Next
<1> QED
  BY <1>1, <1>6, <1>7
  DEF Pool!RunWorker, Pool!TakeJob, Pool!SeeCancel, Pool!Exit, Pool!history

(* The run is over when the sink is closed, and nothing is left in it.     *)
LEMMA CloseDelivers ==
  ASSUME ReplayInv, CloseSink
  PROVE  Promise!Next \/ UNCHANGED Promise!vars
<1>1. /\ UNCHANGED <<cfg, order, carried, writes, refused, accepted>>
      /\ pc \in {"close", "abandon"}
  BY DEF CloseSink, PoolUnused, poolVars, Pool!Close, Pool!CloseMark,
         Pool!CloseCancel, Pool!CloseJoin, Pool!CloseSink,
         Pool!submitterVars, Pool!history
<1>2. \A e \in Events : Status(e)' = Status(e)
  BY <1>1 DEF Status
<1>3. CASE UNCHANGED pc
  <2>1. Over' = Over
    BY <1>3 DEF Over
  <2> QED BY <1>1, <1>2, <2>1, Unseen
<1>4. CASE pc' # pc
  <2>1. Over' /\ (cfg.pooled => phase = "closed")
    BY <1>4 DEF CloseSink, Over
  <2>2. \A e \in Events : Status(e) # "taken"
    <3> SUFFICES ASSUME NEW e \in Events, Status(e) = "taken" PROVE FALSE
      OBVIOUS
    <3>1. cfg.pooled
      BY StatusMeaning
    <3>2. /\ \A d \in accepted : writes[d] = 1
          /\ carried["replay"] = NoEvent
      BY <1>1, <2>1, <3>1, NothingLeft
    <3> QED BY <3>1, <3>2, StatusMeaning, PooledAssumption
  <2> QED BY <1>1, <1>2, <2>1, <2>2, StopStep DEF Promise!Next
<1> QED BY <1>3, <1>4

(* Every step of a replay is a step of Delivery, or nothing is seen of it. *)
LEMMA StepDelivers ==
  ASSUME ReplayInv, ReplayInv', [Next]_vars
  PROVE  [Promise!Next]_Promise!vars
<1>1. CASE LoopHead \/ Pace \/ WriteEnd \/ FlushAndCount \/ Cancel
           \/ UNCHANGED vars
  <2>1. UNCHANGED poolVars /\ UNCHANGED order
    BY <1>1 DEF LoopHead, Pace, WriteEnd, FlushAndCount, Cancel, vars,
                mainVars, PoolUnused
  <2>2. Over' = Over
    BY <1>1 DEF LoopHead, Pace, WriteEnd, WriteOk, WriteFailed,
                FlushAndCount, Cancel, vars, mainVars, Over
  <2> QED BY <2>1, <2>2, QuietStep
<1>2. CASE WriteDirect \/ WriteBegin
  BY <1>2, WriteDirectDelivers, WriteBeginDelivers DEF Promise!Next
<1> QED
  BY <1>1, <1>2, LoadDelivers, OpenDelivers, WriteStepDelivers, WorkDelivers,
     CloseDelivers
  DEF Next, Main, Returned

(* Every replay, over a direct sink or a pool, delivers as Delivery        *)
(* promises: in plan order, none twice, and when it returns no event that  *)
(* was taken is left unwritten.                                            *)
THEOREM KeepsPromiseHolds == Spec => KeepsPromise
<1>1. Init => Promise!Init
  <2> SUFFICES ASSUME Init PROVE Promise!Init
    OBVIOUS
  <2>1. ReplayInv /\ Tried(0) /\ 0 \in 0..Len(order)
    BY InitReplayInv DEF Init, ReplayInv, OfferInv, Looping
  <2>2. \A e \in Events : Status(e) = "waiting"
    BY <2>1, StatusMeaning DEF Tried
  <2>3. OfferedCount = 0
    BY <2>1, CountOffered
  <2>4. Over = FALSE
    BY DEF Init, Over
  <2> QED BY <2>2, <2>3, <2>4 DEF Promise!Init, OfferedCount, Init
<1>2. ReplayInv /\ ReplayInv' /\ [Next]_vars => [Promise!Next]_Promise!vars
  BY StepDelivers
<1> QED
  BY <1>1, <1>2, ReplayInvariant, PTL DEF Spec, KeepsPromise, Promise!Spec
=============================================================================
