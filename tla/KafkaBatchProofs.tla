------------------------- MODULE KafkaBatchProofs -------------------------
(***************************************************************************)
(* Theorems about KafkaBatch, for every set of events and goroutines,      *)
(* every batch size, and every number of retries and of client attempts.   *)
(***************************************************************************)
EXTENDS KafkaBatch, FiniteSetTheorems, SequenceTheorems, TLAPS

(* What makes OnePlace inductive is that the four places are disjoint, and *)
(* that neither the buffer nor the batch holds an event twice.             *)
Distinct(s) == \A i, j \in 1..Len(s) : s[i] = s[j] => i = j

PlaceInv ==
    /\ written = Range(buffer) \cup InFlight \cup acked \cup dropped
    /\ Distinct(buffer) /\ Distinct(flight)
    /\ Range(buffer) \cap InFlight = {}
    /\ Range(buffer) \cap (acked \cup dropped) = {}
    /\ InFlight \cap (acked \cup dropped) = {}
    /\ acked \cap dropped = {}

(* Nothing is in flight while the mutex is free, and a batch is given up   *)
(* by its sender, after the last attempt.                                  *)
MutexInv ==
    /\ mu = "free" => flight = <<>> /\ attempt = 0
    /\ read[Sender] # NotReading => mu # "free" /\ attempt = Retries

(* A timer is running, or its callback waiting, exactly while something is *)
(* buffered, so that no callback of the current timer finds nothing to do; *)
(* a closed sink buffers nothing.                                          *)
TimerInv ==
    /\ timer # "spent"
    /\ timer \in {"armed", "fired"} <=> buffer # <<>>
    /\ closed => buffer = <<>>

(* An event is stored only by the calls made for the batch it is in, each  *)
(* time at most ClientAttempts times.                                      *)
Attempted == IF read[Sender] = NotReading THEN attempt ELSE attempt + 1

CopiesInv ==
    /\ \A e \in Events \ (InFlight \cup acked \cup dropped) : copies[e] = 0
    /\ \A e \in InFlight : copies[e] <= ClientAttempts * Attempted
    /\ \A e \in acked \cup dropped : copies[e] <= ClientAttempts * (Retries + 1)
    /\ \A e \in acked : copies[e] >= 1

(* A value of the failed counter that was read stays a lower bound of what *)
(* has failed; a goroutine that has read it has yet to count an event that *)
(* is among the failed ones already.                                       *)
Failures == Cardinality(dropped) + unencodable

CounterInv ==
    /\ count = Cardinality(acked)
    /\ failed <= Failures
    /\ read[Sender] <= Failures
    /\ \A w \in Writers : read[w] # NotReading => read[w] + 1 <= Failures

BatchInv ==
    TypeOK /\ PlaceInv /\ MutexInv /\ TimerInv /\ CopiesInv /\ CounterInv
-----------------------------------------------------------------------------
(* What is in a sequence, element by element.                              *)
LEMMA RangeMember ==
  ASSUME NEW S, NEW s \in Seq(S), NEW e
  PROVE  /\ e \in Range(s) <=> \E i \in 1..Len(s) : s[i] = e
         /\ Range(s) \subseteq S
  BY DEF Range

(* The empty sequence holds nothing, and nothing twice.                    *)
LEMMA EmptySequence == Range(<<>>) = {} /\ Distinct(<<>>)
  BY DEF Range, Distinct

(* A nonempty sequence holds something.                                    *)
LEMMA RangeNonempty ==
  ASSUME NEW S, NEW s \in Seq(S), s # <<>>
  PROVE  Range(s) # {}
<1>1. Len(s) \in Nat \ {0}
  BY EmptySeq
<1>2. s[1] \in Range(s)
  BY <1>1, RangeMember
<1> QED BY <1>2

(* Appending adds one element, and keeps the elements distinct when it is  *)
(* a new one.                                                              *)
LEMMA AppendNew ==
  ASSUME NEW S, NEW s \in Seq(S), NEW e \in S
  PROVE  /\ Append(s, e) \in Seq(S)
         /\ Len(Append(s, e)) = Len(s) + 1
         /\ Append(s, e) # <<>>
         /\ Range(Append(s, e)) = Range(s) \cup {e}
         /\ Distinct(s) /\ e \notin Range(s) => Distinct(Append(s, e))
<1> DEFINE t == Append(s, e)
<1>1. /\ t \in Seq(S) /\ Len(t) = Len(s) + 1
      /\ t[Len(s) + 1] = e
      /\ \A i \in 1..Len(s) : t[i] = s[i]
  OBVIOUS
<1>2. t # <<>>
  BY AppendProperties
<1> HIDE DEF t
<1>3. ASSUME NEW x PROVE x \in Range(t) <=> x \in Range(s) \/ x = e
  <2>1. x \in Range(t) <=> \E i \in 1..(Len(s) + 1) : t[i] = x
    BY <1>1, RangeMember
  <2>2. x \in Range(s) <=> \E i \in 1..Len(s) : s[i] = x
    BY RangeMember
  <2> QED BY <1>1, <2>1, <2>2
<1>4. Range(t) = Range(s) \cup {e}
  BY <1>3
<1>5. ASSUME Distinct(s), e \notin Range(s) PROVE Distinct(t)
  <2>1. \A i \in 1..Len(s) : s[i] # e
    BY <1>5, RangeMember
  <2> QED BY <1>1, <1>5, <2>1 DEF Distinct
<1> QED BY <1>1, <1>2, <1>4, <1>5 DEF t

(* A sequence without repetition holds as many elements as it is long.     *)
LEMMA DistinctCardinality ==
  ASSUME NEW S, NEW s \in Seq(S), Distinct(s)
  PROVE  IsFiniteSet(Range(s)) /\ Cardinality(Range(s)) = Len(s)
<1>1. Len(s) \in Nat /\ s \in [1..Len(s) -> Range(s)]
  BY DEF Range
<1>2. IsFiniteSet(1..Len(s)) /\ Cardinality(1..Len(s)) = Len(s)
  BY SMTT(30), <1>1, FS_Interval
<1>3. \A e \in Range(s) : \E i \in 1..Len(s) : s[i] = e
  BY RangeMember
<1>4. s \in Bijection(1..Len(s), Range(s))
  BY <1>1, <1>3 DEF Distinct, Bijection, Injection, Surjection, IsInjective
<1>5. ExistsBijection(1..Len(s), Range(s))
  BY <1>4 DEF ExistsBijection
<1> QED BY <1>2, <1>5, FS_Bijection

(* Disjoint sets add up.                                                   *)
LEMMA DisjointUnion ==
  ASSUME NEW A, NEW B, IsFiniteSet(A), IsFiniteSet(B), A \cap B = {}
  PROVE  /\ IsFiniteSet(A \cup B)
         /\ Cardinality(A \cup B) = Cardinality(A) + Cardinality(B)
<1>1. Cardinality(A \cap B) = 0
  BY FS_EmptySet
<1>2. Cardinality(A) \in Nat /\ Cardinality(B) \in Nat
  BY FS_CardinalityType
<1>3. /\ IsFiniteSet(A \cup B)
      /\ Cardinality(A \cup B)
           = Cardinality(A) + Cardinality(B) - Cardinality(A \cap B)
  BY FS_Union
<1> QED BY <1>1, <1>2, <1>3
-----------------------------------------------------------------------------
(* Everything the invariant counts is finite.                              *)
LEMMA FiniteHistory ==
  ASSUME BatchInv
  PROVE  /\ IsFiniteSet(written) /\ IsFiniteSet(acked) /\ IsFiniteSet(dropped)
         /\ Cardinality(acked) \in Nat /\ Cardinality(dropped) \in Nat
         /\ Failures \in Nat
<1>1. acked \subseteq Events /\ dropped \subseteq Events
      /\ written \subseteq Events /\ unencodable \in Nat
  BY DEF BatchInv, TypeOK
<1>2. IsFiniteSet(written) /\ IsFiniteSet(acked) /\ IsFiniteSet(dropped)
  BY <1>1, BatchAssumption, FS_Subset
<1>3. Cardinality(acked) \in Nat /\ Cardinality(dropped) \in Nat
  BY <1>2, FS_CardinalityType
<1> QED BY <1>1, <1>2, <1>3 DEF Failures

(* A batch adds as many events as it is long to a set it does not meet.    *)
LEMMA BatchAdds ==
  ASSUME BatchInv, NEW A, IsFiniteSet(A), A \cap InFlight = {}
  PROVE  Cardinality(A \cup InFlight) = Cardinality(A) + Len(flight)
<1>1. IsFiniteSet(InFlight) /\ Cardinality(InFlight) = Len(flight)
  BY DistinctCardinality DEF BatchInv, TypeOK, PlaceInv, InFlight
<1> QED BY <1>1, DisjointUnion

(* No call stores nothing.                                                 *)
LEMMA NoCalls == ClientAttempts * 0 = 0
  BY BatchAssumption

(* A sink that has written nothing satisfies the invariant.                *)
LEMMA InitBatchInv == Init => BatchInv
<1> SUFFICES ASSUME Init PROVE BatchInv
  OBVIOUS
<1> USE BatchAssumption DEF Init, NotReading
<1>1. Cardinality({}) = 0
  BY FS_EmptySet
<1>2. TypeOK
  <2>1. buffer \in Seq(Events) /\ Len(buffer) = 0
        /\ flight \in Seq(Events) /\ Len(flight) = 0
    BY EmptySeq
  <2>2. read \in [Writers \cup {Sender} -> Nat \cup {NotReading}]
    OBVIOUS
  <2>3. copies \in [Events -> Nat]
    OBVIOUS
  <2>4. closed \in BOOLEAN
    OBVIOUS
  <2>5. attempt \in 0..Retries
    OBVIOUS
  <2>6. /\ timer \in {"nil", "armed", "fired", "spent"}
        /\ mu \in {"free", "write", "timer", "flush", "close"}
    OBVIOUS
  <2>7. /\ stale \in Nat /\ count \in Nat /\ failed \in Nat
        /\ unencodable \in Nat
        /\ written \subseteq Events
        /\ acked \subseteq written /\ dropped \subseteq written
    OBVIOUS
  <2> HIDE DEF Init
  <2> QED BY <2>1, <2>2, <2>3, <2>4, <2>5, <2>6, <2>7
    DEF TypeOK
<1>3. PlaceInv
  BY EmptySequence DEF PlaceInv, InFlight
<1>4. MutexInv /\ TimerInv
  BY DEF MutexInv, TimerInv
<1>5. CopiesInv
  BY EmptySequence DEF CopiesInv, InFlight, Attempted
<1>6. CounterInv
  BY <1>1 DEF CounterInv, Failures
<1> QED BY <1>2, <1>3, <1>4, <1>5, <1>6 DEF BatchInv

(* Flush, Close and the timer callbacks: the buffer becomes the batch in   *)
(* flight, which was empty because the mutex was free.                     *)
LEMMA TakeBuffer ==
  ASSUME BatchInv, mu = "free",
         flight' = buffer, buffer' = <<>>, attempt' = 0,
         mu' \in {"write", "timer", "flush", "close"},
         timer' = "nil", stale' \in Nat, closed' \in BOOLEAN,
         UNCHANGED <<count, failed, read, history, copies>>
  PROVE  BatchInv'
<1> USE BatchAssumption DEF BatchInv, history
<1>1. flight = <<>> /\ InFlight = {} /\ InFlight' = Range(buffer)
  BY EmptySequence DEF MutexInv, InFlight
<1>2. Range(buffer') = {} /\ Distinct(buffer') /\ Distinct(flight')
  BY EmptySequence DEF PlaceInv, Distinct
<1>3. TypeOK'
  BY DEF TypeOK
<1>4. PlaceInv'
  BY <1>1, <1>2 DEF PlaceInv
<1>5. MutexInv' /\ TimerInv'
  BY DEF MutexInv, TimerInv
<1>6. CopiesInv'
  <2>1. read'[Sender] = NotReading /\ Attempted' = 0
    BY DEF MutexInv, Attempted
  <2>2. \A e \in Range(buffer) : e \in Events /\ copies[e] = 0
    BY <1>1 DEF CopiesInv, PlaceInv, TypeOK
  <2>3. \A e \in InFlight' : copies'[e] <= ClientAttempts * Attempted'
    BY <1>1, <2>1, <2>2, NoCalls
  <2> QED BY <1>1, <2>1, <2>2, <2>3 DEF CopiesInv, TypeOK
<1>7. CounterInv'
  BY DEF CounterInv, Failures
<1> QED BY <1>3, <1>4, <1>5, <1>6, <1>7

(* An empty buffer leaves nothing for FlushLocked to do.                   *)
LEMMA FlushEmpty ==
  ASSUME BatchInv, stale' \in Nat,
         UNCHANGED <<buffer, closed, timer, sending, count, failed, read,
                     history, copies>>
  PROVE  BatchInv'
BY DEF BatchInv, TypeOK, PlaceInv, InFlight, MutexInv, TimerInv, CopiesInv,
       Attempted, CounterInv, Failures, sending, history

(* FlushLocked with the buffer as it is, for Flush and the stale callback. *)
LEMMA FlushLockedInv ==
  ASSUME BatchInv, mu = "free", NEW by \in {"timer", "flush"},
         NEW waiting \in Nat, FlushLocked(by, buffer, waiting),
         UNCHANGED <<closed, count, failed, read, history, copies>>
  PROVE  BatchInv'
<1>1. stale' \in Nat
  BY DEF FlushLocked, StopTimer
<1>2. CASE buffer = <<>>
  BY <1>1, <1>2, FlushEmpty DEF FlushLocked
<1>3. CASE buffer # <<>>
  <2>1. closed' \in BOOLEAN
    BY DEF BatchInv, TypeOK
  <2> QED BY <1>1, <1>3, <2>1, TakeBuffer DEF FlushLocked, StopTimer
<1> QED BY <1>2, <1>3

(* Flush.                                                                  *)
LEMMA FlushBatchInv == BatchInv /\ Flush => BatchInv'
  BY FlushLockedInv DEF Flush, BatchInv, TypeOK

(* The callback of a stopped timer flushes what a later one was armed for. *)
LEMMA StaleBatchInv == BatchInv /\ StaleCallback => BatchInv'
<1> SUFFICES ASSUME BatchInv, StaleCallback PROVE BatchInv'
  OBVIOUS
<1>1. stale - 1 \in Nat
  BY DEF StaleCallback, BatchInv, TypeOK
<1>2. CASE closed
  <2>1. stale' \in Nat
    BY <1>1, <1>2 DEF StaleCallback
  <2> QED BY <1>2, <2>1, FlushEmpty DEF StaleCallback
<1>3. CASE ~closed
  BY <1>1, <1>3, FlushLockedInv DEF StaleCallback
<1> QED BY <1>2, <1>3

(* The callback of the current timer: it finds the sink open and something *)
(* buffered.                                                               *)
LEMMA CallbackBatchInv == BatchInv /\ TimerCallback => BatchInv'
<1> SUFFICES ASSUME BatchInv, TimerCallback PROVE BatchInv'
  OBVIOUS
<1>1. ~(closed \/ buffer = <<>>)
  BY DEF TimerCallback, BatchInv, TimerInv
<1>2. stale' \in Nat /\ closed' \in BOOLEAN
  BY <1>1 DEF TimerCallback, BatchInv, TypeOK
<1> QED BY <1>1, <1>2, TakeBuffer DEF TimerCallback

(* Close.                                                                  *)
LEMMA CloseBatchInv == BatchInv /\ Close => BatchInv'
<1> SUFFICES ASSUME BatchInv, Close PROVE BatchInv'
  OBVIOUS
<1>1. stale' \in Nat
  BY DEF Close, StopTimer, BatchInv, TypeOK
<1>2. CASE buffer = <<>>
  BY <1>1, <1>2
  DEF Close, StopTimer, BatchInv, TypeOK, PlaceInv, InFlight, MutexInv,
      TimerInv, CopiesInv, Attempted, CounterInv, Failures, sending, history
<1>3. CASE buffer # <<>>
  BY <1>1, <1>3, TakeBuffer DEF Close, StopTimer
<1> QED BY <1>2, <1>3

(* The timer fires.                                                        *)
LEMMA FiresBatchInv == BatchInv /\ TimerFires => BatchInv'
  BY DEF TimerFires, BatchInv, TypeOK, PlaceInv, InFlight, MutexInv, TimerInv,
         CopiesInv, Attempted, CounterInv, Failures, sending, history

(* Write: a new event joins the buffer, and a full buffer is sent.         *)
LEMMA WriteBatchInv ==
  ASSUME BatchInv, NEW w \in Writers, NEW e \in Events, Write(w, e)
  PROVE  BatchInv'
<1> DEFINE b == Append(buffer, e)
<1>1. /\ b \in Seq(Events) /\ Len(b) = Len(buffer) + 1 /\ b # <<>>
      /\ Range(b) = Range(buffer) \cup {e}
      /\ e \notin Range(buffer) /\ Distinct(b)
  BY SMTT(30), AppendNew DEF Write, BatchInv, TypeOK, PlaceInv
<1>2. flight = <<>> /\ InFlight = {} /\ attempt = 0
      /\ read[Sender] = NotReading
  BY EmptySequence DEF Write, BatchInv, MutexInv, InFlight
<1>3. e \notin acked \cup dropped /\ copies[e] = 0
  BY <1>2 DEF Write, BatchInv, PlaceInv, CopiesInv
<1> HIDE DEF b
<1>4. CounterInv'
  BY DEF Write, BatchInv, CounterInv, Failures
<1>5. CASE Len(buffer) + 1 >= BatchSize
  <2>1. FlushLocked("write", b, stale)
    BY <1>5 DEF Write, b
  <2>2. /\ flight' = b /\ buffer' = <<>> /\ mu' = "write" /\ attempt' = 0
        /\ timer' = "nil" /\ stale' \in Nat
    BY <1>1, <2>1 DEF FlushLocked, StopTimer, BatchInv, TypeOK
  <2>3. TypeOK'
    <3>1. Len(b) <= BatchSize
      BY <1>1, BatchAssumption DEF BatchInv, TypeOK
    <3>2. buffer' \in Seq(Events) /\ Len(buffer') = 0
      BY <2>2, EmptySeq
    <3> QED BY SMTT(30), <1>1, <2>2, <3>1, <3>2, BatchAssumption
            DEF Write, BatchInv, TypeOK
  <2>4. Range(buffer') = {} /\ Distinct(buffer') /\ InFlight' = Range(b)
    BY <2>2, EmptySequence DEF InFlight
  <2>5. PlaceInv'
    BY <1>1, <1>2, <1>3, <2>2, <2>4 DEF Write, BatchInv, PlaceInv
  <2>6. MutexInv' /\ TimerInv'
    BY <1>2, <2>2 DEF Write, BatchInv, MutexInv, TimerInv
  <2>7. CopiesInv'
    <3>1. Attempted' = 0
      BY <1>2, <2>2 DEF Write, Attempted
    <3>2. \A x \in Range(b) : x \in Events /\ copies[x] = 0
      BY <1>1, <1>2, <1>3 DEF BatchInv, CopiesInv, PlaceInv, TypeOK
    <3>3. \A x \in InFlight' : copies'[x] <= ClientAttempts * Attempted'
      BY <2>4, <3>1, <3>2, NoCalls DEF Write
    <3> QED BY <1>2, <2>4, <3>3 DEF Write, BatchInv, TypeOK, CopiesInv
  <2> QED BY <1>4, <2>3, <2>5, <2>6, <2>7 DEF BatchInv
<1>6. CASE ~(Len(buffer) + 1 >= BatchSize)
  <2>1. /\ buffer' = b /\ UNCHANGED <<stale, mu, flight, attempt>>
        /\ timer' = IF timer = "nil" THEN "armed" ELSE timer
    BY <1>6 DEF Write, b, sending
  <2>2. TypeOK'
    <3>1. Len(buffer') < BatchSize
      BY <1>1, <1>6, <2>1, BatchAssumption DEF BatchInv, TypeOK
    <3> QED BY <1>1, <2>1, <3>1 DEF Write, BatchInv, TypeOK
  <2>3. InFlight' = InFlight
    BY <2>1 DEF InFlight
  <2>4. PlaceInv'
    BY <1>1, <1>2, <1>3, <2>1, <2>3 DEF Write, BatchInv, PlaceInv
  <2>5. MutexInv'
    BY <2>1 DEF Write, BatchInv, MutexInv
  <2>6. TimerInv'
    BY <1>1, <2>1 DEF Write, BatchInv, TimerInv, TypeOK
  <2>7. CopiesInv'
    BY <2>1, <2>3 DEF Write, BatchInv, CopiesInv, Attempted
  <2> QED BY <1>4, <2>2, <2>4, <2>5, <2>6, <2>7 DEF BatchInv
<1> QED BY <1>5, <1>6

(* An event that cannot be encoded: the failure happens before the         *)
(* counter that was read is stored.                                        *)
LEMMA LoadBatchInv ==
  ASSUME BatchInv, NEW w \in Writers, EncodeErrorLoad(w)
  PROVE  BatchInv'
<1> USE BatchAssumption, SenderAssumption DEF EncodeErrorLoad, BatchInv, sending
<1>1. TypeOK'
  BY DEF TypeOK
<1>2. read'[Sender] = read[Sender] /\ read'[w] = failed
      /\ \A v \in Writers \ {w} : read'[v] = read[v]
  BY DEF TypeOK
<1>3. InFlight' = InFlight /\ Attempted' = Attempted
  BY <1>2 DEF InFlight, Attempted
<1>4. PlaceInv' /\ MutexInv' /\ TimerInv'
  BY <1>2, <1>3 DEF PlaceInv, MutexInv, TimerInv
<1>5. CopiesInv'
  BY <1>3 DEF CopiesInv
<1>6. CounterInv'
  <2>1. Failures' = Failures + 1
    BY SMTT(30), FiniteHistory DEF Failures, TypeOK
  <2>2. Failures \in Nat
    BY FiniteHistory
  <2>3. /\ failed \in Nat
        /\ \A v \in Writers \cup {Sender} : read[v] \in Int
    BY DEF TypeOK, NotReading
  <2>4. failed <= Failures' /\ read[Sender] <= Failures'
    BY <2>1, <2>2, <2>3 DEF CounterInv
  <2>5. ASSUME NEW v \in Writers, read'[v] # NotReading
        PROVE  read'[v] + 1 <= Failures'
    BY <1>2, <2>1, <2>2, <2>3, <2>5 DEF CounterInv
  <2> QED BY <1>2, <2>4, <2>5 DEF CounterInv
<1> QED BY <1>1, <1>4, <1>5, <1>6

(* The stored counter is one more than the value that was read, and at     *)
(* most the failures so far.                                               *)
LEMMA StoreBatchInv ==
  ASSUME BatchInv, NEW w \in Writers, EncodeErrorStore(w)
  PROVE  BatchInv'
<1> USE SenderAssumption DEF EncodeErrorStore, BatchInv, sending, history
<1>1. read[w] \in Nat
  BY DEF TypeOK
<1>2. TypeOK'
  <2>1. failed' \in Nat
    BY <1>1
  <2>2. read' \in [Writers \cup {Sender} -> Nat \cup {NotReading}]
    BY DEF TypeOK
  <2> QED BY <2>1, <2>2 DEF TypeOK
<1>3. read'[Sender] = read[Sender] /\ read'[w] = NotReading
      /\ \A v \in Writers \ {w} : read'[v] = read[v]
  BY DEF TypeOK
<1>4. InFlight' = InFlight /\ Attempted' = Attempted
  BY <1>3 DEF InFlight, Attempted
<1>5. PlaceInv' /\ MutexInv' /\ TimerInv'
  BY <1>3, <1>4 DEF PlaceInv, MutexInv, TimerInv
<1>6. CopiesInv'
  BY <1>4 DEF CopiesInv
<1>7. CounterInv'
  BY <1>3 DEF CounterInv, Failures
<1> QED BY <1>2, <1>5, <1>6, <1>7
-----------------------------------------------------------------------------
(* What Store does to the number of copies.                                *)
LEMMA StoreCopies ==
  ASSUME copies \in [Events -> Nat], InFlight \subseteq Events,
         NEW k \in [InFlight -> 0..ClientAttempts], Store(k)
  PROVE  /\ copies' \in [Events -> Nat]
         /\ \A e \in InFlight : /\ copies[e] \in Nat
                                /\ k[e] \in 0..ClientAttempts
                                /\ copies'[e] = copies[e] + k[e]
         /\ \A e \in Events \ InFlight : copies'[e] = copies[e]
<1>1. \A e \in InFlight : k[e] \in 0..ClientAttempts
  OBVIOUS
<1>2. \A e \in Events : copies[e] \in Nat
  OBVIOUS
<1>3. /\ \A e \in InFlight : copies'[e] = copies[e] + k[e]
      /\ \A e \in Events \ InFlight : copies'[e] = copies[e]
  BY <1>2 DEF Store
<1>4. copies' \in [Events -> Nat]
  BY <1>1, <1>2, BatchAssumption DEF Store
<1> QED BY <1>1, <1>2, <1>3, <1>4

(* What a number of calls may store: one more call adds its own attempts.  *)
LEMMA CallsStore ==
  ASSUME NEW n \in Nat, n <= Retries
  PROVE  /\ ClientAttempts * n \in Nat
         /\ ClientAttempts * (n + 1) = ClientAttempts * n + ClientAttempts
         /\ ClientAttempts * (n + 1) <= ClientAttempts * (Retries + 1)
<1> DEFINE c == ClientAttempts
           d == Retries - n
<1>1. c \in Nat /\ d \in Nat /\ Retries + 1 = (n + 1) + d
  BY BatchAssumption
<1> HIDE DEF c, d
<1>2. c * n \in Nat /\ c * d \in Nat /\ c * (n + 1) = c * n + c
  BY <1>1
<1>3. c * ((n + 1) + d) = c * (n + 1) + c * d
  BY <1>1
<1>4. c * (n + 1) \in Nat
  BY <1>1, <1>2
<1>5. c * (n + 1) <= c * (Retries + 1)
  BY <1>1, <1>2, <1>3, <1>4
<1> QED BY <1>2, <1>5 DEF c

(* What all calls for a batch may store.                                   *)
LEMMA LastCall == ClientAttempts * (Retries + 1) \in Nat
<1> DEFINE c == ClientAttempts
           n == Retries + 1
<1>1. c \in Nat /\ n \in Nat
  BY BatchAssumption
<1> HIDE DEF c, n
<1>2. c * n \in Nat
  BY <1>1
<1> QED BY <1>2 DEF c, n

(* A batch that is acknowledged is stored at least once more, all of it.   *)
LEMMA SendOkBatchInv == BatchInv /\ SendOk => BatchInv'
<1> SUFFICES ASSUME BatchInv, SendOk PROVE BatchInv'
  OBVIOUS
<1> USE BatchAssumption DEF SendOk, Unlock, BatchInv
<1>1. InFlight \subseteq Events /\ InFlight \subseteq written
      /\ Len(flight) \in Nat
  BY RangeMember DEF InFlight, TypeOK, PlaceInv
<1>2. PICK k \in [InFlight -> 1..ClientAttempts] : Store(k)
  OBVIOUS
<1>9. k \in [InFlight -> 0..ClientAttempts]
      /\ \A e \in InFlight : k[e] >= 1
  OBVIOUS
<1>10. /\ copies' \in [Events -> Nat]
       /\ \A e \in InFlight : /\ copies[e] \in Nat
                              /\ k[e] \in 0..ClientAttempts
                              /\ copies'[e] = copies[e] + k[e]
       /\ \A e \in Events \ InFlight : copies'[e] = copies[e]
  BY <1>1, <1>2, <1>9, StoreCopies DEF TypeOK
<1>3. InFlight' = {} /\ Distinct(flight') /\ flight' \in Seq(Events)
      /\ Len(flight') = 0
  BY EmptySequence, EmptySeq DEF InFlight
<1>4. TypeOK'
  BY <1>1, <1>10, <1>3 DEF TypeOK
<1>5. PlaceInv'
  BY <1>3 DEF PlaceInv
<1>6. MutexInv' /\ TimerInv'
  BY DEF MutexInv, TimerInv
<1>7. CopiesInv'
  <2>1. Attempted <= Retries /\ Attempted \in Nat
    BY DEF Attempted, TypeOK
  <2> DEFINE made == ClientAttempts * Attempted
             most == ClientAttempts * (Retries + 1)
  <2>2. /\ made \in Nat /\ most \in Nat
        /\ made + ClientAttempts <= most
    <3>1. /\ made + ClientAttempts = ClientAttempts * (Attempted + 1)
          /\ made \in Nat /\ ClientAttempts * (Attempted + 1) <= most
      BY <2>1, CallsStore
    <3>2. most \in Nat
      BY LastCall
    <3> QED BY <3>1, <3>2
  <2>3. ASSUME NEW e \in InFlight
        PROVE  copies'[e] >= 1 /\ copies'[e] <= most
    <3>1. copies[e] <= made
      BY DEF CopiesInv
    <3> HIDE DEF made, most
    <3> QED BY <1>9, <1>10, <2>2, <3>1
  <2>4. \A e \in acked \cup dropped : e \in Events /\ copies'[e] = copies[e]
    BY <1>10 DEF PlaceInv, TypeOK
  <2> QED BY <1>10, <1>3, <2>3, <2>4 DEF CopiesInv
<1>8. CounterInv'
  <2>1. Cardinality(acked \cup InFlight) = Cardinality(acked) + Len(flight)
    BY FiniteHistory, BatchAdds DEF PlaceInv
  <2> QED BY <2>1 DEF CounterInv, Failures
<1> QED BY <1>4, <1>5, <1>6, <1>7, <1>8

(* A failed attempt stores part of the batch: one attempt more has been    *)
(* made, and the last one is followed by giving up.                        *)
LEMMA SendErrorBatchInv == BatchInv /\ SendError => BatchInv'
<1> SUFFICES ASSUME BatchInv, SendError PROVE BatchInv'
  OBVIOUS
<1> USE BatchAssumption, SenderAssumption DEF BatchInv, history
<1>1. InFlight \subseteq Events /\ InFlight' = InFlight
  BY RangeMember DEF SendError, InFlight, TypeOK
<1>2. PICK k \in [InFlight -> 0..ClientAttempts] : Store(k)
  BY DEF SendError
<1>3. /\ copies' \in [Events -> Nat]
      /\ \A e \in InFlight : /\ copies[e] \in Nat
                             /\ k[e] \in 0..ClientAttempts
                             /\ copies'[e] = copies[e] + k[e]
      /\ \A e \in Events \ InFlight : copies'[e] = copies[e]
  BY <1>1, <1>2, StoreCopies DEF TypeOK
<1>4. \A w \in Writers : read'[w] = read[w]
  BY DEF SendError, TypeOK
<1>5. /\ attempt \in Nat /\ attempt' \in 0..Retries
      /\ Attempted = attempt /\ Attempted' = attempt + 1
      /\ read' \in [Writers \cup {Sender} -> Nat \cup {NotReading}]
      /\ \/ read'[Sender] = NotReading
         \/ read'[Sender] = failed /\ attempt' = Retries
  <2>1. CASE attempt < Retries
    BY <2>1 DEF SendError, TypeOK, Attempted
  <2>2. CASE ~(attempt < Retries)
    BY <2>2 DEF SendError, TypeOK, Attempted, NotReading
  <2> QED BY <2>1, <2>2
<1>6. TypeOK'
  BY <1>3, <1>5 DEF SendError, TypeOK
<1>7. PlaceInv' /\ TimerInv'
  BY <1>1 DEF SendError, PlaceInv, TimerInv
<1>8. MutexInv'
  BY <1>5 DEF SendError, MutexInv
<1>9. CopiesInv'
  <2>1. \A e \in Events \ InFlight : copies'[e] = copies[e]
    BY <1>3
  <2> DEFINE made == ClientAttempts * Attempted
             more == ClientAttempts * (Attempted + 1)
  <2>2. made \in Nat /\ more = made + ClientAttempts
    BY <1>5, CallsStore DEF TypeOK
  <2>5. \A e \in InFlight : copies[e] <= made
    BY DEF CopiesInv
  <2>6. more = ClientAttempts * Attempted'
    BY <1>5
  <2>7. \A e \in InFlight : copies'[e] <= more
    <3> HIDE DEF made, more
    <3> QED BY <1>3, <2>2, <2>5
  <2>3. \A e \in InFlight : copies'[e] <= ClientAttempts * Attempted'
    BY <2>6, <2>7
  <2>4. \A e \in acked \cup dropped : copies'[e] = copies[e]
    BY <2>1 DEF PlaceInv, TypeOK
  <2> QED BY <1>1, <2>1, <2>3, <2>4 DEF SendError, CopiesInv
<1>10. CounterInv'
  <2>1. Failures' = Failures /\ Failures \in Nat
    BY FiniteHistory DEF SendError, Failures
  <2>2. read'[Sender] <= Failures
    BY <1>5, <2>1 DEF CounterInv, NotReading
  <2> QED BY <1>4, <2>1, <2>2 DEF SendError, CounterInv
<1> QED BY <1>6, <1>7, <1>8, <1>9, <1>10

(* Giving up: the counter that was read grows by the size of the batch,    *)
(* and so do the failures.                                                 *)
LEMMA GiveUpBatchInv == BatchInv /\ GiveUp => BatchInv'
<1> SUFFICES ASSUME BatchInv, GiveUp PROVE BatchInv'
  OBVIOUS
<1> USE BatchAssumption, SenderAssumption DEF GiveUp, Unlock, BatchInv
<1>1. InFlight \subseteq Events /\ InFlight \subseteq written
      /\ Len(flight) \in Nat
  BY RangeMember DEF InFlight, TypeOK, PlaceInv
<1>2. InFlight' = {} /\ Distinct(flight') /\ flight' \in Seq(Events)
      /\ Len(flight') = 0
  BY EmptySequence, EmptySeq DEF InFlight
<1>3. /\ read[Sender] \in Nat /\ read'[Sender] = NotReading
      /\ read' \in [Writers \cup {Sender} -> Nat \cup {NotReading}]
      /\ \A w \in Writers : read'[w] = read[w]
  BY DEF TypeOK
<1>4. TypeOK'
  BY <1>1, <1>2, <1>3 DEF TypeOK
<1>5. PlaceInv'
  BY <1>2 DEF PlaceInv
<1>6. MutexInv' /\ TimerInv'
  BY <1>3 DEF MutexInv, TimerInv
<1>7. CopiesInv'
  <2>1. Attempted = Retries + 1
    BY DEF Attempted, MutexInv
  <2> QED BY <1>2, <2>1 DEF CopiesInv
<1>8. CounterInv'
  <2>1. Cardinality(dropped \cup InFlight) = Cardinality(dropped) + Len(flight)
    BY FiniteHistory, BatchAdds DEF PlaceInv
  <2>2. Failures' = Failures + Len(flight) /\ Failures \in Nat
    BY <2>1, FiniteHistory DEF Failures, TypeOK
  <2>3. failed' <= Failures' /\ read'[Sender] <= Failures'
    BY <1>1, <1>3, <2>2 DEF CounterInv, NotReading
  <2>4. ASSUME NEW w \in Writers, read[w] # NotReading
        PROVE  read[w] + 1 <= Failures'
    <3>1. read[w] \in Nat /\ read[w] + 1 <= Failures
      BY <2>4 DEF TypeOK, CounterInv
    <3> QED BY <1>1, <2>2, <3>1
  <2> QED BY <1>3, <2>3, <2>4 DEF CounterInv
<1> QED BY <1>4, <1>5, <1>6, <1>7, <1>8
-----------------------------------------------------------------------------
(* The invariant holds in every reachable state.                           *)
THEOREM BatchInvariant == Spec => []BatchInv
<1>1. Init => BatchInv
  BY InitBatchInv
<1>2. BatchInv /\ [Next]_vars => BatchInv'
  <2> SUFFICES ASSUME BatchInv, [Next]_vars PROVE BatchInv'
    OBVIOUS
  <2>1. ASSUME NEW w \in Writers, NEW e \in Events, Write(w, e)
        PROVE  BatchInv'
    BY <2>1, WriteBatchInv
  <2>2. ASSUME NEW w \in Writers, EncodeErrorLoad(w) \/ EncodeErrorStore(w)
        PROVE  BatchInv'
    BY <2>2, LoadBatchInv, StoreBatchInv
  <2>3. CASE TimerFires \/ TimerCallback \/ StaleCallback
    BY <2>3, FiresBatchInv, CallbackBatchInv, StaleBatchInv
  <2>4. CASE Flush \/ Close
    BY <2>4, FlushBatchInv, CloseBatchInv
  <2>5. CASE Send
    BY <2>5, SendOkBatchInv, SendErrorBatchInv, GiveUpBatchInv DEF Send
  <2>6. CASE UNCHANGED vars
    BY <2>6
    DEF vars, sending, history, BatchInv, TypeOK, PlaceInv, InFlight,
        MutexInv, TimerInv, CopiesInv, Attempted, CounterInv, Failures
  <2> QED BY <2>1, <2>2, <2>3, <2>4, <2>5, <2>6 DEF Next
<1> QED BY <1>1, <1>2, PTL DEF Spec

(* Every variable keeps its type, and the buffer of batch.go never holds a *)
(* full batch between two calls.                                           *)
THEOREM BatchTypesHold == Spec => []TypeOK
<1>1. BatchInv => TypeOK
  BY DEF BatchInv
<1> QED BY <1>1, BatchInvariant, PTL

(* No interleaving of writers, timers, flushes, retries and Close loses an *)
(* accepted event or has it in two places.                                 *)
THEOREM OnePlaceHolds == Spec => []OnePlace
<1>1. ASSUME BatchInv PROVE OnePlace
  <2> USE <1>1 DEF BatchInv, PlaceInv
  <2>1. IsFiniteSet(Range(buffer)) /\ Cardinality(Range(buffer)) = Len(buffer)
    BY DistinctCardinality DEF TypeOK
  <2>2. IsFiniteSet(InFlight) /\ Cardinality(InFlight) = Len(flight)
    BY DistinctCardinality DEF TypeOK, InFlight
  <2>3. IsFiniteSet(acked) /\ IsFiniteSet(dropped)
    BY FiniteHistory
  <2> DEFINE sent == Range(buffer) \cup InFlight
             done == acked \cup dropped
  <2>4. IsFiniteSet(sent) /\ Cardinality(sent) = Len(buffer) + Len(flight)
    BY ZenonT(30), <2>1, <2>2, DisjointUnion
  <2>5. /\ IsFiniteSet(done)
        /\ Cardinality(done) = Cardinality(acked) + Cardinality(dropped)
    BY <2>3, DisjointUnion
  <2>6. sent \cap done = {} /\ written = sent \cup done
    OBVIOUS
  <2> HIDE DEF sent, done
  <2>7. Cardinality(written) = Cardinality(sent) + Cardinality(done)
    BY <2>4, <2>5, <2>6, DisjointUnion
  <2>8. /\ Len(buffer) \in Nat /\ Len(flight) \in Nat
        /\ Cardinality(acked) \in Nat /\ Cardinality(dropped) \in Nat
    BY FiniteHistory DEF TypeOK
  <2>9. Cardinality(written) = Len(buffer) + Len(flight)
                               + Cardinality(acked) + Cardinality(dropped)
    BY <2>4, <2>5, <2>7, <2>8
  <2> QED BY <2>9 DEF OnePlace
<1> QED BY <1>1, BatchInvariant, PTL

(* Stopping a timer too late never leaves a buffered event without a timer *)
(* or a waiting callback, nor in a closed sink.                            *)
THEOREM NeverStrandedHolds == Spec => []NeverStranded
<1>1. BatchInv => NeverStranded
  BY DEF BatchInv, TimerInv, NeverStranded
<1> QED BY <1>1, BatchInvariant, PTL

(* An acknowledged event is stored, and none more often than the client    *)
(* tries it in the calls of a first attempt and its retries, whatever part *)
(* of a batch the failed calls stored, before they returned or after.      *)
THEOREM StoredAtLeastOnceHolds == Spec => []StoredAtLeastOnce
<1>1. ASSUME BatchInv PROVE StoredAtLeastOnce
  <2> USE <1>1, BatchAssumption DEF BatchInv
  <2>1. Attempted <= Retries + 1 /\ Attempted \in Nat
    BY DEF Attempted, TypeOK
  <2> DEFINE made == ClientAttempts * Attempted
             most == ClientAttempts * (Retries + 1)
  <2>3. made \in Nat /\ most \in Nat /\ made <= most
    <3>1. CASE Attempted = Retries + 1
      BY <3>1, LastCall
    <3>2. CASE Attempted <= Retries
      <4>1. /\ made \in Nat
            /\ made + ClientAttempts = ClientAttempts * (Attempted + 1)
            /\ ClientAttempts * (Attempted + 1) <= most
        BY <2>1, <3>2, CallsStore
      <4>2. most \in Nat
        BY LastCall
      <4> HIDE DEF made, most
      <4>3. made <= most
        BY <4>1, <4>2
      <4> QED BY <4>1, <4>2, <4>3
    <3> QED BY <2>1, <3>1, <3>2
  <2>2. ASSUME NEW e \in Events PROVE copies[e] <= most
    <3>1. copies[e] \in Nat
      BY DEF TypeOK
    <3>2. \/ copies[e] = 0
          \/ copies[e] <= made
          \/ copies[e] <= most
      BY DEF CopiesInv
    <3> HIDE DEF made, most
    <3> QED BY <2>3, <3>1, <3>2
  <2> QED BY <2>2 DEF CopiesInv, StoredAtLeastOnce
<1> QED BY <1>1, BatchInvariant, PTL

(* The count of written events is exact, and the racy count of failed ones *)
(* never exceeds the failures.                                             *)
THEOREM HonestCountersHold == Spec => []HonestCounters
<1>1. BatchInv => HonestCounters
  BY DEF BatchInv, CounterInv, Failures, HonestCounters
<1> QED BY <1>1, BatchInvariant, PTL
=============================================================================
