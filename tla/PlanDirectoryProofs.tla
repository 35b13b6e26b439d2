-------------------------- MODULE PlanDirectoryProofs --------------------------
(***************************************************************************)
(* Theorems about PlanDirectory and the runs in it, for every plan that    *)
(* compile may have made, every sink and every retry policy, and however   *)
(* many commands share the directory.                                      *)
(***************************************************************************)
EXTENDS PlanDirectory, FiniteSetTheorems, SequenceTheorems,
        WellFoundedInduction, TLAPS

(* A list of events with ids of their own, as compile writes it.           *)
IsEvent(e) == /\ DOMAIN e = {"id", "type", "time", "attributes", "refs"}
              /\ e.id \in EventIds \cap Int /\ e.id # None /\ e.time \in Int
Distinct(list) == \A i, j \in DOMAIN list : list[i].id = list[j].id => i = j
EventList(list) ==
    /\ list \in Seq(Range(list))
    /\ \A e \in Range(list) : IsEvent(e)
    /\ Distinct(list)
TaskLists == {plan.tasks : plan \in Plans}
-----------------------------------------------------------------------------
Lines == {"file", "stdout", "export"}
Posts == [id : Int, answer : Retried \cup {"ok", "other"}]
(* How often an event has arrived; how many arrivals were accepted.        *)
Arrivals(list, id) == Cardinality({i \in DOMAIN list : list[i].id = id})
Accepted(list) == Cardinality({i \in DOMAIN list : list[i].answer = "ok"})
Encodable(events, n, enrich) == {k \in 1..n : CanEncode(events[k], enrich)}
(* What has arrived is of the first n events, in their order, and again    *)
(* only after an answer that is retried; all of an event had such answers. *)
Ordered(list, events, n) ==
    /\ \A i \in DOMAIN list : \E k \in 1..n : list[i].id = events[k].id
    /\ \A i, j \in DOMAIN list, k, l \in 1..n :
          i < j /\ list[i].id = events[k].id /\ list[j].id = events[l].id
             => k <= l
    /\ \A i, j \in DOMAIN list :
          i < j /\ list[i].id = list[j].id => list[i].answer \in Retried
OnlyRetried(list, id) ==
    \A i \in DOMAIN list : list[i].id = id => list[i].answer \in Retried

Tried == IF running \in {"post", "aborted"} THEN emitted + 1 ELSE emitted

RunTypes ==
    /\ running \in {"no", "write", "post", "finished", "aborted"}
    /\ sink \in Sinks \cup {NoSink}
    /\ EventList(todo)
    /\ emitted \in 0..Len(todo)
    /\ written \in Nat /\ failed \in Nat
    /\ attempt \in 0..Retries /\ elapsed \in Nat
    /\ received \in Seq(Posts)
RunPhases ==
    /\ running = "post" => emitted < Len(todo) /\ sink.kind = "http"
    /\ running = "no" => /\ sink = NoSink /\ received = <<>>
                         /\ emitted = 0 /\ written = 0 /\ failed = 0
    /\ running # "aborted" \/ sink.kind = "http" =>
          written + failed = emitted
    /\ running = "finished" => emitted = Len(todo) /\ ~opened
    /\ running = "aborted" => emitted < Len(todo) /\ ~opened
    /\ running = "aborted" /\ sink.kind # "http" =>
          /\ failed = 1
          /\ sink.kind \in Lines /\ ~sink.skip
          /\ ~Encodes
RunOrder ==
    /\ Ordered(received, todo, Tried)
    /\ running = "post" => OnlyRetried(received, Event.id)
RunCopies ==
    /\ \A k \in DOMAIN todo : Arrivals(received, todo[k].id) <= Retries + 1
    /\ running = "post" => Arrivals(received, Event.id) <= attempt
RunRetries ==
    running = "post" /\ attempt > 0 =>
       elapsed < MaxRetryDuration + Backoff(attempt - 1)
RunWritten == sink.kind # "null" => written = Accepted(received)
RunLines ==
    sink.kind \in Lines /\ ~sink.skip =>
       /\ Len(received) = emitted
       /\ \A i \in 1..emitted : received[i].id = todo[i].id
       /\ running # "aborted" => failed = 0
RunForetold ==
    sink.kind = "export" /\ sink.encode =>
       written = Cardinality(Encodable(todo, emitted, sink.enrich))
RunInv == /\ RunTypes /\ RunPhases /\ RunOrder /\ RunCopies /\ RunRetries
          /\ RunWritten /\ RunLines /\ RunForetold
-----------------------------------------------------------------------------
(* An entry of a pool that was made for a job, the text whatever it is;    *)
(* and the cache has it under the key of the job.                          *)
MadeFor(entry, job, provider) ==
    \E text : /\ entry.id = <<job.task.id, provider, job.event, job.index>>
              /\ entry.asset = Made(job, provider, text)
Fresh(entry, job, scenario, stored) ==
    LET key == Key(entry.asset.provider, scenario, job.task.id,
                   entry.asset.event) IN
    key \in DOMAIN stored /\ stored[key] \in {entry.asset, Torn}

(* An entry for a job: if it is forced, from the wording as it is; without *)
(* that, provided that keys do not coincide.                               *)
Entry(entry, job, provider, scenario, forced, stored) ==
    /\ forced \/ KeysApart => MadeFor(entry, job, provider)
    /\ forced => entry.asset.text = job.task.wording
    /\ forced /\ KeysApart => Fresh(entry, job, scenario, stored)

(* A pool that was made for the first jobs, or all, of tasks and events.   *)
PoolFor(pool, tasks, events, provider, scenario, forced, stored) ==
    /\ pool \in Seq(Range(pool))
    /\ Len(pool) <= Len(Jobs(tasks, events))
    /\ \A i \in DOMAIN pool : Entry(pool[i], Jobs(tasks, events)[i], provider,
                                    scenario, forced, stored)

FilesInv ==
    /\ files = [f \in FileNames |-> files[f]]
    /\ files["scenario"] \in {None, Torn} \cup Scenarios
    /\ files["semantic_tasks"] \in {None, Torn} \cup TaskLists
    /\ files["event_plan"] \notin {None, Torn} => EventList(files["event_plan"])

(* A cache entry that can be read says what it was made for.               *)
IsCache(stored) ==
    \A k \in DOMAIN stored : stored[k] # Torn =>
       \E p, type, text :
          \E s \in Scenarios, t \in TaskIds, e \in EventIds \cup {None} :
             /\ k = Key(p, s, t, e)
             /\ stored[k] = [task |-> t, provider |-> p, event |-> e,
                             type |-> type, text |-> text]

IsCompiling(c) ==
    /\ c = [name |-> "compile", plan |-> c.plan, next |-> c.next]
    /\ c.plan \in Plans /\ c.next \in 1..Len(PlanFiles)

(* A generate has made a pool for the first jobs and has the others to do. *)
Remains(left, pool, jobs) ==
    /\ left \in Seq(Range(left))
    /\ Len(pool) + Len(left) = Len(jobs)
    /\ \A i \in 1..Len(left) : left[i] = jobs[Len(pool) + i]
IsGenerating(c, tasks, stored) ==
    /\ c = [name |-> "generate", provider |-> c.provider,
            scenario |-> c.scenario, force |-> c.force,
            events |-> c.events, jobs |-> c.jobs,
            pool |-> c.pool, attempt |-> c.attempt, resolving |-> c.resolving]
    /\ c.force \in BOOLEAN /\ c.resolving \in BOOLEAN
    /\ tasks \in TaskLists /\ EventList(c.events) /\ c.scenario \in Scenarios
    /\ PoolFor(c.pool, tasks, c.events, c.provider, c.scenario, c.force, stored)
    /\ Remains(c.jobs, c.pool, Jobs(tasks, c.events))
GenerateInv ==
    command.name = "generate" =>
       /\ IsGenerating(command, Tasks, cache)
       /\ command.resolving =>
             /\ command.jobs = <<>> /\ paired = None
             /\ files["event_plan"] = Resolve(command.events, command.pool)

(* An event plan and a pool that belong together.                          *)
Pairing(plan, pool, scenario, tasks, forced, stored) ==
    /\ tasks \in TaskLists /\ scenario \in Scenarios
    /\ \E events, provider :
          /\ EventList(events)
          /\ PoolFor(pool, tasks, events, provider, scenario, forced, stored)
          /\ Len(pool) = Len(Jobs(tasks, events))
          /\ plan = Resolve(events, pool)
PoolScenario == files["semantic_pool"].scenario
PairedInv ==
    /\ paired \in BOOLEAN \cup {None}
    /\ paired # None =>
          Pairing(files["event_plan"], Pool, PoolScenario, Tasks, paired = TRUE,
                  cache)

CommandInv ==
    /\ command.name \in {"idle", "compile", "generate"}
    /\ command.name = "idle" => command = Idle
    /\ command.name = "compile" => IsCompiling(command)
    /\ torn \in {None, FALSE}
DirInv == /\ CommandInv /\ FilesInv /\ IsCache(cache)
          /\ GenerateInv /\ PairedInv
-----------------------------------------------------------------------------
(* Every set of natural numbers has a least element: the principle by      *)
(* which the lemmas below go through a list.                               *)
LEMMA LeastNat ==
  ASSUME NEW T, T \subseteq Nat, T # {}
  PROVE  \E m \in T : \A k \in T : m <= k
<1> DEFINE less == OpToRel(<, Nat)
<1>1. \E x \in T : \A y \in T : ~(<<y, x>> \in less)
  BY NatLessThanWellFounded, WFMin
<1>2. \A x, y \in Nat : x < y => <<x, y>> \in less
  BY DEF OpToRel
<1> HIDE DEF less
<1>3. PICK m \in T : \A y \in T : ~(<<y, m>> \in less)
  BY <1>1
<1>4. ASSUME NEW k \in T PROVE ~(k < m)
  <2>1. ~(<<k, m>> \in less)
    BY <1>3
  <2>2. k \in Nat /\ m \in Nat
    OBVIOUS
  <2> QED BY <1>2, <2>1, <2>2
<1> QED BY <1>4

(* Induction over the positions 0..n: what holds of 0 and goes from each   *)
(* position to the next holds of all.                                      *)
LEMMA Positions ==
  ASSUME NEW n \in Nat, NEW T, 0 \in T,
         \A i \in 1..n : i - 1 \in T => i \in T
  PROVE  \A i \in 0..n : i \in T
<1> SUFFICES ASSUME NEW j \in 0..n, j \notin T PROVE FALSE
  OBVIOUS
<1> DEFINE out == {i \in 0..n : i \notin T}
<1>1. PICK m \in out : \A k \in out : m <= k
  <2>1. out \subseteq Nat /\ out # {}
    OBVIOUS
  <2> HIDE DEF out
  <2> QED BY <2>1, LeastNat
<1>2. m \in 1..n /\ m - 1 \in 0..n
  BY <1>1
<1>3. m - 1 \in T
  BY <1>1, <1>2
<1> QED BY <1>1, <1>2, <1>3

(* The recursion of Only has a solution.                                   *)
LEMMA OnlyMeans ==
  ASSUME NEW A, NEW list \in Seq(A), NEW S
  PROVE  \E k : /\ k[0] = <<>>
                /\ \A i \in 1..Len(list) :
                      k[i] = IF list[i] \in S THEN Append(k[i - 1], list[i])
                             ELSE k[i - 1]
                /\ Only(list, S) = k[Len(list)]
<1> DEFINE Solves(k, n) ==
             k = [i \in 0..n |->
                    IF i = 0 THEN <<>>
                    ELSE IF list[i] \in S THEN Append(k[i - 1], list[i])
                    ELSE k[i - 1]]
           solved == {n \in 0..Len(list) : \E k : Solves(k, n)}
<1>1. Len(list) \in Nat
  BY LenProperties
<1>2. 0 \in solved
  <2>1. Solves([i \in 0..0 |-> <<>>], 0)
    OBVIOUS
  <2> HIDE DEF Solves
  <2> QED BY <1>1, <2>1
<1>3. ASSUME NEW n \in 1..Len(list), n - 1 \in solved
      PROVE  n \in solved
  <2>1. PICK k : Solves(k, n - 1)
    BY <1>3
  <2> DEFINE last == IF list[n] \in S THEN Append(k[n - 1], list[n])
                     ELSE k[n - 1]
             l == [i \in 0..n |-> IF i = n THEN last ELSE k[i]]
  <2> HIDE DEF last
  <2>2. \A i \in 0..(n - 1) : l[i] = k[i]
    OBVIOUS
  <2>3. l[n] = last
    OBVIOUS
  <2>4. ASSUME NEW i \in 0..n
        PROVE  l[i] = IF i = 0 THEN <<>>
                      ELSE IF list[i] \in S THEN Append(l[i - 1], list[i])
                      ELSE l[i - 1]
    <3>1. CASE i = n
      <4>1. l[n - 1] = k[n - 1]
        BY <2>2
      <4> HIDE DEF l
      <4> QED BY <2>3, <3>1, <4>1 DEF last
    <3>2. CASE i # n /\ i # 0
      <4>1. i \in 0..(n - 1) /\ i - 1 \in 0..(n - 1)
        BY <3>2
      <4>2. l[i] = k[i] /\ l[i - 1] = k[i - 1]
        BY <2>2, <4>1
      <4>3. k[i] = IF list[i] \in S THEN Append(k[i - 1], list[i])
                   ELSE k[i - 1]
        BY <2>1, <3>2, <4>1
      <4> HIDE DEF l
      <4> QED BY <3>2, <4>2, <4>3
    <3>3. CASE i # n /\ i = 0
      <4>1. k[0] = <<>>
        BY <2>1
      <4> QED BY <3>3, <4>1
    <3> QED BY <3>1, <3>2, <3>3
  <2>5. Solves(l, n)
    <3>1. l = [i \in 0..n |-> l[i]]
      OBVIOUS
    <3> HIDE DEF l
    <3> QED BY <2>4, <3>1
  <2> HIDE DEF l, Solves
  <2> QED BY <2>5
<1>4. \E k : Solves(k, Len(list))
  <2> HIDE DEF solved
  <2>1. Len(list) \in solved
    <3>1. \A i \in 1..Len(list) : i - 1 \in solved => i \in solved
      BY <1>3
    <3>2. \A i \in 0..Len(list) : i \in solved
      BY <1>1, <1>2, <3>1, Positions
    <3> QED BY <1>1, <3>2
  <2> QED BY <2>1 DEF solved
<1> DEFINE kept == CHOOSE k : Solves(k, Len(list))
<1>5. Solves(kept, Len(list))
  <2> HIDE DEF Solves
  <2> QED BY <1>4
<1>6. Only(list, S) = kept[Len(list)]
  BY DEF Only
<1> HIDE DEF kept
<1>7. kept[0] = <<>>
  BY <1>1, <1>5
<1>8. \A i \in 1..Len(list) :
         kept[i] = IF list[i] \in S THEN Append(kept[i - 1], list[i])
                   ELSE kept[i - 1]
  <2> SUFFICES ASSUME NEW i \in 1..Len(list)
               PROVE  kept[i] = IF list[i] \in S
                                THEN Append(kept[i - 1], list[i])
                                ELSE kept[i - 1]
    OBVIOUS
  <2>1. i \in 0..Len(list) /\ i # 0
    BY <1>1
  <2> QED BY <1>5, <2>1
<1> QED BY <1>6, <1>7, <1>8

(* What is in a list, element by element.                                  *)
LEMMA AppendList ==
  ASSUME NEW A, NEW list \in Seq(A), NEW x
  PROVE  /\ Append(list, x) \in Seq(A \cup {x})
         /\ Len(Append(list, x)) = Len(list) + 1
         /\ \A i \in 1..Len(list) : Append(list, x)[i] = list[i]
         /\ Append(list, x)[Len(list) + 1] = x
<1>1. list \in Seq(A \cup {x}) /\ DOMAIN list = 1..Len(list)
      /\ Len(list) \in Nat
  BY SeqMonotonic, LenProperties
<1> QED BY <1>1, AppendProperties

LEMMA AppendRange ==
  ASSUME NEW A, NEW list \in Seq(A), NEW x
  PROVE  Range(Append(list, x)) = Range(list) \cup {x}
<1>1. list \in Seq(A \cup {x}) /\ DOMAIN list = 1..Len(list)
      /\ Len(list) \in Nat
  BY SeqMonotonic, LenProperties
<1> DEFINE more == Append(list, x)
<1>2. /\ more \in Seq(A \cup {x}) /\ Len(more) = Len(list) + 1
      /\ \A i \in 1..Len(list) : more[i] = list[i]
      /\ more[Len(list) + 1] = x
  BY <1>1, AppendList
<1>3. DOMAIN more = 1..(Len(list) + 1)
  BY <1>2, LenProperties
<1> HIDE DEF more
<1>4. Range(more) = Range(list) \cup {x}
  BY <1>1, <1>2, <1>3 DEF Range
<1> QED BY <1>4 DEF more
-----------------------------------------------------------------------------
(* A strict total order on a set, as a set of pairs.                       *)
StrictOrder(R, S) ==
    /\ \A x \in S : <<x, x>> \notin R
    /\ \A x, y, z \in S : <<x, y>> \in R /\ <<y, z>> \in R => <<x, z>> \in R
    /\ \A x, y \in S : x # y => <<x, y>> \in R \/ <<y, x>> \in R

(* Ranked puts every member of a finite set into its place.                *)
LEMMA RankedSorts ==
  ASSUME NEW S, IsFiniteSet(S), NEW R, StrictOrder(R, S)
  PROVE  /\ Ranked(S, R) \in Seq(S)
         /\ Len(Ranked(S, R)) = Cardinality(S)
         /\ Range(Ranked(S, R)) = S
         /\ \A i, j \in 1..Len(Ranked(S, R)) :
               i < j => <<Ranked(S, R)[i], Ranked(S, R)[j]>> \in R
<1> DEFINE n == Cardinality(S)
           Below(x) == {y \in S : <<y, x>> \in R}
           r == [x \in S |-> Cardinality(Below(x)) + 1]
           f == [i \in 1..n |->
                   CHOOSE x \in S : Cardinality(Below(x)) = i - 1]
<1>1. n \in Nat
  BY FS_CardinalityType
<1>2. ASSUME NEW x \in S
      PROVE  /\ IsFiniteSet(Below(x)) /\ Cardinality(Below(x)) \in Nat
             /\ r[x] = Cardinality(Below(x)) + 1 /\ r[x] \in 1..n
  <2>1. Below(x) \in SUBSET (S \ {x})
    BY DEF StrictOrder
  <2>2. IsFiniteSet(S \ {x}) /\ Cardinality(S \ {x}) = n - 1
    BY FS_RemoveElement
  <2> HIDE DEF Below
  <2>3. IsFiniteSet(Below(x)) /\ Cardinality(Below(x)) <= n - 1
    BY <2>1, <2>2, FS_Subset
  <2>4. Cardinality(Below(x)) \in Nat
    BY <2>3, FS_CardinalityType
  <2> HIDE DEF n
  <2> QED BY <1>1, <2>3, <2>4
<1>3. ASSUME NEW x \in S, NEW y \in S, <<x, y>> \in R
      PROVE  r[x] < r[y]
  <2>1. Below(x) \in SUBSET Below(y) /\ x \in Below(y) /\ x \notin Below(x)
    BY <1>3 DEF StrictOrder
  <2> HIDE DEF Below
  <2>2. Cardinality(Below(x)) <= Cardinality(Below(y))
        /\ Cardinality(Below(x)) # Cardinality(Below(y))
    BY <1>2, <2>1, FS_Subset
  <2> HIDE DEF r
  <2> QED BY <1>2, <2>2
<1>4. ASSUME NEW x \in S, NEW y \in S, r[x] = r[y]
      PROVE  x = y
  <2> SUFFICES ASSUME x # y PROVE FALSE
    OBVIOUS
  <2>1. <<x, y>> \in R \/ <<y, x>> \in R
    BY DEF StrictOrder
  <2> HIDE DEF r, n, Below
  <2>2. r[x] \in Nat /\ r[y] \in Nat
    BY <1>1, <1>2
  <2> QED BY <1>3, <1>4, <2>1, <2>2
<1>5. r \in Surjection(S, 1..n)
  <2>1. r \in [S -> 1..n] /\ DOMAIN r = S
    BY <1>2
  <2> HIDE DEF r
  <2>2. r \in Injection(S, 1..n)
    BY <1>4, <2>1 DEF Injection, IsInjective
  <2>3. IsFiniteSet(1..n) /\ Cardinality(1..n) = n
    BY <1>1, FS_Interval
  <2> QED BY <2>2, <2>3, FS_Injection
<1>6. ASSUME NEW i \in 1..n PROVE f[i] \in S /\ r[f[i]] = i
  <2>1. \E x \in S : r[x] = i
    <3> HIDE DEF r
    <3> QED BY <1>5 DEF Surjection
  <2>2. \E x \in S : Cardinality(Below(x)) = i - 1
    <3>1. PICK x \in S : r[x] = i
      BY <2>1
    <3> HIDE DEF r, Below
    <3> QED BY <1>1, <1>2, <3>1
  <2>3. f[i] \in S /\ Cardinality(Below(f[i])) = i - 1
    <3> HIDE DEF Below
    <3> QED BY <2>2
  <2> HIDE DEF r, f, Below
  <2> QED BY <1>1, <1>2, <2>3
<1>7. f = Ranked(S, R)
  BY DEF Ranked
<1>8. f \in [1..n -> S] /\ DOMAIN f = 1..n
  <2>1. \A i \in 1..n : (CHOOSE x \in S : Cardinality(Below(x)) = i - 1) \in S
    BY <1>6
  <2> HIDE DEF Below
  <2> QED BY <2>1
<1> HIDE DEF f, r, Below
<1>9. f \in Seq(S) /\ Len(f) = n
  <2> HIDE DEF n
  <2> QED BY <1>1, <1>8
<1>10. Range(f) = S
  <2>1. ASSUME NEW x \in S PROVE x \in Range(f)
    <3>1. f[r[x]] = x /\ r[x] \in DOMAIN f
      BY <1>2, <1>4, <1>6, <1>8
    <3> QED BY <3>1 DEF Range
  <2> QED BY <1>6, <1>8, <2>1 DEF Range
<1>11. ASSUME NEW i \in 1..n, NEW j \in 1..n, i < j
       PROVE  <<f[i], f[j]>> \in R
  <2>1. f[i] \in S /\ f[j] \in S /\ r[f[i]] = i /\ r[f[j]] = j
    BY <1>6
  <2>2. f[i] # f[j] /\ ~(r[f[j]] < r[f[i]])
    <3> HIDE DEF n
    <3> QED BY <1>1, <1>11, <2>1
  <2> QED BY <1>3, <2>1, <2>2 DEF StrictOrder
<1> QED BY <1>7, <1>9, <1>10, <1>11
-----------------------------------------------------------------------------
-----------------------------------------------------------------------------
NoRepeats(list) == \A i, j \in DOMAIN list : list[i] = list[j] => i = j

(* Appending what is not there repeats nothing.                            *)
LEMMA AppendNew ==
  ASSUME NEW A, NEW list \in Seq(A), NoRepeats(list),
         NEW x, x \notin Range(list)
  PROVE  NoRepeats(Append(list, x))
<1> DEFINE more == Append(list, x)
           n == Len(list)
<1>1. /\ n \in Nat /\ DOMAIN list = 1..n
      /\ more \in Seq(A \cup {x}) /\ Len(more) = n + 1
      /\ \A i \in 1..n : more[i] = list[i]
      /\ more[n + 1] = x
  BY AppendList, LenProperties
<1>2. DOMAIN more = 1..(n + 1)
  BY <1>1, LenProperties
<1> HIDE DEF more, n
<1>3. \A i \in 1..n : list[i] # x
  BY <1>1 DEF Range
<1>4. ASSUME NEW i \in 1..(n + 1), NEW j \in 1..(n + 1), more[i] = more[j]
      PROVE  i = j
  <2>1. CASE i \in 1..n /\ j \in 1..n
    BY <1>1, <1>4, <2>1 DEF NoRepeats
  <2>2. CASE i = n + 1 \/ j = n + 1
    BY <1>1, <1>3, <1>4, <2>2
  <2> QED BY <1>1, <2>1, <2>2
<1>5. NoRepeats(more)
  BY <1>2, <1>4 DEF NoRepeats
<1> QED BY <1>5 DEF more

(* Only keeps the members of the set and nothing else, each once if the    *)
(* list has it once.                                                       *)
LEMMA OnlyKeeps ==
  ASSUME NEW A, NEW list \in Seq(A), NEW S
  PROVE  /\ Only(list, S) \in Seq(A \cap S)
         /\ Range(Only(list, S)) = Range(list) \cap S
         /\ NoRepeats(list) => NoRepeats(Only(list, S))
<1>1. PICK k : /\ k[0] = <<>>
               /\ \A i \in 1..Len(list) :
                     k[i] = IF list[i] \in S THEN Append(k[i - 1], list[i])
                            ELSE k[i - 1]
               /\ Only(list, S) = k[Len(list)]
  BY OnlyMeans
<1>2. Len(list) \in Nat /\ DOMAIN list = 1..Len(list)
      /\ \A i \in 1..Len(list) : list[i] \in A
  BY LenProperties, ElementOfSeq
<1> DEFINE good == {i \in 0..Len(list) :
                      /\ k[i] \in Seq(A \cap S)
                      /\ Range(k[i]) = {list[j] : j \in 1..i} \cap S
                      /\ NoRepeats(list) => NoRepeats(k[i])}
<1>3. 0 \in good
  <2>1. Range(<<>>) = {} /\ NoRepeats(<<>>)
    BY DEF Range, NoRepeats
  <2>2. {list[j] : j \in 1..0} = {}
    OBVIOUS
  <2>3. k[0] \in Seq(A \cap S)
    BY <1>1
  <2>4. Range(k[0]) = {list[j] : j \in 1..0} \cap S /\ NoRepeats(k[0])
    BY <1>1, <2>1, <2>2
  <2>5. 0 \in 0..Len(list)
    BY <1>2
  <2> QED BY <2>3, <2>4, <2>5
<1>4. ASSUME NEW i \in 1..Len(list), i - 1 \in good
      PROVE  i \in good
  <2>1. /\ k[i - 1] \in Seq(A \cap S)
        /\ Range(k[i - 1]) = {list[j] : j \in 1..(i - 1)} \cap S
        /\ NoRepeats(list) => NoRepeats(k[i - 1])
    BY <1>4
  <2>2. {list[j] : j \in 1..i} = {list[j] : j \in 1..(i - 1)} \cup {list[i]}
    <3>1. 1..i = (1..(i - 1)) \cup {i}
      BY <1>2
    <3> QED BY <3>1
  <2>3. CASE list[i] \in S
    <3>1. k[i] = Append(k[i - 1], list[i])
      BY <1>1, <2>3
    <3>2. list[i] \in A \cap S
      BY <1>2, <2>3
    <3>a. k[i - 1] \in Seq(A \cap S)
      BY <2>1
    <3>b. Append(k[i - 1], list[i]) \in Seq((A \cap S) \cup {list[i]})
          /\ Range(Append(k[i - 1], list[i])) = Range(k[i - 1]) \cup {list[i]}
      <4> DEFINE l == k[i - 1]
                 B == A \cap S
                 x == list[i]
      <4>1. l \in Seq(B)
        BY <3>a
      <4> HIDE DEF l, B, x
      <4>2. Append(l, x) \in Seq(B \cup {x})
        BY <4>1, AppendList
      <4>3. Range(Append(l, x)) = Range(l) \cup {x}
        BY <4>1, AppendRange
      <4> QED BY <4>2, <4>3 DEF l, B, x
    <3>3. k[i] \in Seq((A \cap S) \cup {list[i]})
          /\ Range(k[i]) = Range(k[i - 1]) \cup {list[i]}
      BY <3>b, <3>1
    <3>4. (A \cap S) \cup {list[i]} = A \cap S
      BY <3>2
    <3>5. NoRepeats(list) => NoRepeats(k[i])
      <4> SUFFICES ASSUME NoRepeats(list) PROVE NoRepeats(k[i])
        OBVIOUS
      <4>1. list[i] \notin {list[j] : j \in 1..(i - 1)}
        BY <1>2 DEF NoRepeats
      <4>2. list[i] \notin Range(k[i - 1])
        BY <2>1, <4>1
      <4> QED BY <2>1, <3>1, <4>2, AppendNew
    <3>6. k[i] \in Seq(A \cap S)
          /\ Range(k[i]) = {list[j] : j \in 1..i} \cap S
      BY <2>1, <2>2, <2>3, <3>3, <3>4
    <3> QED BY <1>2, <3>5, <3>6
  <2>4. CASE list[i] \notin S
    <3>1. k[i] = k[i - 1]
      BY <1>1, <2>4
    <3>2. Range(k[i]) = {list[j] : j \in 1..i} \cap S
      BY <2>1, <2>2, <2>4, <3>1
    <3> QED BY <1>2, <2>1, <3>1, <3>2
  <2> QED BY <2>3, <2>4
<1>5. Len(list) \in good
  <2> HIDE DEF good
  <2>1. \A i \in 1..Len(list) : i - 1 \in good => i \in good
    BY <1>4
  <2>2. \A i \in 0..Len(list) : i \in good
    BY <1>2, <1>3, <2>1, Positions
  <2> QED BY <1>2, <2>2
<1>6. Range(list) = {list[j] : j \in 1..Len(list)}
  BY <1>2 DEF Range
<1> QED BY <1>1, <1>5, <1>6
-----------------------------------------------------------------------------
(* The recursion of FlattenSeq has a solution.                             *)
LEMMA FlattenMeans ==
  ASSUME NEW A, NEW lists \in Seq(Seq(A))
  PROVE  \E k : /\ k[0] = <<>>
                /\ \A i \in 1..Len(lists) : k[i] = k[i - 1] \o lists[i]
                /\ FlattenSeq(lists) = k[Len(lists)]
<1> DEFINE n == Len(lists)
           Solves(k, m) ==
             k = [i \in 1..m |-> IF i = 1 THEN lists[i] ELSE k[i - 1] \o lists[i]]
           solved == {m \in 0..n : \E k : Solves(k, m)}
<1>1. n \in Nat /\ \A i \in 1..n : lists[i] \in Seq(A)
  BY LenProperties, ElementOfSeq
<1>2. 0 \in solved
  <2>1. Solves([i \in 1..0 |-> <<>>], 0)
    OBVIOUS
  <2> HIDE DEF Solves, n
  <2> QED BY <1>1, <2>1
<1>3. ASSUME NEW m \in 1..n, m - 1 \in solved
      PROVE  m \in solved
  <2>1. PICK k : Solves(k, m - 1)
    BY <1>3
  <2> DEFINE last == IF m = 1 THEN lists[m] ELSE k[m - 1] \o lists[m]
             l == [i \in 1..m |-> IF i = m THEN last ELSE k[i]]
  <2> HIDE DEF last
  <2>2. \A i \in 1..(m - 1) : l[i] = k[i]
    OBVIOUS
  <2>3. l[m] = last
    OBVIOUS
  <2>4. ASSUME NEW i \in 1..m
        PROVE  l[i] = IF i = 1 THEN lists[i] ELSE l[i - 1] \o lists[i]
    <3>1. CASE i = m /\ m # 1
      <4>1. l[m - 1] = k[m - 1]
        <5>1. m - 1 \in 1..(m - 1)
          BY <3>1
        <5> QED BY <2>2, <5>1
      <4> HIDE DEF l
      <4> QED BY <2>3, <3>1, <4>1 DEF last
    <3>2. CASE i = m /\ m = 1
      <4> HIDE DEF l
      <4> QED BY <2>3, <3>2 DEF last
    <3>3. CASE i # m
      <4>1. i \in 1..(m - 1)
        BY <3>3
      <4>2. k[i] = IF i = 1 THEN lists[i] ELSE k[i - 1] \o lists[i]
        BY <2>1, <4>1
      <4>3. i # 1 => l[i - 1] = k[i - 1]
        <5>1. i # 1 => i - 1 \in 1..(m - 1)
          BY <4>1
        <5> QED BY <2>2, <5>1
      <4>4. l[i] = k[i]
        BY <2>2, <4>1
      <4> HIDE DEF l
      <4> QED BY <4>2, <4>3, <4>4
    <3> QED BY <3>1, <3>2, <3>3
  <2>5. Solves(l, m)
    <3>1. l = [i \in 1..m |-> l[i]]
      OBVIOUS
    <3> HIDE DEF l
    <3> QED BY <2>4, <3>1
  <2> HIDE DEF l, Solves
  <2> QED BY <2>5
<1>4. \E k : Solves(k, n)
  <2> HIDE DEF solved
  <2>1. \A i \in 1..n : i - 1 \in solved => i \in solved
    BY <1>3
  <2>2. \A i \in 0..n : i \in solved
    BY <1>1, <1>2, <2>1, Positions
  <2>3. n \in solved
    BY <1>1, <2>2
  <2> QED BY <2>3 DEF solved
<1> DEFINE flat == CHOOSE k : Solves(k, n)
           all == [i \in 0..n |-> IF i = 0 THEN <<>> ELSE flat[i]]
<1>5. Solves(flat, n)
  <2> HIDE DEF Solves
  <2> QED BY <1>4
<1>6. n # 0 => FlattenSeq(lists) = flat[n]
  BY DEF FlattenSeq
<1>7. n = 0 => FlattenSeq(lists) = <<>>
  <2>1. n = 0 => lists = <<>>
    BY EmptySeq
  <2> QED BY <2>1 DEF FlattenSeq
<1> HIDE DEF flat
<1>8. \A i \in 1..n :
         flat[i] = IF i = 1 THEN lists[i] ELSE flat[i - 1] \o lists[i]
  BY <1>5
<1>9. all[0] = <<>> /\ \A i \in 1..n : all[i] = flat[i]
  <2> HIDE DEF n
  <2> QED BY <1>1
<1>10. FlattenSeq(lists) = all[n]
  <2> HIDE DEF all
  <2> QED BY <1>1, <1>6, <1>7, <1>9 DEF n
<1> HIDE DEF Solves, all, n
<1>11. ASSUME NEW i \in 1..n PROVE all[i] = all[i - 1] \o lists[i]
  <2>1. CASE i = 1
    <3>1. <<>> \o lists[1] = lists[1]
      BY <1>1, <2>1, ConcatEmptySeq
    <3>2. all[1] = lists[1] /\ all[i - 1] = all[0]
      BY <1>8, <1>9, <2>1
    <3> QED BY <1>9, <2>1, <3>1, <3>2
  <2>2. CASE i # 1
    <3>1. i - 1 \in 1..n
      BY <1>1, <2>2
    <3> QED BY <1>8, <1>9, <2>2, <3>1
  <2> QED BY <2>1, <2>2
<1> QED BY <1>9, <1>10, <1>11 DEF n

(* What is in two lists, one after the other.                              *)
LEMMA RangeOfConcat ==
  ASSUME NEW A, NEW s \in Seq(A), NEW t \in Seq(A)
  PROVE  /\ s \o t \in Seq(A)
         /\ Range(s \o t) = Range(s) \cup Range(t)
         /\ NoRepeats(s) /\ NoRepeats(t) /\ Range(s) \cap Range(t) = {}
               => NoRepeats(s \o t)
<1> DEFINE u == s \o t
<1>1. /\ u \in Seq(A) /\ Len(u) = Len(s) + Len(t)
      /\ \A i \in 1..(Len(s) + Len(t)) :
            u[i] = IF i <= Len(s) THEN s[i] ELSE t[i - Len(s)]
  BY ConcatProperties
<1>2. /\ DOMAIN u = 1..(Len(s) + Len(t))
      /\ DOMAIN s = 1..Len(s) /\ DOMAIN t = 1..Len(t)
      /\ Len(s) \in Nat /\ Len(t) \in Nat
  BY <1>1, LenProperties
<1> HIDE DEF u
<1>3. \A i \in DOMAIN u : \/ i \in DOMAIN s /\ u[i] = s[i]
                          \/ i - Len(s) \in DOMAIN t /\ u[i] = t[i - Len(s)]
  BY <1>1, <1>2
<1>4. \A i \in DOMAIN s : i \in DOMAIN u /\ u[i] = s[i]
  BY <1>1, <1>2
<1>5. \A i \in DOMAIN t : i + Len(s) \in DOMAIN u /\ u[i + Len(s)] = t[i]
  BY <1>1, <1>2
<1>6. Range(u) = Range(s) \cup Range(t)
  BY <1>3, <1>4, <1>5 DEF Range
<1>7. ASSUME NoRepeats(s), NoRepeats(t), Range(s) \cap Range(t) = {}
      PROVE  NoRepeats(u)
  <2> SUFFICES ASSUME NEW i \in DOMAIN u, NEW j \in DOMAIN u, u[i] = u[j]
               PROVE  i = j
    BY DEF NoRepeats
  <2>1. \A a \in DOMAIN s, b \in DOMAIN t : s[a] # t[b]
    BY <1>7 DEF Range
  <2>2. CASE i \in DOMAIN s /\ j \in DOMAIN s
    BY <1>4, <1>7, <2>2 DEF NoRepeats
  <2>3. CASE i \notin DOMAIN s /\ j \notin DOMAIN s
    <3>1. i - Len(s) = j - Len(s)
      BY <1>3, <1>7, <2>3 DEF NoRepeats
    <3> QED BY <1>2, <3>1
  <2>4. CASE i \in DOMAIN s /\ j \notin DOMAIN s
    BY <1>3, <1>4, <2>1, <2>4
  <2>5. CASE i \notin DOMAIN s /\ j \in DOMAIN s
    BY <1>3, <1>4, <2>1, <2>5
  <2> QED BY <2>2, <2>3, <2>4, <2>5
<1> QED BY <1>1, <1>6, <1>7 DEF u

(* What FlattenSeq makes of lists: all that they have, each once if they   *)
(* have it once and no two have the same.                                  *)
LEMMA FlattenKeeps ==
  ASSUME NEW A, NEW lists \in Seq(Seq(A))
  PROVE  /\ FlattenSeq(lists) \in Seq(A)
         /\ Range(FlattenSeq(lists)) =
               UNION {Range(lists[i]) : i \in 1..Len(lists)}
         /\ (/\ \A i \in 1..Len(lists) : NoRepeats(lists[i])
             /\ \A i, j \in 1..Len(lists) :
                   i # j => Range(lists[i]) \cap Range(lists[j]) = {})
            => NoRepeats(FlattenSeq(lists))
<1> DEFINE n == Len(lists)
           Apart == /\ \A i \in 1..n : NoRepeats(lists[i])
                    /\ \A i, j \in 1..n :
                          i # j => Range(lists[i]) \cap Range(lists[j]) = {}
           Upto(m) == UNION {Range(lists[i]) : i \in 1..m}
<1>1. n \in Nat /\ \A i \in 1..n : lists[i] \in Seq(A)
  BY LenProperties, ElementOfSeq
<1>2. PICK k : /\ k[0] = <<>>
               /\ \A i \in 1..n : k[i] = k[i - 1] \o lists[i]
               /\ FlattenSeq(lists) = k[n]
  BY FlattenMeans
<1> DEFINE good == {i \in 0..n : /\ k[i] \in Seq(A)
                                 /\ Range(k[i]) = Upto(i)
                                 /\ Apart => NoRepeats(k[i])}
<1>3. 0 \in good
  <2>1. Range(<<>>) = {} /\ NoRepeats(<<>>)
    BY DEF Range, NoRepeats
  <2>2. Upto(0) = {}
    OBVIOUS
  <2> HIDE DEF Upto, Apart, n
  <2>3. k[0] \in Seq(A) /\ Range(k[0]) = Upto(0) /\ NoRepeats(k[0])
    <3>1. k[0] = <<>>
      BY <1>2
    <3>2. <<>> \in Seq(A)
      OBVIOUS
    <3>3. Range(k[0]) = {} /\ NoRepeats(k[0])
      BY <2>1, <3>1
    <3> QED BY <2>2, <3>1, <3>2, <3>3
  <2> QED BY <1>1, <2>3
<1>4. ASSUME NEW i \in 1..n, i - 1 \in good
      PROVE  i \in good
  <2>1. /\ k[i - 1] \in Seq(A) /\ Range(k[i - 1]) = Upto(i - 1)
        /\ Apart => NoRepeats(k[i - 1])
    BY <1>4
  <2>2. Upto(i) = Upto(i - 1) \cup Range(lists[i])
    <3>1. 1..i = (1..(i - 1)) \cup {i}
      BY <1>1
    <3> QED BY <3>1
  <2>3. Apart => Upto(i - 1) \cap Range(lists[i]) = {}
    <3> SUFFICES ASSUME Apart, NEW j \in 1..(i - 1)
                 PROVE  Range(lists[j]) \cap Range(lists[i]) = {}
      OBVIOUS
    <3>1. j \in 1..n /\ j # i
      BY <1>1
    <3> QED BY <3>1
  <2>4. Apart => NoRepeats(lists[i])
    OBVIOUS
  <2>5. k[i] = k[i - 1] \o lists[i] /\ lists[i] \in Seq(A)
    BY <1>1, <1>2
  <2> HIDE DEF Upto, Apart, n
  <2>6. /\ k[i] \in Seq(A)
        /\ Range(k[i]) = Range(k[i - 1]) \cup Range(lists[i])
    BY <2>1, <2>5, RangeOfConcat
  <2>7. ASSUME Apart PROVE NoRepeats(k[i])
    BY <2>1, <2>3, <2>4, <2>5, <2>7, RangeOfConcat
  <2>8. Range(k[i]) = Upto(i) /\ i \in 0..n
    BY <1>1, <2>1, <2>2, <2>6
  <2> QED BY <2>6, <2>7, <2>8
<1>5. n \in good
  <2> HIDE DEF good
  <2>1. \A i \in 1..n : i - 1 \in good => i \in good
    BY <1>4
  <2>2. \A i \in 0..n : i \in good
    BY <1>1, <1>3, <2>1, Positions
  <2> QED BY <1>1, <2>2
<1> QED BY <1>2, <1>5
-----------------------------------------------------------------------------
(* A list that is given by its elements.                                   *)
LEMMA FunctionList ==
  ASSUME NEW A, NEW n \in Nat, NEW f, f = [i \in 1..n |-> f[i]],
         \A i \in 1..n : f[i] \in A
  PROVE  f \in Seq(A) /\ Len(f) = n /\ DOMAIN f = 1..n
<1>1. f \in [1..n -> A] /\ DOMAIN f = 1..n
  OBVIOUS
<1> QED BY <1>1, SeqDef

LEMMA OwnList ==
  ASSUME NEW A, NEW list \in Seq(A)
  PROVE  /\ list \in Seq(Range(list))
         /\ Len(list) \in Nat /\ DOMAIN list = 1..Len(list)
         /\ \A i \in 1..Len(list) : list[i] \in A /\ list[i] \in Range(list)
         /\ Range(list) \subseteq A
<1>1. Len(list) \in Nat /\ DOMAIN list = 1..Len(list)
      /\ list \in [1..Len(list) -> A]
  BY LenProperties
<1>2. \A i \in 1..Len(list) : list[i] \in Range(list) /\ list[i] \in A
  BY <1>1, ElementOfSeq DEF Range
<1>3. list = [i \in 1..Len(list) |-> list[i]]
  BY <1>1
<1>4. list \in Seq(Range(list))
  BY <1>1, <1>2, <1>3, FunctionList
<1>5. Range(list) \subseteq A
  BY <1>1, <1>2 DEF Range
<1> QED BY <1>1, <1>2, <1>4, <1>5

(* The jobs for one task and one event.                                    *)
CopySet(t, event, type) ==
    {[task |-> t, event |-> event, type |-> type, index |-> n] :
        n \in 0..(t.count - 1)}

LEMMA CopiesKeep ==
  ASSUME NEW t, t.count \in Nat, NEW event, NEW type
  PROVE  /\ Copies(t, event, type) \in Seq(CopySet(t, event, type))
         /\ Range(Copies(t, event, type)) = CopySet(t, event, type)
         /\ NoRepeats(Copies(t, event, type))
<1> DEFINE n == t.count
           job(i) == [task |-> t, event |-> event, type |-> type, index |-> i]
           s == [i \in 1..n |-> job(i - 1)]
           S == {job(i) : i \in 0..(n - 1)}
<1>1. s = Copies(t, event, type) /\ S = CopySet(t, event, type)
  BY DEF Copies, CopySet
<1>2. \A i, j : job(i) = job(j) => i = j
  <2> SUFFICES ASSUME NEW i, NEW j, job(i) = job(j) PROVE i = j
    OBVIOUS
  <2>1. job(i).index = i /\ job(j).index = j
    OBVIOUS
  <2> HIDE DEF job
  <2> QED BY <2>1
<1> HIDE DEF job, n
<1>3. n \in Nat
  BY DEF n
<1>4. /\ DOMAIN s = 1..n /\ s = [i \in 1..n |-> s[i]]
      /\ \A i \in 1..n : s[i] = job(i - 1) /\ s[i] \in S
  BY <1>3
<1> HIDE DEF s
<1>5. s \in Seq(S)
  <2> HIDE DEF S
  <2> QED BY <1>3, <1>4, FunctionList
<1>6. Range(s) = S
  <2>1. ASSUME NEW x \in S PROVE x \in Range(s)
    <3>1. PICK i \in 0..(n - 1) : x = job(i)
      OBVIOUS
    <3>2. i + 1 \in 1..n /\ (i + 1) - 1 = i
      BY <1>3
    <3>3. s[i + 1] = x /\ i + 1 \in DOMAIN s
      BY <1>4, <3>1, <3>2
    <3> QED BY <3>3 DEF Range
  <2>2. ASSUME NEW x \in Range(s) PROVE x \in S
    BY <1>4 DEF Range
  <2> QED BY <2>1, <2>2
<1>7. NoRepeats(s)
  <2> SUFFICES ASSUME NEW i \in 1..n, NEW j \in 1..n, s[i] = s[j]
               PROVE  i = j
    BY <1>4 DEF NoRepeats
  <2>1. i - 1 = j - 1
    BY <1>2, <1>4
  <2> QED BY <1>3, <2>1
<1> QED BY <1>1, <1>5, <1>6, <1>7

(* The jobs for one task: all that are for an event are for one of a type  *)
(* that the task is valid for.                                             *)
TaskJobSet(t, events) ==
    IF t.validFor = {} \/ events = <<>> THEN CopySet(t, None, None)
    ELSE UNION {CopySet(t, e.id, e.type) :
                   e \in {d \in Range(events) : d.type \in t.validFor}}

LEMMA TaskJobsKeep ==
  ASSUME NEW t, t.count \in Nat, NEW events, EventList(events)
  PROVE  /\ TaskJobs(t, events) \in Seq(TaskJobSet(t, events))
         /\ Range(TaskJobs(t, events)) = TaskJobSet(t, events)
         /\ NoRepeats(TaskJobs(t, events))
<1>1. CASE t.validFor = {} \/ events = <<>>
  <2>1. /\ TaskJobs(t, events) = Copies(t, None, None)
        /\ TaskJobSet(t, events) = CopySet(t, None, None)
    BY <1>1 DEF TaskJobs, TaskJobSet
  <2> QED BY <2>1, CopiesKeep
<1>2. CASE ~(t.validFor = {} \/ events = <<>>)
  <2> DEFINE n == Len(events)
             S == TaskJobSet(t, events)
             For(e) == IF e.type \in t.validFor
                       THEN CopySet(t, e.id, e.type) ELSE {}
             lists == [i \in 1..n |->
                         IF events[i].type \in t.validFor
                         THEN Copies(t, events[i].id, events[i].type)
                         ELSE <<>>]
  <2>1. /\ n \in Nat /\ DOMAIN events = 1..n
        /\ \A i \in 1..n : events[i] \in Range(events)
    BY OwnList DEF EventList
  <2>2. TaskJobs(t, events) = FlattenSeq(lists)
    BY <1>2, <2>1 DEF TaskJobs
  <2>3. S = UNION {CopySet(t, e.id, e.type) :
                   e \in {d \in Range(events) : d.type \in t.validFor}}
    BY <1>2 DEF TaskJobSet
  <2>4. /\ DOMAIN lists = 1..n /\ lists = [i \in 1..n |-> lists[i]]
        /\ \A i \in 1..n :
              lists[i] = IF events[i].type \in t.validFor
                         THEN Copies(t, events[i].id, events[i].type)
                         ELSE <<>>
    OBVIOUS
  <2> HIDE DEF lists, S, n
  <2>5. ASSUME NEW i \in 1..n
        PROVE  /\ lists[i] \in Seq(S) /\ Range(lists[i]) = For(events[i])
               /\ NoRepeats(lists[i])
    <3>1. CASE events[i].type \in t.validFor
      <4> DEFINE e == events[i]
                 C == CopySet(t, e.id, e.type)
      <4>1. C \subseteq S
        BY <2>1, <2>3, <3>1
      <4>2. lists[i] = Copies(t, e.id, e.type)
        BY <2>4, <3>1
      <4>3. lists[i] \in Seq(C) /\ Range(lists[i]) = C /\ NoRepeats(lists[i])
        BY <4>2, CopiesKeep
      <4>4. For(e) = C
        BY <3>1
      <4> HIDE DEF C, For, e
      <4>5. lists[i] \in Seq(S)
        BY <4>1, <4>3, SeqMonotonic
      <4> QED BY <4>3, <4>4, <4>5 DEF e
    <3>2. CASE events[i].type \notin t.validFor
      <4>1. Range(<<>>) = {} /\ NoRepeats(<<>>)
        BY DEF Range, NoRepeats
      <4>2. lists[i] = <<>> /\ For(events[i]) = {}
        BY <2>4, <3>2
      <4>3. <<>> \in Seq(S)
        OBVIOUS
      <4> HIDE DEF For
      <4> QED BY <4>1, <4>2, <4>3
    <3> QED BY <3>1, <3>2
  <2>6. lists \in Seq(Seq(S)) /\ Len(lists) = n
    BY <2>1, <2>4, <2>5, FunctionList
  <2>7. ASSUME NEW i \in 1..n, NEW j \in 1..n, i # j
        PROVE  Range(lists[i]) \cap Range(lists[j]) = {}
    <3>1. events[i].id # events[j].id
      BY <2>1, <2>7 DEF EventList, Distinct
    <3>2. ASSUME NEW x \in For(events[i]) PROVE x.event = events[i].id
      BY DEF CopySet
    <3>3. ASSUME NEW x \in For(events[j]) PROVE x.event = events[j].id
      BY DEF CopySet
    <3> HIDE DEF For
    <3> QED BY <2>5, <3>1, <3>2, <3>3
  <2>8. /\ FlattenSeq(lists) \in Seq(S)
        /\ Range(FlattenSeq(lists)) = UNION {Range(lists[i]) : i \in 1..n}
        /\ NoRepeats(FlattenSeq(lists))
    BY <2>5, <2>6, <2>7, FlattenKeeps
  <2>9. UNION {Range(lists[i]) : i \in 1..n} = S
    <3>1. UNION {Range(lists[i]) : i \in 1..n} = UNION {For(events[i]) : i \in 1..n}
      <4> HIDE DEF For
      <4> QED BY <2>5
    <3>2. UNION {For(events[i]) : i \in 1..n} = UNION {For(e) : e \in Range(events)}
      <4> HIDE DEF For
      <4> QED BY <2>1 DEF Range
    <3>3. UNION {For(e) : e \in Range(events)} = S
      <4> DEFINE C(e) == CopySet(t, e.id, e.type)
      <4>1. \A e \in Range(events) :
               For(e) = IF e.type \in t.validFor THEN C(e) ELSE {}
        OBVIOUS
      <4>2. S = UNION {C(e) : e \in {d \in Range(events) : d.type \in t.validFor}}
        BY <2>3
      <4> HIDE DEF For, C
      <4> QED BY <4>1, <4>2
    <3> QED BY <3>1, <3>2, <3>3
  <2> QED BY <2>2, <2>8, <2>9 DEF S
<1> QED BY <1>1, <1>2
(* The lists of tasks that compile writes.                                 *)
LEMMA TasksAre ==
  ASSUME NEW tasks \in TaskLists
  PROVE  /\ tasks \in Seq(Range(tasks)) /\ Distinct(tasks)
         /\ \A t \in Range(tasks) : t.count \in Nat
  BY PlansAssumption DEF TaskLists, Distinct

(* The jobs for all tasks, each once.                                      *)
LEMMA JobsKeep ==
  ASSUME NEW tasks \in TaskLists, NEW events, EventList(events)
  PROVE  /\ Jobs(tasks, events) \in Seq(Range(Jobs(tasks, events)))
         /\ Range(Jobs(tasks, events)) =
               UNION {TaskJobSet(t, events) : t \in Range(tasks)}
         /\ NoRepeats(Jobs(tasks, events))
<1> DEFINE n == Len(tasks)
           For(t) == TaskJobSet(t, events)
           S == UNION {For(t) : t \in Range(tasks)}
           lists == [i \in 1..n |-> TaskJobs(tasks[i], events)]
<1>1. /\ n \in Nat /\ DOMAIN tasks = 1..n
      /\ \A i \in 1..n : tasks[i] \in Range(tasks)
  BY TasksAre, OwnList
<1>2. Jobs(tasks, events) = FlattenSeq(lists)
  BY <1>1 DEF Jobs
<1>3. /\ lists = [i \in 1..n |-> lists[i]]
      /\ \A i \in 1..n : lists[i] = TaskJobs(tasks[i], events)
  OBVIOUS
<1> HIDE DEF lists, For, n
<1>4. ASSUME NEW i \in 1..n
      PROVE  /\ lists[i] \in Seq(S) /\ Range(lists[i]) = For(tasks[i])
             /\ NoRepeats(lists[i])
  <2> DEFINE t == tasks[i]
  <2>1. t \in Range(tasks) /\ t.count \in Nat
    BY <1>1, TasksAre
  <2>2. lists[i] = TaskJobs(t, events)
    BY <1>3
  <2> HIDE DEF t
  <2>3. /\ lists[i] \in Seq(For(t)) /\ Range(lists[i]) = For(t)
        /\ NoRepeats(lists[i])
    BY <2>1, <2>2, TaskJobsKeep DEF For
  <2>4. For(t) \subseteq S
    BY <2>1
  <2> HIDE DEF S
  <2>5. lists[i] \in Seq(S)
    BY <2>3, <2>4, SeqMonotonic
  <2> QED BY <2>3, <2>5 DEF t
<1>5. lists \in Seq(Seq(S)) /\ Len(lists) = n
  <2> HIDE DEF S
  <2> QED BY <1>1, <1>3, <1>4, FunctionList
<1>6. \A t : \A x \in For(t) : x.task = t
  <2> SUFFICES ASSUME NEW t, NEW x \in For(t) PROVE x.task = t
    OBVIOUS
  <2>1. \A v, y : \A z \in CopySet(t, v, y) : z.task = t
    BY DEF CopySet
  <2>2. \E v, y : x \in CopySet(t, v, y)
    BY DEF For, TaskJobSet
  <2> QED BY <2>1, <2>2
<1>7. ASSUME NEW i \in 1..n, NEW j \in 1..n, i # j
      PROVE  Range(lists[i]) \cap Range(lists[j]) = {}
  <2>1. tasks[i] # tasks[j]
    BY <1>1, <1>7, TasksAre DEF Distinct
  <2>2. Range(lists[i]) = For(tasks[i]) /\ Range(lists[j]) = For(tasks[j])
    BY <1>4
  <2>3. For(tasks[i]) \cap For(tasks[j]) = {}
    BY <1>6, <2>1
  <2> QED BY <2>2, <2>3
<1>8. /\ FlattenSeq(lists) \in Seq(S)
      /\ Range(FlattenSeq(lists)) = UNION {Range(lists[i]) : i \in 1..n}
      /\ NoRepeats(FlattenSeq(lists))
  <2> HIDE DEF S
  <2> QED BY <1>4, <1>5, <1>7, FlattenKeeps
<1>9. UNION {Range(lists[i]) : i \in 1..n} = S
  <2>1. UNION {Range(lists[i]) : i \in 1..n} = UNION {For(tasks[i]) : i \in 1..n}
    BY <1>4
  <2>2. UNION {For(tasks[i]) : i \in 1..n} = S
    BY <1>1 DEF Range
  <2> QED BY <2>1, <2>2
<1>10. FlattenSeq(lists) \in Seq(Range(FlattenSeq(lists)))
  <2> HIDE DEF S
  <2> QED BY <1>8, OwnList
<1> QED BY <1>2, <1>8, <1>9, <1>10 DEF For

(* What a job is, and which jobs there are.                                *)
IsJob(job, tasks, events) ==
    /\ job = [task |-> job.task, event |-> job.event, type |-> job.type,
              index |-> job.index]
    /\ job.task \in Range(tasks)
    /\ job.index \in 0..(job.task.count - 1)
    /\ \/ job.event = None /\ job.type = None
       \/ \E e \in Range(events) : /\ job.event = e.id /\ job.type = e.type
                                   /\ e.type \in job.task.validFor

LEMMA JobsAre ==
  ASSUME NEW tasks \in TaskLists, NEW events, EventList(events)
  PROVE  /\ \A job \in Range(Jobs(tasks, events)) : IsJob(job, tasks, events)
         /\ \A t \in Range(tasks), e \in Range(events) :
               e.type \in t.validFor =>
                  CopySet(t, e.id, e.type) \subseteq Range(Jobs(tasks, events))
<1>1. Range(Jobs(tasks, events)) =
         UNION {TaskJobSet(t, events) : t \in Range(tasks)}
  BY JobsKeep
<1>2. ASSUME NEW t, NEW v, NEW y, NEW job \in CopySet(t, v, y)
      PROVE  /\ job = [task |-> job.task, event |-> job.event,
                       type |-> job.type, index |-> job.index]
             /\ job.task = t /\ job.event = v /\ job.type = y
             /\ job.index \in 0..(t.count - 1)
  BY DEF CopySet
<1>3. ASSUME NEW t \in Range(tasks), NEW job \in TaskJobSet(t, events)
      PROVE  IsJob(job, tasks, events)
  <2>1. CASE t.validFor = {} \/ events = <<>>
    <3>1. job \in CopySet(t, None, None)
      BY <2>1 DEF TaskJobSet
    <3> QED BY <1>2, <3>1 DEF IsJob
  <2>2. CASE ~(t.validFor = {} \/ events = <<>>)
    <3>1. PICK e \in Range(events) : /\ e.type \in t.validFor
                                     /\ job \in CopySet(t, e.id, e.type)
      BY <2>2 DEF TaskJobSet
    <3> QED BY <1>2, <3>1 DEF IsJob
  <2> QED BY <2>1, <2>2
<1>4. ASSUME NEW t \in Range(tasks), NEW e \in Range(events),
             e.type \in t.validFor
      PROVE  CopySet(t, e.id, e.type) \subseteq TaskJobSet(t, events)
  <2>1. t.validFor # {}
    BY <1>4
  <2>2. events # <<>>
    BY DEF Range
  <2> QED BY <1>4, <2>1, <2>2 DEF TaskJobSet
<1>5. \A job \in Range(Jobs(tasks, events)) : IsJob(job, tasks, events)
  BY <1>1, <1>3
<1>6. ASSUME NEW t \in Range(tasks), NEW e \in Range(events),
             e.type \in t.validFor
      PROVE  CopySet(t, e.id, e.type) \subseteq Range(Jobs(tasks, events))
  BY <1>1, <1>4, <1>6
<1> QED BY <1>5, <1>6

(* Ids of tasks and of events say which they are, and so does the id that  *)
(* an asset gets in the pool.                                              *)
LEMMA JobIds ==
  ASSUME NEW tasks \in TaskLists, NEW events, EventList(events),
         NEW a \in Range(Jobs(tasks, events)),
         NEW b \in Range(Jobs(tasks, events)),
         a.task.id = b.task.id, a.event = b.event, a.index = b.index
  PROVE  a = b
<1>1. IsJob(a, tasks, events) /\ IsJob(b, tasks, events)
  BY JobsAre
<1>2. a.task = b.task
  <2>1. a.task \in Range(tasks) /\ b.task \in Range(tasks)
    BY <1>1 DEF IsJob
  <2>2. \A s, t \in Range(tasks) : s.id = t.id => s = t
    BY TasksAre DEF Distinct, Range
  <2> QED BY <2>1, <2>2
<1>3. a.type = b.type
  <2>1. \A d, e \in Range(events) : d.id = e.id => d = e
    BY DEF EventList, Distinct, Range
  <2>2. \A e \in Range(events) : e.id # None
    BY DEF EventList, IsEvent
  <2> QED BY <1>1, <2>1, <2>2 DEF IsJob
<1> QED BY <1>1, <1>2, <1>3 DEF IsJob
-----------------------------------------------------------------------------
(* What rewriting the event plan does to it.                               *)
LEMMA ResolveKeeps ==
  ASSUME NEW events, EventList(events), NEW pool
  PROVE  LET resolved == Resolve(events, pool) IN
         /\ EventList(resolved)
         /\ Len(resolved) = Len(events)
         /\ \A i \in 1..Len(events) :
               /\ resolved[i].id = events[i].id
               /\ resolved[i].type = events[i].type
               /\ resolved[i].refs = RefsFor(events[i].id, pool)
<1> DEFINE r == Resolve(events, pool)
           n == Len(events)
<1>1. /\ n \in Nat /\ DOMAIN events = 1..n
      /\ \A i \in 1..n : events[i] \in Range(events)
  BY OwnList DEF EventList
<1>2. /\ r = [i \in 1..n |-> r[i]] /\ DOMAIN r = 1..n
      /\ \A i \in 1..n :
            r[i] = [events[i] EXCEPT !.refs = RefsFor(events[i].id, pool)]
  BY <1>1 DEF Resolve
<1> HIDE DEF r, n
<1>3. ASSUME NEW i \in 1..n
      PROVE  /\ IsEvent(r[i])
             /\ r[i].id = events[i].id /\ r[i].type = events[i].type
             /\ r[i].refs = RefsFor(events[i].id, pool)
  <2>1. IsEvent(events[i])
    BY <1>1 DEF EventList
  <2> QED BY <1>2, <2>1 DEF IsEvent
<1>4. r \in Seq(Range(r)) /\ Len(r) = n
  <2>1. \A i \in 1..n : r[i] \in Range(r)
    BY <1>2 DEF Range
  <2> QED BY <1>1, <1>2, <2>1, FunctionList
<1>5. \A e \in Range(r) : IsEvent(e)
  BY <1>2, <1>3 DEF Range
<1>6. Distinct(r)
  <2>1. \A i, j \in 1..n : events[i].id = events[j].id => i = j
    BY <1>1 DEF EventList, Distinct
  <2> QED BY <1>2, <1>3, <2>1 DEF Distinct
<1> QED BY <1>3, <1>4, <1>5, <1>6 DEF EventList, r, n

(* The references of an event: the ids of its assets, each once.           *)
LEMMA RefsAre ==
  ASSUME NEW pool, pool \in Seq(Range(pool)), Distinct(pool), NEW id
  PROVE  /\ Range(RefsFor(id, pool)) =
               {a.id : a \in {b \in Range(pool) : b.asset.event = id}}
         /\ NoRepeats(RefsFor(id, pool))
<1> DEFINE S == {a \in Range(pool) : a.asset.event = id}
           its == Only(pool, S)
           n == Len(its)
           refs == [i \in DOMAIN its |-> its[i].id]
<1>1. NoRepeats(pool)
  BY DEF Distinct, NoRepeats
<1>2. /\ its \in Seq(Range(pool) \cap S) /\ Range(its) = Range(pool) \cap S
      /\ NoRepeats(its)
  <2> HIDE DEF S
  <2> QED BY <1>1, OnlyKeeps
<1>3. Range(its) = S
  BY <1>2
<1>4. RefsFor(id, pool) = refs
  BY DEF RefsFor
<1> HIDE DEF its
<1>5. \A i \in DOMAIN its : its[i] \in S
  BY <1>3 DEF Range
<1>6. DOMAIN refs = DOMAIN its /\ \A i \in DOMAIN its : refs[i] = its[i].id
  OBVIOUS
<1> HIDE DEF refs
<1>7. Range(refs) = {a.id : a \in S}
  <2> HIDE DEF S
  <2>1. ASSUME NEW x \in Range(refs) PROVE x \in {a.id : a \in S}
    BY <1>5, <1>6 DEF Range
  <2>2. ASSUME NEW a \in S PROVE a.id \in Range(refs)
    <3>1. PICK i \in DOMAIN its : its[i] = a
      BY <1>3 DEF Range
    <3> QED BY <1>6, <3>1 DEF Range
  <2> QED BY <2>1, <2>2
<1>8. \A a, b \in S : a.id = b.id => a = b
  BY DEF Distinct, Range
<1>9. NoRepeats(refs)
  <2> HIDE DEF S
  <2> QED BY <1>2, <1>5, <1>6, <1>8 DEF NoRepeats
<1> QED BY <1>4, <1>7, <1>9

(* A pool for the first jobs of a list, entry by entry.                    *)
LEMMA PoolEntries ==
  ASSUME NEW tasks \in TaskLists, NEW events, EventList(events),
         NEW pool, NEW provider, NEW scenario, NEW forced, NEW stored,
         PoolFor(pool, tasks, events, provider, scenario, forced, stored),
         forced \/ KeysApart
  PROVE  LET jobs == Jobs(tasks, events) IN
         /\ Len(pool) \in Nat /\ DOMAIN pool = 1..Len(pool)
         /\ Len(jobs) \in Nat /\ DOMAIN jobs = 1..Len(jobs)
         /\ \A i \in 1..Len(pool) :
               /\ jobs[i] \in Range(jobs) /\ IsJob(jobs[i], tasks, events)
               /\ pool[i].id = <<jobs[i].task.id, provider, jobs[i].event,
                                 jobs[i].index>>
               /\ \E text : pool[i].asset = Made(jobs[i], provider, text)
<1> DEFINE jobs == Jobs(tasks, events)
<1>1. /\ Len(jobs) \in Nat /\ DOMAIN jobs = 1..Len(jobs)
      /\ \A i \in 1..Len(jobs) : jobs[i] \in Range(jobs)
  BY JobsKeep, OwnList
<1>2. Len(pool) \in Nat /\ DOMAIN pool = 1..Len(pool)
      /\ Len(pool) <= Len(jobs)
  BY OwnList DEF PoolFor
<1>3. \A job \in Range(jobs) : IsJob(job, tasks, events)
  BY JobsAre
<1>4. \A i \in 1..Len(pool) : MadeFor(pool[i], jobs[i], provider)
  BY <1>2 DEF PoolFor, Entry
<1> HIDE DEF jobs
<1>5. \A i \in 1..Len(pool) : jobs[i] \in Range(jobs)
  BY <1>1, <1>2
<1> QED BY <1>1, <1>2, <1>3, <1>4, <1>5 DEF MadeFor, jobs

LEMMA PoolIds ==
  ASSUME NEW tasks \in TaskLists, NEW events, EventList(events),
         NEW pool, NEW provider, NEW scenario, NEW forced, NEW stored,
         PoolFor(pool, tasks, events, provider, scenario, forced, stored),
         forced \/ KeysApart
  PROVE  Distinct(pool)
<1> DEFINE jobs == Jobs(tasks, events)
           n == Len(pool)
<1>a. n <= Len(jobs)
  BY DEF PoolFor
<1>1. /\ DOMAIN pool = 1..n /\ n \in Nat /\ n <= Len(jobs)
      /\ DOMAIN jobs = 1..Len(jobs) /\ Len(jobs) \in Nat
      /\ \A i \in 1..n :
            /\ jobs[i] \in Range(jobs)
            /\ pool[i].id = <<jobs[i].task.id, provider, jobs[i].event,
                              jobs[i].index>>
  BY <1>a, PoolEntries
<1>2. NoRepeats(jobs)
  BY JobsKeep
<1>3. ASSUME NEW i \in 1..n, NEW j \in 1..n, pool[i].id = pool[j].id
      PROVE  i = j
  <2>1. jobs[i] \in Range(jobs) /\ jobs[j] \in Range(jobs)
    BY <1>1
  <2>2. /\ jobs[i].task.id = jobs[j].task.id
        /\ jobs[i].event = jobs[j].event /\ jobs[i].index = jobs[j].index
    BY <1>1, <1>3
  <2>3. jobs[i] = jobs[j]
    BY <2>1, <2>2, JobIds
  <2>4. i \in DOMAIN jobs /\ j \in DOMAIN jobs
    BY <1>1
  <2> HIDE DEF jobs
  <2> QED BY <1>2, <2>3, <2>4 DEF NoRepeats
<1> QED BY <1>1, <1>3 DEF Distinct
(* A complete pool has for an event of a type that a task is valid for as  *)
(* many assets of the task as it asks for.                                 *)
LEMMA PoolCounts ==
  ASSUME NEW tasks \in TaskLists, NEW events, EventList(events),
         NEW pool, NEW provider, NEW scenario, NEW forced, NEW stored,
         PoolFor(pool, tasks, events, provider, scenario, forced, stored),
         Len(pool) = Len(Jobs(tasks, events)), forced \/ KeysApart,
         NEW t \in Range(tasks), NEW e \in Range(events)
  PROVE  Cardinality({a \in Range(pool) :
             a.asset.task = t.id /\ a.asset.event = e.id})
           = IF e.type \in t.validFor THEN t.count ELSE 0
<1> DEFINE jobs == Jobs(tasks, events)
           n == Len(pool)
           S == {a \in Range(pool) : a.asset.task = t.id /\ a.asset.event = e.id}
           job(m) == [task |-> t, event |-> e.id, type |-> e.type, index |-> m]
<1>1. /\ DOMAIN pool = 1..n /\ DOMAIN jobs = 1..n /\ n \in Nat
      /\ \A i \in 1..n :
            /\ IsJob(jobs[i], tasks, events)
            /\ pool[i].id = <<jobs[i].task.id, provider, jobs[i].event,
                              jobs[i].index>>
            /\ \E text : pool[i].asset = Made(jobs[i], provider, text)
  BY PoolEntries
<1>2. ASSUME NEW i \in 1..n
      PROVE  /\ pool[i].asset.task = jobs[i].task.id
             /\ pool[i].asset.event = jobs[i].event
  <2>1. PICK text : pool[i].asset = Made(jobs[i], provider, text)
    BY <1>1
  <2> HIDE DEF jobs
  <2> QED BY <2>1 DEF Made
<1>3. t.count \in Nat
  BY TasksAre
<1>4. ASSUME NEW i \in 1..n, pool[i] \in S
      PROVE  /\ e.type \in t.validFor
             /\ jobs[i].index \in 0..(t.count - 1)
             /\ jobs[i] = job(jobs[i].index)
  <2>1. jobs[i].task.id = t.id /\ jobs[i].event = e.id
    BY <1>2, <1>4
  <2>2. IsJob(jobs[i], tasks, events)
    BY <1>1
  <2> HIDE DEF jobs
  <2>3. jobs[i].task = t
    BY <2>1, <2>2, TasksAre DEF IsJob, Distinct, Range
  <2>4. e.id # None
    BY DEF EventList, IsEvent
  <2>5. \A d \in Range(events) : d.id = e.id => d = e
    BY DEF EventList, Distinct, Range
  <2>6. jobs[i].type = e.type /\ e.type \in t.validFor
    BY <2>1, <2>2, <2>3, <2>4, <2>5 DEF IsJob
  <2> QED BY <2>1, <2>2, <2>3, <2>6 DEF IsJob
<1>5. CASE e.type \in t.validFor
  <2> DEFINE C == 0..(t.count - 1)
             at(m) == CHOOSE i \in 1..n : jobs[i] = job(m)
             f == [m \in C |-> pool[at(m)]]
  <2>1. ASSUME NEW m \in C PROVE at(m) \in 1..n /\ jobs[at(m)] = job(m)
    <3>1. job(m) \in Range(jobs)
      BY <1>5, JobsAre DEF CopySet
    <3>2. \E i \in 1..n : jobs[i] = job(m)
      <4> HIDE DEF jobs, job
      <4> QED BY <1>1, <3>1 DEF Range
    <3> HIDE DEF jobs, job
    <3> QED BY <3>2
  <2>2. \A m \in C : /\ job(m).task = t /\ job(m).event = e.id
                     /\ job(m).index = m
    OBVIOUS
  <2>3. \A i, j \in C : job(i) = job(j) => i = j
    OBVIOUS
  <2> HIDE DEF at, jobs, job, n
  <2>4. DOMAIN f = C /\ \A m \in C : f[m] = pool[at(m)]
    OBVIOUS
  <2> HIDE DEF f
  <2>5. ASSUME NEW m \in C PROVE f[m] \in S
    <3>1. at(m) \in 1..n /\ jobs[at(m)] = job(m) /\ f[m] = pool[at(m)]
      BY <2>1, <2>4
    <3>2. f[m].asset.task = t.id /\ f[m].asset.event = e.id
      BY <1>2, <2>2, <3>1
    <3>3. f[m] \in Range(pool)
      BY <1>1, <3>1 DEF Range
    <3> QED BY <3>2, <3>3
  <2>6. ASSUME NEW i \in C, NEW j \in C, f[i] = f[j] PROVE i = j
    <3>1. at(i) \in 1..n /\ jobs[at(i)] = job(i) /\ f[i] = pool[at(i)]
          /\ at(j) \in 1..n /\ jobs[at(j)] = job(j) /\ f[j] = pool[at(j)]
      BY <2>1, <2>4
    <3>2. f[i].id = <<t.id, provider, e.id, i>>
          /\ f[j].id = <<t.id, provider, e.id, j>>
      BY <1>1, <2>2, <3>1
    <3> QED BY <2>6, <3>2
  <2>7. ASSUME NEW a \in S PROVE \E m \in C : f[m] = a
    <3>1. PICK i \in 1..n : pool[i] = a
      BY <1>1 DEF Range
    <3>2. jobs[i].index \in C /\ jobs[i] = job(jobs[i].index)
      BY <1>4, <3>1
    <3> DEFINE m == jobs[i].index
    <3>3. m \in C /\ jobs[i] = job(m) /\ jobs[at(m)] = job(m) /\ at(m) \in 1..n
      BY <2>1, <3>2
    <3>4. pool[i].id = pool[at(m)].id
      BY <1>1, <3>3
    <3>5. Distinct(pool)
      BY PoolIds
    <3>6. at(m) = i
      BY <1>1, <3>3, <3>4, <3>5 DEF Distinct
    <3> QED BY <2>4, <3>1, <3>3, <3>6
  <2>8. f \in Bijection(C, S)
    <3> HIDE DEF C, S
    <3>1. f \in [C -> S]
      <4>1. f = [m \in C |-> f[m]]
        BY <2>4 DEF f
      <4> QED BY <2>5, <4>1
    <3>2. f \in Injection(C, S)
      BY <2>6, <3>1 DEF Injection, IsInjective
    <3>3. f \in Surjection(C, S)
      BY <2>7, <3>1 DEF Surjection
    <3> QED BY <3>2, <3>3 DEF Bijection
  <2>9. IsFiniteSet(C) /\ Cardinality(C) = t.count
    <3> DEFINE c == t.count
    <3>1. c \in Nat /\ 0 \in Int /\ c - 1 \in Int
      BY <1>3
    <3> HIDE DEF c
    <3>2. /\ IsFiniteSet(0..(c - 1))
          /\ Cardinality(0..(c - 1)) =
                IF 0 > c - 1 THEN 0 ELSE (c - 1) - 0 + 1
      BY <3>1, FS_Interval
    <3>3. Cardinality(0..(c - 1)) = c
      BY <3>1, <3>2
    <3> QED BY <3>2, <3>3 DEF c
  <2>10. ExistsBijection(C, S)
    <3> HIDE DEF C, S
    <3> QED BY <2>8 DEF ExistsBijection
  <2>11. Cardinality(S) = t.count
    <3> HIDE DEF C, S
    <3> QED BY <2>9, <2>10, FS_Bijection
  <2> QED BY <1>5, <2>11
<1>6. CASE e.type \notin t.validFor
  <2>1. S = {}
    BY <1>1, <1>4, <1>6 DEF Range
  <2> QED BY <1>6, <2>1, FS_EmptySet
<1> QED BY <1>5, <1>6
-----------------------------------------------------------------------------
(* What a pool that belongs to an event plan means for its entries.        *)
LEMMA PairingMeans ==
  ASSUME NEW plan, NEW pool, NEW scenario, NEW tasks, NEW forced, NEW stored,
         Pairing(plan, pool, scenario, tasks, forced, stored),
         forced \/ KeysApart
  PROVE  /\ Distinct(pool)
         /\ \A e \in Range(plan) :
               /\ Range(e.refs) =
                     {a.id : a \in {b \in Range(pool) : b.asset.event = e.id}}
               /\ NoRepeats(e.refs)
               /\ \A t \in Range(tasks) :
                     Cardinality({a \in Range(pool) :
                         a.asset.task = t.id /\ a.asset.event = e.id})
                       = IF e.type \in t.validFor THEN t.count ELSE 0
<1>1. PICK events, provider :
        /\ EventList(events)
        /\ PoolFor(pool, tasks, events, provider, scenario, forced, stored)
        /\ Len(pool) = Len(Jobs(tasks, events))
        /\ plan = Resolve(events, pool)
  BY DEF Pairing
<1>2. tasks \in TaskLists
  BY DEF Pairing
<1>3. Distinct(pool) /\ pool \in Seq(Range(pool))
  BY <1>1, <1>2, PoolIds DEF PoolFor
<1>4. /\ EventList(plan) /\ Len(plan) = Len(events)
      /\ \A i \in 1..Len(events) :
            /\ plan[i].id = events[i].id /\ plan[i].type = events[i].type
            /\ plan[i].refs = RefsFor(events[i].id, pool)
  BY <1>1, ResolveKeeps
<1>5. DOMAIN plan = 1..Len(events) /\ DOMAIN events = 1..Len(events)
  BY <1>1, <1>4, OwnList DEF EventList
<1>6. ASSUME NEW e \in Range(plan)
      PROVE  \E d \in Range(events) : /\ e.id = d.id /\ e.type = d.type
                                      /\ e.refs = RefsFor(d.id, pool)
  <2>1. PICK i \in 1..Len(events) : plan[i] = e
    BY <1>5 DEF Range
  <2>2. events[i] \in Range(events)
    BY <1>5 DEF Range
  <2> QED BY <1>4, <2>1, <2>2
<1>7. ASSUME NEW e \in Range(plan)
      PROVE  /\ Range(e.refs) =
                   {a.id : a \in {b \in Range(pool) : b.asset.event = e.id}}
             /\ NoRepeats(e.refs)
             /\ \A t \in Range(tasks) :
                   Cardinality({a \in Range(pool) :
                       a.asset.task = t.id /\ a.asset.event = e.id})
                     = IF e.type \in t.validFor THEN t.count ELSE 0
  <2>1. PICK d \in Range(events) : /\ e.id = d.id /\ e.type = d.type
                                   /\ e.refs = RefsFor(d.id, pool)
    BY <1>6
  <2>2. /\ Range(e.refs) =
              {a.id : a \in {b \in Range(pool) : b.asset.event = e.id}}
        /\ NoRepeats(e.refs)
    BY <1>3, <2>1, RefsAre
  <2>3. ASSUME NEW t \in Range(tasks)
        PROVE  Cardinality({a \in Range(pool) :
                     a.asset.task = t.id /\ a.asset.event = e.id})
                 = IF e.type \in t.validFor THEN t.count ELSE 0
    BY <1>1, <1>2, <2>1, PoolCounts
  <2> QED BY <2>2, <2>3
<1> QED BY <1>3, <1>7

(* DirInv says what RefsInPool promises.                                   *)
LEMMA DirRefs == DirInv => RefsInPool
<1> SUFFICES ASSUME DirInv, Trusted
             PROVE  /\ \A i, j \in DOMAIN Pool : Pool[i].id = Pool[j].id => i = j
                    /\ \A e \in Range(files["event_plan"]) :
                          /\ Range(e.refs) = {a.id : a \in
                                {b \in Range(Pool) : b.asset.event = e.id}}
                          /\ \A i, j \in DOMAIN e.refs :
                                e.refs[i] = e.refs[j] => i = j
                          /\ \A t \in Range(Tasks) :
                                Cardinality({a \in Range(Pool) :
                                  a.asset.task = t.id /\ a.asset.event = e.id})
                                  = IF e.type \in t.validFor THEN t.count ELSE 0
  BY DEF RefsInPool
<1>1. paired # None /\ (paired = TRUE \/ KeysApart)
  BY OptionsAssumption DEF Trusted
<1> DEFINE forced == paired = TRUE
<1>2. /\ Pairing(files["event_plan"], Pool, PoolScenario, Tasks, forced, cache)
      /\ forced \/ KeysApart
  BY <1>1 DEF DirInv, PairedInv
<1> HIDE DEF forced
<1> QED BY <1>2, PairingMeans DEF Distinct, NoRepeats

(* An entry of such a pool, one by one.                                    *)
LEMMA PairingFresh ==
  ASSUME NEW plan, NEW pool, NEW scenario, NEW tasks, NEW forced, NEW stored,
         Pairing(plan, pool, scenario, tasks, forced, stored),
         forced \/ KeysApart, NEW a \in Range(pool)
  PROVE  \E t \in Range(tasks) :
            /\ a.asset.task = t.id /\ a.asset.type = t.type
            /\ a.asset.event # None =>
                  \E e \in Range(plan) :
                      e.id = a.asset.event /\ e.type \in t.validFor
            /\ forced => a.asset.text = t.wording
            /\ forced /\ KeysApart =>
                  stored[Key(a.asset.provider, scenario, t.id, a.asset.event)]
                     \in {a.asset, Torn}
<1>1. PICK events, provider :
        /\ EventList(events)
        /\ PoolFor(pool, tasks, events, provider, scenario, forced, stored)
        /\ Len(pool) = Len(Jobs(tasks, events))
        /\ plan = Resolve(events, pool)
  BY DEF Pairing
<1>2. tasks \in TaskLists
  BY DEF Pairing
<1> DEFINE jobs == Jobs(tasks, events)
<1>3. /\ DOMAIN pool = 1..Len(pool)
      /\ \A i \in 1..Len(pool) :
            /\ IsJob(jobs[i], tasks, events)
            /\ \E text : pool[i].asset = Made(jobs[i], provider, text)
            /\ forced => pool[i].asset.text = jobs[i].task.wording
            /\ forced /\ KeysApart => Fresh(pool[i], jobs[i], scenario, stored)
  <2>1. /\ DOMAIN pool = 1..Len(pool)
        /\ \A i \in 1..Len(pool) :
              /\ IsJob(jobs[i], tasks, events)
              /\ \E text : pool[i].asset = Made(jobs[i], provider, text)
    BY <1>1, <1>2, PoolEntries
  <2>2. \A i \in DOMAIN pool :
           /\ forced => pool[i].asset.text = jobs[i].task.wording
           /\ forced /\ KeysApart => Fresh(pool[i], jobs[i], scenario, stored)
    BY <1>1 DEF PoolFor, Entry
  <2> HIDE DEF jobs
  <2> QED BY <2>1, <2>2
<1> HIDE DEF jobs
<1>4. PICK i \in 1..Len(pool) : pool[i] = a
  BY <1>3 DEF Range
<1>5. PICK text : a.asset = Made(jobs[i], provider, text)
  BY <1>3, <1>4
<1> DEFINE t == jobs[i].task
<1>6. IsJob(jobs[i], tasks, events)
  BY <1>3
<1>7. t \in Range(tasks)
  BY <1>6 DEF IsJob
<1>8. /\ a.asset.task = t.id /\ a.asset.type = t.type
      /\ a.asset.event = jobs[i].event
  BY <1>5 DEF Made
<1>9. ASSUME a.asset.event # None
      PROVE  \E e \in Range(plan) :
                e.id = a.asset.event /\ e.type \in t.validFor
  <2>1. PICK e \in Range(events) : /\ jobs[i].event = e.id
                                   /\ e.type \in t.validFor
    BY <1>6, <1>8, <1>9 DEF IsJob
  <2>2. PICK k \in 1..Len(events) : events[k] = e
    BY <1>1, OwnList DEF EventList, Range
  <2>3. plan[k].id = e.id /\ plan[k].type = e.type
    BY <1>1, <2>2, ResolveKeeps
  <2>4. DOMAIN plan = DOMAIN events /\ DOMAIN events = 1..Len(events)
    BY <1>1, OwnList DEF Resolve, EventList
  <2>5. plan[k] \in Range(plan)
    BY <2>4 DEF Range
  <2> QED BY <1>8, <2>1, <2>3, <2>5
<1>10. forced => a.asset.text = t.wording
  BY <1>3, <1>4
<1>11. ASSUME forced, KeysApart
       PROVE  stored[Key(a.asset.provider, scenario, t.id, a.asset.event)]
                 \in {a.asset, Torn}
  <2>1. Fresh(a, jobs[i], scenario, stored)
    BY <1>3, <1>4, <1>11
  <2> QED BY <2>1 DEF Fresh
<1> HIDE DEF t
<1> QED BY <1>7, <1>8, <1>9, <1>10, <1>11

LEMMA DirFresh == DirInv => ForcedIsFresh
<1> SUFFICES ASSUME DirInv PROVE ForcedIsFresh
  OBVIOUS
<1>1. torn # TRUE
  <2>1. TRUE # None
    BY OptionsAssumption
  <2>2. torn \in {None, FALSE}
    BY DEF DirInv, CommandInv
  <2> QED BY <2>1, <2>2
<1>2. ASSUME Trusted, NEW a \in Range(Pool)
      PROVE  \E t \in Range(Tasks) :
              /\ a.asset.task = t.id /\ a.asset.type = t.type
              /\ a.asset.event # None =>
                    \E e \in Range(files["event_plan"]) :
                        e.id = a.asset.event /\ e.type \in t.validFor
              /\ paired = TRUE =>
                    /\ a.asset.text = t.wording
                    /\ KeysApart =>
                          cache[Key(a.asset.provider,
                                    files["semantic_pool"].scenario,
                                    t.id, a.asset.event)]
                             \in {a.asset, Torn}
  <2>1. paired # None /\ (paired = TRUE \/ KeysApart)
    BY <1>2, OptionsAssumption DEF Trusted
  <2> DEFINE forced == paired = TRUE
  <2>2. /\ Pairing(files["event_plan"], Pool, PoolScenario, Tasks, forced, cache)
        /\ forced \/ KeysApart
    BY <2>1 DEF DirInv, PairedInv
  <2> HIDE DEF forced
  <2>3. PICK t \in Range(Tasks) :
          /\ a.asset.task = t.id /\ a.asset.type = t.type
          /\ a.asset.event # None =>
                \E e \in Range(files["event_plan"]) :
                    e.id = a.asset.event /\ e.type \in t.validFor
          /\ forced => a.asset.text = t.wording
          /\ forced /\ KeysApart =>
                cache[Key(a.asset.provider, PoolScenario, t.id, a.asset.event)]
                   \in {a.asset, Torn}
    BY <1>2, <2>2, PairingFresh
  <2> QED BY <2>3 DEF forced, PoolScenario
<1> QED BY <1>1, <1>2 DEF ForcedIsFresh
-----------------------------------------------------------------------------
(* The next job that a generate has to do.                                 *)
LEMMA NextJob ==
  ASSUME NEW tasks \in TaskLists, NEW events, EventList(events),
         NEW pool, pool \in Seq(Range(pool)),
         NEW left, Remains(left, pool, Jobs(tasks, events)), left # <<>>
  PROVE  LET jobs == Jobs(tasks, events) IN
         /\ Len(pool) \in Nat /\ Len(left) \in Nat /\ Len(left) > 0
         /\ Len(pool) + 1 \in 1..Len(jobs)
         /\ Head(left) = jobs[Len(pool) + 1]
         /\ Head(left) \in Range(jobs)
         /\ IsJob(Head(left), tasks, events)
<1> DEFINE jobs == Jobs(tasks, events)
<1>1. /\ jobs \in Seq(Range(jobs)) /\ Len(jobs) \in Nat
      /\ \A i \in 1..Len(jobs) : jobs[i] \in Range(jobs)
  BY JobsKeep, OwnList
<1>2. \A job \in Range(jobs) : IsJob(job, tasks, events)
  BY JobsAre
<1>3. /\ left \in Seq(Range(left)) /\ Len(pool) + Len(left) = Len(jobs)
      /\ \A i \in 1..Len(left) : left[i] = jobs[Len(pool) + i]
  BY DEF Remains
<1> HIDE DEF jobs
<1>4. Len(pool) \in Nat /\ Len(left) \in Nat
  BY <1>3, OwnList
<1>5. Len(left) > 0 /\ Head(left) = left[1]
  BY <1>3, <1>4, EmptySeq
<1>6. Len(pool) + 1 \in 1..Len(jobs)
  BY <1>1, <1>3, <1>4, <1>5
<1>7. Head(left) = jobs[Len(pool) + 1]
  BY <1>3, <1>4, <1>5
<1>8. Head(left) \in Range(jobs)
  BY <1>1, <1>6, <1>7
<1> QED BY <1>2, <1>4, <1>5, <1>6, <1>7, <1>8 DEF jobs

(* It gets an entry, and the pool is one for one more of the jobs.         *)
LEMMA PoolGrows ==
  ASSUME NEW tasks \in TaskLists, NEW events, EventList(events),
         NEW pool, NEW provider, NEW scenario, NEW forced \in BOOLEAN,
         NEW stored,
         PoolFor(pool, tasks, events, provider, scenario, forced, stored),
         NEW left, Remains(left, pool, Jobs(tasks, events)), left # <<>>,
         NEW entry, Entry(entry, Head(left), provider, scenario, forced, stored)
  PROVE  /\ PoolFor(Append(pool, entry), tasks, events, provider, scenario,
                    forced, stored)
         /\ Remains(Tail(left), Append(pool, entry), Jobs(tasks, events))
<1> DEFINE jobs == Jobs(tasks, events)
           n == Len(pool)
           more == Append(pool, entry)
           rest == Tail(left)
<1>1. /\ n \in Nat /\ Len(left) \in Nat /\ Len(left) > 0
      /\ n + 1 \in 1..Len(jobs) /\ Head(left) = jobs[n + 1]
  BY NextJob DEF PoolFor
<1>2. Len(jobs) \in Nat
  BY JobsKeep, OwnList
<1>3. /\ pool \in Seq(Range(pool))
      /\ \A i \in DOMAIN pool :
            Entry(pool[i], jobs[i], provider, scenario, forced, stored)
  BY DEF PoolFor
<1>4. /\ left \in Seq(Range(left)) /\ n + Len(left) = Len(jobs)
      /\ \A i \in 1..Len(left) : left[i] = jobs[n + i]
  BY DEF Remains
<1> HIDE DEF jobs
<1>5. /\ more \in Seq(Range(pool) \cup {entry}) /\ Len(more) = n + 1
      /\ \A i \in 1..n : more[i] = pool[i]
      /\ more[n + 1] = entry
  BY <1>3, AppendList
<1>6. DOMAIN pool = 1..n
  BY <1>3, OwnList
<1>7. more \in Seq(Range(more)) /\ DOMAIN more = 1..(n + 1)
  <2> HIDE DEF more
  <2> QED BY <1>5, OwnList
<1>8. /\ rest \in Seq(Range(left)) /\ Len(rest) = Len(left) - 1
      /\ \A i \in 1..Len(rest) : rest[i] = left[i + 1]
  BY <1>1, <1>4, HeadTailProperties, EmptySeq
<1> HIDE DEF more, rest, n
<1>9. rest \in Seq(Range(rest))
  BY <1>8, OwnList
<1>10. ASSUME NEW i \in 1..(n + 1)
       PROVE  Entry(more[i], jobs[i], provider, scenario, forced, stored)
  <2>1. CASE i \in 1..n
    BY <1>3, <1>5, <1>6, <2>1
  <2>2. CASE i = n + 1
    BY <1>1, <1>5, <2>2
  <2> QED BY <1>1, <2>1, <2>2
<1>11. \A i \in 1..Len(rest) : rest[i] = jobs[(n + 1) + i]
  <2> SUFFICES ASSUME NEW i \in 1..Len(rest)
               PROVE  rest[i] = jobs[(n + 1) + i]
    OBVIOUS
  <2>1. i + 1 \in 1..Len(left) /\ i \in Int
    BY <1>1, <1>8
  <2>2. n + (i + 1) = (n + 1) + i
    BY <1>1, <2>1
  <2> QED BY <1>4, <1>8, <2>1, <2>2
<1>12. (n + 1) + Len(rest) = Len(jobs) /\ n + 1 <= Len(jobs)
  <2> DEFINE m == Len(jobs)
             l == Len(left)
             r == Len(rest)
  <2>1. /\ n \in Nat /\ l \in Nat /\ m \in Nat /\ n + 1 \in 1..m
        /\ n + l = m /\ r = l - 1
    BY <1>1, <1>2, <1>4, <1>8
  <2> HIDE DEF m, l, r
  <2>2. (n + 1) + r = m /\ n + 1 <= m
    BY <2>1
  <2> QED BY <2>2 DEF m, r
<1>13. PoolFor(more, tasks, events, provider, scenario, forced, stored)
  <2>1. Len(more) <= Len(jobs)
    BY <1>5, <1>12
  <2> QED BY <1>7, <1>10, <2>1 DEF PoolFor, jobs
<1>14. Remains(rest, more, jobs)
  BY <1>5, <1>9, <1>11, <1>12 DEF Remains
<1> QED BY <1>13, <1>14 DEF more, rest, jobs

(* What the key of a job is joined from.                                   *)
LEMMA JobParts ==
  ASSUME NEW tasks \in TaskLists, NEW events, EventList(events),
         NEW job, IsJob(job, tasks, events)
  PROVE  job.task.id \in TaskIds /\ job.event \in EventIds \cup {None}
<1>1. job.task.id \in TaskIds
  <2>1. PICK plan \in Plans : tasks = plan.tasks
    BY DEF TaskLists
  <2>2. job.task \in Range(plan.tasks)
    BY <2>1 DEF IsJob
  <2> QED BY <2>2 DEF TaskIds
<1>2. \A e \in Range(events) : e.id \in EventIds
  BY DEF EventList, IsEvent
<1> QED BY <1>1, <1>2 DEF IsJob

(* A command that caches what a task asks for now, or is killed while it   *)
(* does so, makes no pool of the same tasks stale.                         *)
LEMMA CacheKeepsFresh ==
  ASSUME NEW tasks \in TaskLists, NEW events, EventList(events),
         NEW pool, NEW provider, NEW scenario \in Scenarios,
         NEW forced \in BOOLEAN, NEW stored,
         PoolFor(pool, tasks, events, provider, scenario, forced, stored),
         NEW others, EventList(others), NEW s \in Scenarios,
         NEW job, IsJob(job, tasks, others), NEW p,
         NEW asset \in {Torn, Made(job, p, job.task.wording)}
  PROVE  PoolFor(pool, tasks, events, provider, scenario, forced,
                 With(stored, Key(p, s, job.task.id, job.event), asset))
<1> DEFINE jobs == Jobs(tasks, events)
           k == Key(p, s, job.task.id, job.event)
           after == With(stored, k, asset)
<1>1. ASSUME forced
      PROVE  /\ DOMAIN pool = 1..Len(pool)
             /\ \A i \in 1..Len(pool) :
                   /\ IsJob(jobs[i], tasks, events)
                   /\ \E text : pool[i].asset = Made(jobs[i], provider, text)
  <2>1. forced \/ KeysApart
    BY <1>1
  <2> QED BY <2>1, PoolEntries
<1>2. /\ pool \in Seq(Range(pool)) /\ Len(pool) <= Len(jobs)
      /\ \A i \in DOMAIN pool :
            Entry(pool[i], jobs[i], provider, scenario, forced, stored)
  BY DEF PoolFor
<1> HIDE DEF jobs
<1>3. /\ DOMAIN after = (DOMAIN stored) \cup {k}
      /\ \A x \in DOMAIN after : after[x] = IF x = k THEN asset ELSE stored[x]
  BY DEF With
<1> HIDE DEF after
<1>4. ASSUME NEW i \in DOMAIN pool, forced, KeysApart
      PROVE  Fresh(pool[i], jobs[i], scenario, after)
  <2> DEFINE j == jobs[i]
             a == pool[i].asset
             key == Key(a.provider, scenario, j.task.id, a.event)
  <2>1. PICK text : a = Made(j, provider, text)
    BY <1>1, <1>4
  <2>2. IsJob(j, tasks, events)
    BY <1>1, <1>4
  <2>3. a.text = j.task.wording /\ key \in DOMAIN stored
        /\ stored[key] \in {a, Torn}
    BY <1>2, <1>4 DEF Entry, Fresh
  <2> HIDE DEF j
  <2>4. ASSUME key = k PROVE a = Made(job, p, job.task.wording)
    <3>1. /\ a.provider = provider /\ a.event = j.event
          /\ text = j.task.wording
      BY <2>1, <2>3 DEF Made
    <3> HIDE DEF a
    <3>2. /\ provider = p
          /\ Joined(scenario, j.task.id, j.event)
               = Joined(s, job.task.id, job.event)
      BY <2>4, <3>1 DEF Key
    <3>3. /\ j.task.id \in TaskIds /\ job.task.id \in TaskIds
          /\ j.event \in EventIds \cup {None}
          /\ job.event \in EventIds \cup {None}
      BY <2>2, JobParts
    <3>4. j.task.id = job.task.id /\ j.event = job.event
      BY <1>4, <3>2, <3>3 DEF KeysApart
    <3>5. j.task = job.task
      BY <2>2, <3>4, TasksAre DEF IsJob, Distinct, Range
    <3> QED BY <2>1, <3>1, <3>2, <3>4, <3>5 DEF Made
  <2> HIDE DEF a
  <2>5. key \in DOMAIN after /\ after[key] \in {a, Torn}
    <3> HIDE DEF key, k
    <3> QED BY <1>3, <2>3, <2>4
  <2> QED BY <2>5 DEF Fresh, a, j
<1>5. PoolFor(pool, tasks, events, provider, scenario, forced, after)
  <2>1. \A i \in DOMAIN pool :
           Entry(pool[i], jobs[i], provider, scenario, forced, after)
    BY <1>2, <1>4 DEF Entry
  <2> QED BY <1>2, <2>1 DEF PoolFor, jobs
<1> QED BY <1>5 DEF after, k
-----------------------------------------------------------------------------
(* A list that is given by its events.                                     *)
LEMMA EventsList ==
  ASSUME NEW n \in Nat, NEW f, f = [i \in 1..n |-> f[i]],
         \A i \in 1..n : IsEvent(f[i]),
         \A i, j \in 1..n : f[i].id = f[j].id => i = j
  PROVE  EventList(f) /\ Len(f) = n /\ DOMAIN f = 1..n
<1>1. DOMAIN f = 1..n
  OBVIOUS
<1>2. \A i \in 1..n : f[i] \in Range(f)
  BY <1>1 DEF Range
<1>3. f \in Seq(Range(f)) /\ Len(f) = n
  BY <1>2, FunctionList
<1>4. \A e \in Range(f) : IsEvent(e)
  BY <1>1 DEF Range
<1> QED BY <1>1, <1>3, <1>4 DEF EventList, Distinct

LEMMA EventsOf ==
  ASSUME NEW list, EventList(list)
  PROVE  /\ Len(list) \in Nat /\ DOMAIN list = 1..Len(list)
         /\ \A i \in 1..Len(list) : IsEvent(list[i])
         /\ \A i, j \in 1..Len(list) : list[i].id = list[j].id => i = j
<1>1. /\ Len(list) \in Nat /\ DOMAIN list = 1..Len(list)
      /\ \A i \in 1..Len(list) : list[i] \in Range(list)
  BY OwnList DEF EventList
<1> QED BY <1>1 DEF EventList, Distinct

(* What compile and a killed command leave of an event plan.               *)
LEMMA AttachedList ==
  ASSUME NEW plan \in Plans
  PROVE  EventList(Attached(plan))
<1> DEFINE f == Attached(plan)
           n == Len(plan.events)
<1>1. /\ plan.events \in Seq(Range(plan.events))
      /\ \A i, j \in DOMAIN plan.events :
            plan.events[i].id = plan.events[j].id => i = j
      /\ \A e \in Range(plan.events) :
            e.id \in Int /\ e.id # None /\ e.time \in Int /\ e.id \in EventIds
  BY PlansAssumption DEF EventIds
<1>2. /\ n \in Nat /\ DOMAIN plan.events = 1..n
      /\ \A i \in 1..n : plan.events[i] \in Range(plan.events)
  BY <1>1, OwnList
<1>3. /\ f = [i \in 1..n |-> f[i]]
      /\ \A i \in 1..n : \E refs :
            f[i] = [id |-> plan.events[i].id, type |-> plan.events[i].type,
                    time |-> plan.events[i].time,
                    attributes |-> plan.events[i].attributes, refs |-> refs]
  BY <1>2 DEF Attached
<1> HIDE DEF f, n
<1>4. ASSUME NEW i \in 1..n
      PROVE  IsEvent(f[i]) /\ f[i].id = plan.events[i].id
  BY <1>1, <1>2, <1>3 DEF IsEvent
<1>5. EventList(f)
  BY <1>1, <1>2, <1>3, <1>4, EventsList
<1> QED BY <1>5 DEF f

LEMMA FirstEvents ==
  ASSUME NEW list, EventList(list), NEW n \in 0..Len(list)
  PROVE  EventList(SubSeq(list, 1, n))
<1> DEFINE f == SubSeq(list, 1, n)
<1>1. /\ Len(list) \in Nat /\ list \in Seq(Range(list))
      /\ \A i \in 1..Len(list) : list[i] \in Range(list)
      /\ \A i \in 1..Len(list) : IsEvent(list[i])
      /\ \A i, j \in 1..Len(list) : list[i].id = list[j].id => i = j
  BY EventsOf, OwnList DEF EventList
<1>2. /\ f \in Seq(Range(list)) /\ Len(f) = n
      /\ \A i \in 1..n : f[i] = list[i]
  <2>1. 1 \in Int /\ n \in Int /\ \A i \in 1..n : list[i] \in Range(list)
    BY <1>1
  <2>2. /\ f \in Seq(Range(list)) /\ Len(f) = IF 1 <= n THEN n - 1 + 1 ELSE 0
        /\ \A i \in 1..(n - 1 + 1) : f[i] = list[1 + i - 1]
    BY <2>1, SubSeqProperties
  <2> HIDE DEF f
  <2>3. n \in Nat /\ n - 1 + 1 = n
    BY <1>1
  <2>4. \A i \in 1..n : f[i] = list[i]
    <3> SUFFICES ASSUME NEW i \in 1..n PROVE f[i] = list[i]
      OBVIOUS
    <3>1. 1 + i - 1 = i /\ i \in 1..(n - 1 + 1)
      BY <2>3
    <3> QED BY <2>2, <3>1
  <2> QED BY <2>2, <2>3, <2>4
<1> HIDE DEF f
<1>3. f = [i \in 1..n |-> f[i]]
  BY <1>2, LenProperties
<1>4. \A i \in 1..n : IsEvent(f[i])
  BY <1>1, <1>2
<1>5. \A i, j \in 1..n : f[i].id = f[j].id => i = j
  BY <1>1, <1>2
<1>6. EventList(f)
  BY <1>1, <1>3, <1>4, <1>5, EventsList
<1> QED BY <1>6 DEF f

LEMMA CutList ==
  ASSUME NEW list, EventList(list), NEW left \in Cut(list)
  PROVE  left \notin {None, Torn} => EventList(left)
<1>1. Len(list) \in Nat
  BY EventsOf
<1>2. left = Torn \/ \E n \in 0..(Len(list) - 1) : left = SubSeq(list, 1, n)
  BY DEF Cut
<1>3. ASSUME NEW n \in 0..(Len(list) - 1) PROVE EventList(SubSeq(list, 1, n))
  <2>1. n \in 0..Len(list)
    BY <1>1
  <2> QED BY <2>1, FirstEvents
<1> QED BY <1>2, <1>3

(* What the run takes of it: sorted, and cut at the limit.                 *)
LEMMA SortedList ==
  ASSUME NEW events, EventList(events)
  PROVE  EventList(SortEvents(events))
<1> DEFINE n == Len(events)
           D == DOMAIN events
           R == {p \in D \X D : Before(events[p[1]], events[p[2]])}
           order == Ranked(D, R)
           f == [k \in D |-> events[order[k]]]
<1>1. /\ n \in Nat /\ D = 1..n
      /\ \A i \in 1..n : IsEvent(events[i])
      /\ \A i, j \in 1..n : events[i].id = events[j].id => i = j
  BY EventsOf
<1>2. SortEvents(events) = f
  BY DEF SortEvents
<1>3. \A i, j \in D : <<i, j>> \in R <=> Before(events[i], events[j])
  OBVIOUS
<1> HIDE DEF R, D
<1>4. StrictOrder(R, D)
  <2>1. \A i \in D : events[i].time \in Int /\ events[i].id \in Int
    BY <1>1 DEF IsEvent
  <2>2. \A i \in D : <<i, i>> \notin R
    BY <1>3, <2>1 DEF Before
  <2>3. \A i, j, k \in D : <<i, j>> \in R /\ <<j, k>> \in R => <<i, k>> \in R
    BY <1>3, <2>1 DEF Before
  <2>4. \A i, j \in D : i # j => <<i, j>> \in R \/ <<j, i>> \in R
    <3> SUFFICES ASSUME NEW i \in D, NEW j \in D, i # j
                 PROVE  <<i, j>> \in R \/ <<j, i>> \in R
      OBVIOUS
    <3>1. events[i].id # events[j].id
      BY <1>1
    <3> QED BY <1>3, <2>1, <3>1 DEF Before
  <2> QED BY <2>2, <2>3, <2>4 DEF StrictOrder
<1>5. IsFiniteSet(D) /\ Cardinality(D) = n
  BY <1>1, FS_Interval
<1>6. /\ order \in Seq(D) /\ Len(order) = n
      /\ \A i, j \in 1..n : i < j => <<order[i], order[j]>> \in R
  BY <1>4, <1>5, RankedSorts
<1>7. f = [k \in 1..n |-> f[k]] /\ \A k \in 1..n : f[k] = events[order[k]]
  BY <1>1
<1>8. \A k \in 1..n : order[k] \in 1..n
  BY <1>1, <1>6, ElementOfSeq
<1> HIDE DEF order, f, n
<1>9. ASSUME NEW i \in 1..n, NEW j \in 1..n, f[i].id = f[j].id PROVE i = j
  <2>1. order[i] = order[j]
    BY <1>1, <1>7, <1>8, <1>9
  <2>2. ~(i < j) /\ ~(j < i)
    BY <1>1, <1>4, <1>6, <1>8, <2>1 DEF StrictOrder
  <2> QED BY <1>1, <2>2
<1>10. \A i \in 1..n : IsEvent(f[i])
  BY <1>1, <1>7, <1>8
<1> QED BY <1>1, <1>2, <1>7, <1>9, <1>10, EventsList

LEMMA LimitedList ==
  ASSUME NEW events, EventList(events), NEW limit \in Nat \cup {None}
  PROVE  EventList(Limited(events, limit))
<1>1. CASE limit = None
  BY <1>1 DEF Limited
<1>2. CASE limit # None
  <2> DEFINE l == Len(events)
             m == CHOOSE x \in {limit, l} : \A y \in {limit, l} : x <= y
  <2>1. l \in Nat /\ limit \in Nat
    BY <1>2, EventsOf
  <2>2. Limited(events, limit) = SubSeq(events, 1, m)
    BY <1>2 DEF Limited, Min
  <2> HIDE DEF l
  <2>3. \E x \in {limit, l} : \A y \in {limit, l} : x <= y
    BY <2>1
  <2>4. m \in {limit, l} /\ \A y \in {limit, l} : m <= y
    BY <2>3
  <2> HIDE DEF m
  <2>5. m \in 0..l
    BY <2>1, <2>4
  <2> QED BY <2>2, <2>5, FirstEvents DEF l
<1> QED BY <1>1, <1>2
-----------------------------------------------------------------------------
(* The files of a directory have names of their own.                       *)
LEMMA FileNamesAre ==
  /\ Len(PlanFiles) = 8
  /\ \A i \in 1..8 : PlanFiles[i] \in FileNames
  /\ {"scenario", "semantic_tasks", "event_plan", "semantic_pool"}
        \subseteq FileNames
<1>1. Len(PlanFiles) = 8 /\ DOMAIN PlanFiles = 1..8
  BY DEF PlanFiles
<1>2. \A i \in 1..8 : PlanFiles[i] \in FileNames
  BY <1>1 DEF FileNames, Range
<1>3. /\ PlanFiles[1] = "scenario" /\ PlanFiles[7] = "semantic_tasks"
      /\ PlanFiles[8] = "event_plan"
  BY DEF PlanFiles
<1>4. "semantic_pool" \in FileNames
  BY DEF FileNames
<1> QED BY <1>1, <1>2, <1>3, <1>4

(* Writing one file changes no other.                                      *)
LEMMA FilesWritten ==
  ASSUME FilesInv, NEW file \in FileNames, NEW x,
         files' = [files EXCEPT ![file] = x],
         file = "scenario" => x \in {None, Torn} \cup Scenarios,
         file = "semantic_tasks" => x \in {None, Torn} \cup TaskLists,
         file = "event_plan" /\ x \notin {None, Torn} => EventList(x)
  PROVE  /\ FilesInv' /\ files'[file] = x
         /\ \A f \in FileNames : f # file => files'[f] = files[f]
<1>1. files = [f \in FileNames |-> files[f]]
  BY DEF FilesInv
<1>2. /\ files'[file] = x
      /\ \A f \in FileNames : f # file => files'[f] = files[f]
  BY <1>1
<1>3. files' = [f \in FileNames |-> files'[f]]
  BY <1>1
<1>4. /\ "scenario" \in FileNames
      /\ "semantic_tasks" \in FileNames /\ "event_plan" \in FileNames
  BY FileNamesAre
<1>5. /\ files'["scenario"] \in {None, Torn} \cup Scenarios
      /\ files'["semantic_tasks"] \in {None, Torn} \cup TaskLists
  BY <1>2, <1>4 DEF FilesInv
<1>6. files'["event_plan"] \notin {None, Torn}
         => EventList(files'["event_plan"])
  BY <1>2, <1>4 DEF FilesInv
<1> QED BY <1>2, <1>3, <1>5, <1>6 DEF FilesInv

(* A command that leaves the directory as it is, and one that ends.        *)
LEMMA DirStays ==
  ASSUME DirInv, UNCHANGED dirVars
  PROVE  DirInv'
BY DEF DirInv, dirVars, CommandInv, FilesInv, GenerateInv, PairedInv, Tasks,
       Pool, PoolScenario

LEMMA CommandEnds ==
  ASSUME command' = Idle, torn' \in {None, FALSE}, FilesInv', IsCache(cache'),
         PairedInv'
  PROVE  DirInv'
<1>1. command'.name = "idle"
  BY DEF Idle
<1>2. CommandInv'
  BY <1>1 DEF CommandInv
<1>3. GenerateInv'
  BY <1>1 DEF GenerateInv
<1> QED BY <1>2, <1>3 DEF DirInv

(* The commands that write nothing yet, or nothing any more.               *)
LEMMA KilledKeeps ==
  ASSUME DirInv, command' = Idle, torn' \in {None, FALSE},
         UNCHANGED <<files, cache, paired>>
  PROVE  DirInv'
<1>1. FilesInv' /\ IsCache(cache') /\ PairedInv'
  BY DEF DirInv, FilesInv, PairedInv, Tasks, Pool, PoolScenario
<1> QED BY <1>1, CommandEnds

LEMMA BeginCompileKeeps ==
  ASSUME DirInv, NEW plan \in Plans, NEW force, BeginCompile(plan, force)
  PROVE  DirInv'
<1>1. FilesInv' /\ IsCache(cache') /\ PairedInv'
  BY DEF DirInv, FilesInv, PairedInv, Tasks, Pool, PoolScenario, BeginCompile
<1>2. /\ command' = [name |-> "compile", plan |-> plan, next |-> 1]
      /\ torn' = None
  BY DEF BeginCompile, Begin, Compiling
<1>3. command'.name = "compile" /\ IsCompiling(command')
  BY <1>2, FileNamesAre DEF IsCompiling
<1> QED BY <1>1, <1>2, <1>3 DEF DirInv, CommandInv, GenerateInv

(* compile writes its next file.                                           *)
LEMMA WriteFileKeeps ==
  ASSUME DirInv, WriteFile
  PROVE  DirInv'
<1> DEFINE c == command
           file == PlanFiles[c.next]
<1>1. /\ c = [name |-> "compile", plan |-> c.plan, next |-> c.next]
      /\ c.plan \in Plans /\ c.next \in 1..8 /\ file \in FileNames
  BY FileNamesAre DEF DirInv, CommandInv, WriteFile, IsCompiling
<1>2. FilesInv /\ IsCache(cache) /\ PairedInv /\ torn \in {None, FALSE}
  BY DEF DirInv, CommandInv
<1>3. /\ FilesInv'
      /\ \A f \in FileNames : f # file => files'[f] = files[f]
  <2>1. CASE file = "ground_truth" /\ ~c.plan.truth
    <3>1. files' = files
      BY <2>1 DEF WriteFile, Writing
    <3> QED BY <1>2, <3>1 DEF FilesInv
  <2>2. CASE ~(file = "ground_truth" /\ ~c.plan.truth)
    <3> DEFINE x == Content(c.plan, file)
    <3>1. files' = [files EXCEPT ![file] = x]
      BY <2>2 DEF WriteFile, Writing
    <3>2. /\ file = "scenario" => x \in {None, Torn} \cup Scenarios
          /\ file = "semantic_tasks" => x \in {None, Torn} \cup TaskLists
      BY <1>1 DEF Content, TaskLists, Scenarios
    <3>3. file = "event_plan" => EventList(x)
      BY <1>1, AttachedList DEF Content
    <3> HIDE DEF file, x
    <3> QED BY <1>1, <1>2, <3>1, <3>2, <3>3, FilesWritten
  <2> QED BY <2>1, <2>2
<1>4. IsCache(cache') /\ torn' \in {None, FALSE}
  BY <1>2 DEF WriteFile
<1>5. PairedInv'
  <2>1. CASE file \in {"semantic_tasks", "event_plan"}
    BY <2>1 DEF WriteFile, Writing, PairedInv
  <2>2. CASE file \notin {"semantic_tasks", "event_plan"}
    <3>1. paired' = paired /\ cache' = cache
      BY <2>2 DEF WriteFile, Writing
    <3>2. file # "semantic_pool"
      <4>1. \A i \in 1..8 : PlanFiles[i] # "semantic_pool"
        BY DEF PlanFiles
      <4> QED BY <1>1, <4>1
    <3>3. /\ files'["event_plan"] = files["event_plan"]
          /\ Tasks' = Tasks /\ Pool' = Pool /\ PoolScenario' = PoolScenario
      <4> HIDE DEF file
      <4> QED BY <1>3, <2>2, <3>2, FileNamesAre DEF Tasks, Pool, PoolScenario
    <3> QED BY <1>2, <3>1, <3>3 DEF PairedInv
  <2> QED BY <2>1, <2>2
<1>6. CASE command' = Idle
  BY <1>3, <1>4, <1>5, <1>6, CommandEnds
<1>7. CASE c.next < Len(PlanFiles) /\ command' = [c EXCEPT !.next = @ + 1]
  <2>1. c.next + 1 \in 1..8
    BY <1>1, <1>7, FileNamesAre
  <2>2. command' = [name |-> "compile", plan |-> c.plan, next |-> c.next + 1]
    BY <1>1, <1>7
  <2>3. command'.name = "compile" /\ IsCompiling(command')
    BY <1>1, <2>1, <2>2, FileNamesAre DEF IsCompiling
  <2> QED BY <1>3, <1>4, <1>5, <2>3 DEF DirInv, CommandInv, GenerateInv
<1>8. \/ command' = Idle
      \/ c.next < Len(PlanFiles) /\ command' = [c EXCEPT !.next = @ + 1]
  BY DEF WriteFile, End
<1> QED BY <1>6, <1>7, <1>8

(* A command is killed while it writes a file of its own.                  *)
LEMMA KilledWithKeeps ==
  ASSUME DirInv, NEW file \in FileNames, NEW left, KilledWith(file, left),
         left = Torn \/ file \notin {"scenario", "semantic_tasks"},
         file = "event_plan" /\ left \notin {None, Torn} => EventList(left)
  PROVE  DirInv'
<1>1. /\ files' = [files EXCEPT ![file] = left]
      /\ paired' = None /\ command' = Idle
      /\ cache' = cache /\ torn' = torn
  BY DEF KilledWith, End
<1>2. FilesInv'
  BY <1>1, FilesWritten DEF DirInv
<1>3. IsCache(cache') /\ torn' \in {None, FALSE} /\ PairedInv'
  BY <1>1 DEF DirInv, CommandInv, PairedInv
<1> QED BY <1>1, <1>2, <1>3, CommandEnds

LEMMA KilledCompilingKeeps ==
  ASSUME DirInv, KilledCompiling
  PROVE  DirInv'
<1> DEFINE file == PlanFiles[command.next]
<1>1. command.plan \in Plans /\ command.next \in 1..8 /\ file \in FileNames
  BY FileNamesAre DEF DirInv, CommandInv, KilledCompiling, IsCompiling
<1>2. CASE file = "event_plan"
  <2>1. PICK left \in Cut(Attached(command.plan)) : KilledWith(file, left)
    BY <1>2 DEF KilledCompiling, Writing
  <2>2. left \notin {None, Torn} => EventList(left)
    BY <1>1, AttachedList, CutList
  <2> QED BY <1>1, <1>2, <2>1, <2>2, KilledWithKeeps
<1>3. CASE file # "event_plan"
  <2>1. KilledWith(file, Torn)
    BY <1>3 DEF KilledCompiling, Writing
  <2> QED BY <1>1, <1>3, <2>1, KilledWithKeeps
<1> QED BY <1>2, <1>3
-----------------------------------------------------------------------------
(* What is known of a generate.                                            *)
LEMMA Generates ==
  ASSUME DirInv, command.name = "generate"
  PROVE  /\ IsGenerating(command, Tasks, cache)
         /\ command = [name |-> "generate", provider |-> command.provider,
               scenario |-> command.scenario, force |-> command.force,
               events |-> command.events,
               jobs |-> command.jobs, pool |-> command.pool,
               attempt |-> command.attempt, resolving |-> command.resolving]
         /\ command.force \in BOOLEAN /\ command.resolving \in BOOLEAN
         /\ Tasks \in TaskLists /\ EventList(command.events)
         /\ command.scenario \in Scenarios
         /\ PoolFor(command.pool, Tasks, command.events, command.provider,
                    command.scenario, command.force, cache)
         /\ Remains(command.jobs, command.pool, Jobs(Tasks, command.events))
         /\ command.jobs # <<>> =>
               IsJob(Job, Tasks, command.events) /\ ~command.resolving
BY NextJob DEF DirInv, GenerateInv, IsGenerating, Job, PoolFor

LEMMA BeginGenerateKeeps ==
  ASSUME DirInv, NEW provider, NEW force \in BOOLEAN,
         BeginGenerate(provider, force)
  PROVE  DirInv'
<1> DEFINE events == IF files["event_plan"] = None THEN <<>>
                     ELSE files["event_plan"]
           tasks == files["semantic_tasks"]
           scenario == files["scenario"]
           jobs == Jobs(tasks, events)
<1>1. FilesInv' /\ IsCache(cache') /\ PairedInv'
  BY DEF DirInv, FilesInv, PairedInv, Tasks, Pool, PoolScenario,
         BeginGenerate
<1>2. /\ command' = [name |-> "generate", provider |-> provider,
             scenario |-> scenario, force |-> force,
             events |-> events, jobs |-> jobs,
             pool |-> <<>>, attempt |-> 0, resolving |-> FALSE]
      /\ torn' = None /\ files' = files /\ cache' = cache
  BY DEF BeginGenerate, Begin, Generating
<1>3. tasks \in TaskLists /\ scenario \in Scenarios
  BY DEF DirInv, FilesInv, BeginGenerate
<1>4. EventList(events)
  <2>1. EventList(<<>>)
    BY DEF EventList, Range, Distinct
  <2> QED BY <2>1 DEF DirInv, FilesInv, BeginGenerate
<1>5. PoolFor(<<>>, tasks, events, provider, scenario, force, cache)
  <2>1. Len(jobs) \in Nat
    BY <1>3, <1>4, JobsKeep, OwnList
  <2>2. Len(<<>>) = 0 /\ DOMAIN <<>> = {} /\ <<>> \in Seq(Range(<<>>))
    OBVIOUS
  <2> HIDE DEF events, tasks, scenario
  <2> QED BY <2>1, <2>2 DEF PoolFor
<1>6. Remains(jobs, <<>>, jobs)
  <2>1. jobs \in Seq(Range(jobs)) /\ Len(jobs) \in Nat
    BY <1>3, <1>4, JobsKeep, OwnList
  <2> HIDE DEF jobs
  <2> QED BY <2>1 DEF Remains
<1>7. IsGenerating(command', tasks, cache)
  <2> HIDE DEF tasks, scenario, events, jobs
  <2> QED BY <1>2, <1>3, <1>4, <1>5, <1>6 DEF IsGenerating, jobs
<1>8. command'.name = "generate" /\ ~command'.resolving
  BY <1>2
<1>9. Tasks' = tasks
  BY <1>2 DEF Tasks
<1>10. GenerateInv'
  BY <1>2, <1>7, <1>8, <1>9 DEF GenerateInv
<1>11. CommandInv'
  BY <1>2, <1>8 DEF CommandInv
<1> QED BY <1>1, <1>10, <1>11 DEF DirInv

(* A job is done: its asset joins the pool.                                *)
LEMMA AddKeeps ==
  ASSUME DirInv, Asking, NEW asset,
         command.force \/ KeysApart =>
            \E text : asset = Made(Job, command.provider, text),
         UNCHANGED <<files, torn, paired>>, IsCache(cache'), PairedInv',
         PoolFor(command.pool, Tasks, command.events, command.provider,
                 command.scenario, command.force, cache'),
         command.force =>
            /\ asset.text = Job.task.wording
            /\ JobKey \in DOMAIN cache' /\ cache'[JobKey] \in {asset, Torn},
         Add(asset)
  PROVE  DirInv'
<1> DEFINE c == command
           entry == [id |-> Id(Job, asset), asset |-> asset]
<1>1. /\ c.name = "generate" /\ c.jobs # <<>>
      /\ c = [name |-> "generate", provider |-> c.provider,
              scenario |-> c.scenario, force |-> c.force,
              events |-> c.events, jobs |-> c.jobs,
              pool |-> c.pool, attempt |-> c.attempt,
              resolving |-> c.resolving]
      /\ c.force \in BOOLEAN /\ c.resolving = FALSE
      /\ Tasks \in TaskLists /\ EventList(c.events) /\ c.scenario \in Scenarios
      /\ Remains(c.jobs, c.pool, Jobs(Tasks, c.events))
  BY Generates DEF Asking
<1>2. ASSUME c.force \/ KeysApart
      PROVE  /\ asset.task = Job.task.id /\ asset.provider = c.provider
             /\ asset.event = Job.event
             /\ MadeFor(entry, Head(c.jobs), c.provider)
  <2>1. PICK text : asset = Made(Job, c.provider, text)
    BY <1>2
  <2>2. /\ asset.task = Job.task.id /\ asset.provider = c.provider
        /\ asset.event = Job.event
    BY <2>1 DEF Made
  <2>3. entry.id = <<Job.task.id, c.provider, Job.event, Job.index>>
    BY <2>2 DEF Id
  <2>4. entry.asset = Made(Job, c.provider, text)
    BY <2>1
  <2> HIDE DEF entry
  <2> QED BY <2>2, <2>3, <2>4 DEF MadeFor, Job
<1>3. c.force => Fresh(entry, Head(c.jobs), c.scenario, cache')
  <2> SUFFICES ASSUME c.force
               PROVE  Fresh(entry, Head(c.jobs), c.scenario, cache')
    OBVIOUS
  <2>1. JobKey = Key(asset.provider, c.scenario, Job.task.id, asset.event)
    BY <1>2 DEF JobKey
  <2>2. entry.asset = asset
    OBVIOUS
  <2> HIDE DEF entry
  <2> QED BY <2>1, <2>2 DEF Fresh, Job
<1>4. Entry(entry, Head(c.jobs), c.provider, c.scenario, c.force, cache')
  <2>1. entry.asset = asset
    OBVIOUS
  <2> HIDE DEF entry
  <2> QED BY <1>2, <1>3, <2>1 DEF Entry, Job
<1> DEFINE pool == Append(c.pool, entry)
           left == Tail(c.jobs)
<1>5. /\ PoolFor(pool, Tasks, c.events, c.provider, c.scenario, c.force, cache')
      /\ Remains(left, pool, Jobs(Tasks, c.events))
  <2> HIDE DEF entry
  <2> QED BY <1>1, <1>4, PoolGrows
<1>6. command' = [name |-> "generate", provider |-> c.provider,
              scenario |-> c.scenario, force |-> c.force,
              events |-> c.events, jobs |-> left,
              pool |-> pool, attempt |-> 0, resolving |-> FALSE]
  <2>1. command' = [c EXCEPT !.jobs = left, !.attempt = 0, !.pool = pool]
    BY DEF Add
  <2> HIDE DEF left, pool
  <2> QED BY <1>1, <2>1
<1> HIDE DEF left, pool
<1>7. IsGenerating(command', Tasks, cache')
  BY <1>1, <1>5, <1>6 DEF IsGenerating
<1>8. command'.name = "generate" /\ ~command'.resolving
  BY <1>6
<1>9. Tasks' = Tasks
  BY DEF Tasks
<1>10. GenerateInv'
  BY <1>7, <1>8, <1>9 DEF GenerateInv
<1>11. CommandInv' /\ FilesInv'
  BY <1>8 DEF DirInv, CommandInv, FilesInv
<1> QED BY <1>10, <1>11 DEF DirInv

LEMMA TakeCachedKeeps ==
  ASSUME DirInv, TakeCached
  PROVE  DirInv'
<1> DEFINE asset == cache[JobKey]
<1>1. IsJob(Job, Tasks, command.events) /\ Tasks \in TaskLists
      /\ EventList(command.events) /\ command.scenario \in Scenarios
  BY Generates DEF TakeCached, Asking
<1>2. asset.type = Job.task.type /\ JobKey \in DOMAIN cache /\ asset # Torn
  BY DEF TakeCached, Hit, Consults, Cached, Valid
<1>3. ASSUME KeysApart
      PROVE  \E text : asset = Made(Job, command.provider, text)
  <2>1. PICK p, type, text :
          \E s \in Scenarios, t \in TaskIds, e \in EventIds \cup {None} :
             /\ JobKey = Key(p, s, t, e)
             /\ asset = [task |-> t, provider |-> p, event |-> e,
                         type |-> type, text |-> text]
    BY <1>2 DEF DirInv, IsCache
  <2>2. PICK s \in Scenarios, t \in TaskIds, e \in EventIds \cup {None} :
             /\ JobKey = Key(p, s, t, e)
             /\ asset = [task |-> t, provider |-> p, event |-> e,
                         type |-> type, text |-> text]
    BY <2>1
  <2>3. /\ p = command.provider
        /\ Joined(s, t, e)
             = Joined(command.scenario, Job.task.id, Job.event)
    BY <2>2 DEF JobKey, Key
  <2>4. Job.task.id \in TaskIds /\ Job.event \in EventIds \cup {None}
    BY <1>1, JobParts
  <2>5. t = Job.task.id /\ e = Job.event
    BY <1>1, <1>3, <2>3, <2>4 DEF KeysApart
  <2>6. type = Job.task.type
    BY <1>2, <2>2
  <2> QED BY <2>2, <2>3, <2>5, <2>6 DEF Made
<1>4. ~command.force /\ Asking /\ Add(asset)
      /\ UNCHANGED <<files, cache, torn, paired>>
  BY DEF TakeCached, Hit, Consults
<1> HIDE DEF asset
<1>5. /\ PoolFor(command.pool, Tasks, command.events, command.provider,
                 command.scenario, command.force, cache)
      /\ command.force = FALSE
  BY <1>4, Generates DEF Asking
<1>6. IsCache(cache') /\ PairedInv'
  BY <1>4 DEF DirInv, PairedInv, Tasks, Pool, PoolScenario
<1> QED BY <1>3, <1>4, <1>5, <1>6, AddKeeps

(* A command writes a cache entry, or is killed while it does so.          *)
LEMMA CacheWritten ==
  ASSUME DirInv, Asking,
         NEW asset \in {Torn, Made(Job, command.provider, Job.task.wording)},
         cache' = With(cache, JobKey, asset), UNCHANGED <<files, paired>>
  PROVE  /\ IsCache(cache') /\ PairedInv'
         /\ PoolFor(command.pool, Tasks, command.events, command.provider,
                    command.scenario, command.force, cache')
<1>1. /\ command.force \in BOOLEAN /\ command.scenario \in Scenarios
      /\ Tasks \in TaskLists /\ EventList(command.events)
      /\ PoolFor(command.pool, Tasks, command.events, command.provider,
                 command.scenario, command.force, cache)
      /\ IsJob(Job, Tasks, command.events)
  BY Generates DEF Asking
<1>2. cache' = With(cache, Key(command.provider, command.scenario,
                              Job.task.id, Job.event), asset)
  BY DEF JobKey
<1>3. ASSUME NEW pool, NEW events, NEW provider, NEW scenario \in Scenarios,
             NEW forced \in BOOLEAN, EventList(events),
             PoolFor(pool, Tasks, events, provider, scenario, forced, cache)
      PROVE  PoolFor(pool, Tasks, events, provider, scenario, forced, cache')
  <2>1. PoolFor(pool, Tasks, events, provider, scenario, forced,
                With(cache, Key(command.provider, command.scenario,
                                Job.task.id, Job.event), asset))
    BY <1>1, <1>3, CacheKeepsFresh
  <2> QED BY <1>2, <2>1
<1>4. IsCache(cache')
  <2> DEFINE Says(k, asked) ==
               \E p, type, text :
                  \E s \in Scenarios, t \in TaskIds, e \in EventIds \cup {None} :
                     /\ k = Key(p, s, t, e)
                     /\ asked = [task |-> t, provider |-> p, event |-> e,
                                 type |-> type, text |-> text]
  <2>0. ASSUME NEW k, NEW asked, NEW p, NEW type, NEW text, NEW s \in Scenarios,
               NEW t \in TaskIds, NEW e \in EventIds \cup {None},
               k = Key(p, s, t, e),
               asked = [task |-> t, provider |-> p, event |-> e, type |-> type,
                        text |-> text]
        PROVE  Says(k, asked)
    BY <2>0
  <2> SUFFICES ASSUME NEW k \in DOMAIN cache', cache'[k] # Torn
               PROVE  Says(k, cache'[k])
    BY DEF IsCache
  <2>1. CASE k = JobKey
    <3>1. cache'[k] = Made(Job, command.provider, Job.task.wording)
      BY <2>1 DEF With
    <3>2. Job.task.id \in TaskIds /\ Job.event \in EventIds \cup {None}
      BY <1>1, JobParts
    <3>3. k = Key(command.provider, command.scenario, Job.task.id, Job.event)
      BY <2>1 DEF JobKey
    <3>4. cache'[k] = [task |-> Job.task.id, provider |-> command.provider,
                       event |-> Job.event, type |-> Job.task.type,
                       text |-> Job.task.wording]
      BY <3>1 DEF Made
    <3> HIDE DEF Says
    <3> QED BY <1>1, <2>0, <3>2, <3>3, <3>4
  <2>2. CASE k # JobKey
    <3>1. k \in DOMAIN cache /\ cache'[k] = cache[k]
      BY <2>2 DEF With
    <3> QED BY <3>1 DEF DirInv, IsCache
  <2> QED BY <2>1, <2>2
<1>5. ASSUME paired # None
      PROVE  Pairing(files["event_plan"], Pool, PoolScenario, Tasks,
                     paired = TRUE, cache')
  <2> DEFINE forced == paired = TRUE
  <2>1. Pairing(files["event_plan"], Pool, PoolScenario, Tasks, forced, cache)
    BY <1>5 DEF DirInv, PairedInv
  <2>2. forced \in BOOLEAN
    OBVIOUS
  <2> HIDE DEF forced
  <2>3. PICK events, provider :
          /\ EventList(events)
          /\ PoolFor(Pool, Tasks, events, provider, PoolScenario, forced, cache)
          /\ Len(Pool) = Len(Jobs(Tasks, events))
          /\ files["event_plan"] = Resolve(events, Pool)
    BY <2>1 DEF Pairing
  <2>4. PoolFor(Pool, Tasks, events, provider, PoolScenario, forced, cache')
    <3>1. PoolScenario \in Scenarios
      BY <2>1 DEF Pairing
    <3> QED BY <1>3, <2>2, <2>3, <3>1
  <2>5. Pairing(files["event_plan"], Pool, PoolScenario, Tasks, forced, cache')
    BY <2>1, <2>3, <2>4 DEF Pairing
  <2> QED BY <2>5 DEF forced
<1>6. PairedInv'
  <2>1. Pool' = Pool /\ Tasks' = Tasks /\ PoolScenario' = PoolScenario
    BY DEF Pool, Tasks, PoolScenario
  <2>2. paired \in BOOLEAN \cup {None}
    BY DEF DirInv, PairedInv
  <2> QED BY <1>5, <2>1, <2>2 DEF PairedInv
<1>7. PoolFor(command.pool, Tasks, command.events, command.provider,
              command.scenario, command.force, cache')
  BY <1>1, <1>3
<1> QED BY <1>4, <1>6, <1>7

LEMMA ProvidedKeeps ==
  ASSUME DirInv, NEW text \in {Job.task.wording, Blank}, Provided(text)
  PROVE  DirInv'
<1> DEFINE asset == Made(Job, command.provider, text)
<1>1. Asking /\ UNCHANGED <<files, torn, paired>>
  BY DEF Provided, Provides
<1>2. CASE Valid(asset, Job)
  <2>1. cache' = With(cache, JobKey, asset) /\ Add(asset)
    BY <1>2 DEF Provided
  <2>2. text = Job.task.wording
    BY <1>2 DEF Valid, Made
  <2>3. asset.text = Job.task.wording
    BY <2>2 DEF Made
  <2>4. \E t : asset = Made(Job, command.provider, t)
    OBVIOUS
  <2>5. asset \in {Torn, Made(Job, command.provider, Job.task.wording)}
    BY <2>2
  <2> HIDE DEF asset
  <2>6. /\ IsCache(cache') /\ PairedInv'
        /\ PoolFor(command.pool, Tasks, command.events, command.provider,
                   command.scenario, command.force, cache')
    BY <1>1, <2>1, <2>5, CacheWritten
  <2>7. JobKey \in DOMAIN cache' /\ cache'[JobKey] = asset
    BY <2>1 DEF With
  <2> QED BY <1>1, <2>1, <2>3, <2>4, <2>6, <2>7, AddKeeps
<1>3. CASE ~Valid(asset, Job)
  <2>1. command' = Idle /\ cache' = cache
    BY <1>3 DEF Provided, End
  <2>2. torn' \in {None, FALSE}
    BY <1>1 DEF DirInv, CommandInv
  <2> QED BY <1>1, <2>1, <2>2, KilledKeeps
<1> QED BY <1>2, <1>3

LEMMA KilledCachingKeeps ==
  ASSUME DirInv, KilledCaching
  PROVE  DirInv'
<1>1. /\ Asking /\ cache' = With(cache, JobKey, Torn) /\ command' = Idle
      /\ UNCHANGED <<files, torn, paired>>
  BY DEF KilledCaching, Provides, End
<1>2. IsCache(cache') /\ PairedInv'
  BY <1>1, CacheWritten
<1>3. FilesInv' /\ torn' \in {None, FALSE}
  BY <1>1 DEF DirInv, CommandInv, FilesInv
<1> QED BY <1>1, <1>2, <1>3, CommandEnds

LEMMA RetryRequestKeeps ==
  ASSUME DirInv, RetryRequest
  PROVE  DirInv'
<1> DEFINE c == command
<1>1. /\ Asking /\ command' = [c EXCEPT !.attempt = @ + 1]
      /\ UNCHANGED <<files, cache, torn, paired>>
  BY DEF RetryRequest, Provides
<1>2. /\ c.name = "generate"
      /\ c = [name |-> "generate", provider |-> c.provider,
              scenario |-> c.scenario, force |-> c.force,
              events |-> c.events, jobs |-> c.jobs,
              pool |-> c.pool, attempt |-> c.attempt,
              resolving |-> c.resolving]
      /\ IsGenerating(c, Tasks, cache) /\ ~c.resolving
  BY <1>1, Generates DEF Asking
<1>3. command' = [name |-> "generate", provider |-> c.provider,
              scenario |-> c.scenario, force |-> c.force,
              events |-> c.events, jobs |-> c.jobs,
              pool |-> c.pool, attempt |-> c.attempt + 1,
              resolving |-> c.resolving]
  BY <1>1, <1>2
<1>4. /\ IsGenerating(command', Tasks, cache)
      /\ command'.name = "generate" /\ ~command'.resolving
  BY <1>2, <1>3 DEF IsGenerating
<1>5. GenerateInv'
  BY <1>1, <1>4 DEF GenerateInv, Tasks
<1>6. CommandInv' /\ FilesInv' /\ IsCache(cache') /\ PairedInv'
  BY <1>1, <1>4 DEF DirInv, CommandInv, FilesInv, PairedInv, Tasks, Pool, PoolScenario
<1> QED BY <1>5, <1>6 DEF DirInv

(* The event plan is rewritten, then the pool.                             *)
LEMMA WriteEventsKeeps ==
  ASSUME DirInv, WriteEvents
  PROVE  DirInv'
<1> DEFINE c == command
           plan == Resolve(c.events, c.pool)
<1>1. /\ c.name = "generate" /\ c.jobs = <<>>
      /\ files' = [files EXCEPT !["event_plan"] = plan]
      /\ command' = [c EXCEPT !.resolving = TRUE]
      /\ paired' = None /\ UNCHANGED <<cache, torn>>
  BY DEF WriteEvents, Generated
<1>2. /\ c = [name |-> "generate", provider |-> c.provider,
              scenario |-> c.scenario, force |-> c.force,
              events |-> c.events, jobs |-> c.jobs,
              pool |-> c.pool, attempt |-> c.attempt,
              resolving |-> c.resolving]
      /\ IsGenerating(c, Tasks, cache) /\ EventList(c.events)
  BY <1>1, Generates
<1>3. EventList(plan)
  BY <1>2, ResolveKeeps
<1>4. command' = [name |-> "generate", provider |-> c.provider,
              scenario |-> c.scenario, force |-> c.force,
              events |-> c.events, jobs |-> c.jobs,
              pool |-> c.pool, attempt |-> c.attempt, resolving |-> TRUE]
  BY <1>1, <1>2
<1>5. /\ command'.name = "generate" /\ command'.jobs = <<>>
      /\ Resolve(command'.events, command'.pool) = plan
  BY <1>1, <1>4
<1> HIDE DEF plan
<1>6. /\ FilesInv' /\ files'["event_plan"] = plan
      /\ \A f \in FileNames : f # "event_plan" => files'[f] = files[f]
  BY <1>1, <1>3, FilesWritten, FileNamesAre DEF DirInv
<1>7. Tasks' = Tasks
  BY <1>6, FileNamesAre DEF Tasks
<1>8. IsGenerating(command', Tasks, cache)
  BY <1>2, <1>4 DEF IsGenerating
<1>9. GenerateInv'
  BY <1>1, <1>5, <1>6, <1>7, <1>8 DEF GenerateInv
<1>10. CommandInv' /\ IsCache(cache') /\ PairedInv'
  BY <1>1, <1>5 DEF DirInv, CommandInv, PairedInv
<1> QED BY <1>6, <1>9, <1>10 DEF DirInv

LEMMA WritePoolKeeps ==
  ASSUME DirInv, WritePool
  PROVE  DirInv'
<1> DEFINE c == command
           pool == [scenario |-> c.scenario, assets |-> c.pool]
<1>1. /\ c.name = "generate" /\ c.jobs = <<>> /\ c.resolving
      /\ files' = [files EXCEPT !["semantic_pool"] = pool]
      /\ command' = Idle
      /\ paired' = c.force /\ UNCHANGED <<cache, torn>>
  BY DEF WritePool, Generated, End
<1>2. /\ Tasks \in TaskLists /\ EventList(c.events) /\ c.force \in BOOLEAN
      /\ c.scenario \in Scenarios
      /\ PoolFor(c.pool, Tasks, c.events, c.provider, c.scenario, c.force, cache)
      /\ Remains(c.jobs, c.pool, Jobs(Tasks, c.events))
      /\ files["event_plan"] = Resolve(c.events, c.pool)
  BY <1>1, Generates DEF DirInv, GenerateInv
<1>3. /\ FilesInv' /\ files'["semantic_pool"] = pool
      /\ \A f \in FileNames : f # "semantic_pool" => files'[f] = files[f]
  BY <1>1, FilesWritten, FileNamesAre DEF DirInv
<1>4. /\ Tasks' = Tasks /\ Pool' = c.pool /\ PoolScenario' = c.scenario
      /\ files'["event_plan"] = files["event_plan"]
  BY <1>3, FileNamesAre DEF Tasks, Pool, PoolScenario
<1>5. Len(c.pool) = Len(Jobs(Tasks, c.events))
  <2>1. Len(c.pool) \in Nat
    BY <1>2, OwnList DEF PoolFor
  <2>2. Len(c.jobs) = 0
    BY <1>1
  <2> QED BY <1>2, <2>1, <2>2 DEF Remains
<1>6. Pairing(files["event_plan"], c.pool, c.scenario, Tasks, c.force, cache)
  BY <1>2, <1>5 DEF Pairing
<1>7. PairedInv'
  <2>1. (c.force = TRUE) = c.force
    BY <1>2
  <2> DEFINE forced == c.force
  <2>2. Pairing(files["event_plan"], c.pool, c.scenario, Tasks, forced = TRUE,
                cache)
    <3>1. CASE forced = TRUE
      BY <1>6, <3>1
    <3>2. CASE forced = FALSE
      BY <1>6, <3>2
    <3> QED BY <1>2, <3>1, <3>2
  <2>3. paired' \in BOOLEAN \cup {None}
    BY <1>1, <1>2
  <2> QED BY <1>1, <1>4, <2>2, <2>3 DEF PairedInv
<1>8. IsCache(cache') /\ torn' \in {None, FALSE}
  BY <1>1 DEF DirInv, CommandInv
<1> QED BY <1>1, <1>3, <1>7, <1>8, CommandEnds

LEMMA KilledWritingKeeps ==
  ASSUME DirInv, KilledWriting
  PROVE  DirInv'
<1>1. CASE command.resolving
  <2>1. KilledWith("semantic_pool", Torn)
    BY <1>1 DEF KilledWriting
  <2> QED BY <2>1, FileNamesAre, KilledWithKeeps
<1>2. CASE ~command.resolving
  <2>1. PICK left \in Cut(Resolve(command.events, command.pool)) :
           KilledWith("event_plan", left)
    BY <1>2 DEF KilledWriting
  <2>2. EventList(Resolve(command.events, command.pool))
    BY Generates, ResolveKeeps DEF KilledWriting, Generated
  <2>3. left \notin {None, Torn} => EventList(left)
    BY <2>2, CutList
  <2> QED BY <2>1, <2>3, FileNamesAre, KilledWithKeeps
<1> QED BY <1>1, <1>2

(* The commands that fail: on a torn cache entry, and on a request.        *)
LEMMA GenerateFails ==
  ASSUME DirInv, CacheRaises \/ RequestFails
  PROVE  DirInv'
<1>1. CASE CacheRaises
  <2>1. command.force = FALSE
    BY <1>1, Generates DEF CacheRaises, Asking, Consults
  <2>2. /\ command' = Idle /\ torn' \in {None, FALSE}
        /\ UNCHANGED <<files, cache, paired>>
    BY <1>1, <2>1 DEF CacheRaises, End
  <2> QED BY <2>2, KilledKeeps
<1>2. CASE RequestFails
  <2>1. /\ command' = Idle /\ torn' \in {None, FALSE}
        /\ UNCHANGED <<files, cache, paired>>
    BY <1>2 DEF RequestFails, End, DirInv, CommandInv
  <2> QED BY <2>1, KilledKeeps
<1> QED BY <1>1, <1>2

LEMMA DirStarts == Init => DirInv
<1> SUFFICES ASSUME Init PROVE DirInv
  OBVIOUS
<1>1. /\ files = [f \in FileNames |-> None] /\ cache = << >>
      /\ command = Idle /\ torn = None /\ paired = None
  BY DEF Init, DirInit
<1>2. FilesInv
  <2>1. /\ files["scenario"] = None
        /\ files["event_plan"] = None /\ files["semantic_tasks"] = None
    BY <1>1, FileNamesAre
  <2> QED BY <1>1, <2>1 DEF FilesInv
<1>3. IsCache(cache)
  BY <1>1 DEF IsCache
<1>4. CommandInv /\ GenerateInv /\ PairedInv
  BY <1>1 DEF CommandInv, GenerateInv, PairedInv, Idle
<1> QED BY <1>2, <1>3, <1>4 DEF DirInv

LEMMA DirNext == DirInv /\ [Next]_vars => DirInv'
<1> SUFFICES ASSUME DirInv, [Next]_vars PROVE DirInv'
  OBVIOUS
<1>1. CASE Compile
  BY <1>1, BeginCompileKeeps, WriteFileKeeps DEF Compile
<1>2. CASE Generate
  <2>1. ASSUME NEW p \in Providers, NEW force \in BOOLEAN,
               BeginGenerate(p, force)
        PROVE  DirInv'
    BY <2>1, BeginGenerateKeeps
  <2>2. CASE Render \/ Answer
    <3>1. \E text \in {Job.task.wording, Blank} : Provided(text)
      BY <2>2 DEF Render, Answer
    <3> QED BY <3>1, ProvidedKeeps
  <2>3. CASE TakeCached \/ CacheRaises \/ RequestFails
    BY <2>3, TakeCachedKeeps, GenerateFails
  <2>4. CASE RetryRequest \/ WriteEvents \/ WritePool
    BY <2>4, RetryRequestKeeps, WriteEventsKeeps, WritePoolKeeps
  <2> QED BY <1>2, <2>1, <2>2, <2>3, <2>4 DEF Generate
<1>3. CASE Run
  <2>1. UNCHANGED dirVars
    BY <1>3 DEF Run, BeginRun, Running, Ran
  <2> QED BY <2>1, DirStays
<1>4. CASE Kill
  <2>1. CASE Killed
    <3>1. /\ command' = Idle /\ torn' \in {None, FALSE}
          /\ UNCHANGED <<files, cache, paired>>
      BY <2>1 DEF Killed, End, DirInv, CommandInv
    <3> QED BY <3>1, KilledKeeps
  <2>2. CASE KilledCompiling \/ KilledCaching \/ KilledWriting
    BY <2>2, KilledCompilingKeeps, KilledCachingKeeps, KilledWritingKeeps
  <2> QED BY <1>4, <2>1, <2>2 DEF Kill
<1>5. CASE UNCHANGED vars
  <2>1. UNCHANGED dirVars
    BY <1>5 DEF vars, dirVars
  <2> QED BY <2>1, DirStays
<1> QED BY <1>1, <1>2, <1>3, <1>4, <1>5 DEF Next

(* Whatever commands are run, fail or are killed, and in whatever order:   *)
(* the invariant of the directory, and with it what the event plan refers  *)
(* to and what a forced generate promises.                                 *)
THEOREM DirectoryInvariant == Spec => []DirInv
BY DirStarts, DirNext, PTL DEF Spec

THEOREM References == Spec => []RefsInPool
BY DirectoryInvariant, DirRefs, PTL

THEOREM Freshness == Spec => []ForcedIsFresh
BY DirectoryInvariant, DirFresh, PTL
-----------------------------------------------------------------------------
(* The pause before a retry is a number: 2^n is one, as the number of the  *)
(* subsets of a set of n.                                                  *)
LEMMA BackoffType ==
  ASSUME NEW n \in Nat
  PROVE  Backoff(n) \in Nat
<1>1. 2^n \in Nat
  <2>1. IsFiniteSet(1..n) /\ Cardinality(1..n) = n
    BY FS_Interval
  <2>2. /\ IsFiniteSet(SUBSET (1..n))
        /\ Cardinality(SUBSET (1..n)) = 2^Cardinality(1..n)
    BY <2>1, FS_SUBSET
  <2>3. Cardinality(SUBSET (1..n)) \in Nat
    BY <2>2, FS_CardinalityType
  <2> QED BY <2>1, <2>2, <2>3
<1> DEFINE b == BackoffFactor * 2^n
<1>2. b \in Nat
  BY <1>1, RetryAssumption
<1> HIDE DEF b
<1>3. \E x \in {b, 30} : \A y \in {b, 30} : x <= y
  BY <1>2
<1>4. Backoff(n) \in {b, 30}
  BY <1>3 DEF Backoff, Min, b
<1> QED BY <1>2, <1>4
-----------------------------------------------------------------------------
(* What another arrival changes: how often an event has arrived, which     *)
(* events have, and that they came in order.                               *)
LEMMA OneMore ==
  ASSUME NEW A, NEW list \in Seq(A), NEW x
  PROVE  LET more == Append(list, x) IN
         /\ Len(list) \in Nat /\ DOMAIN list = 1..Len(list)
         /\ DOMAIN more = 1..(Len(list) + 1)
         /\ \A i \in 1..Len(list) : more[i] = list[i]
         /\ more[Len(list) + 1] = x
<1> DEFINE more == Append(list, x)
<1>1. /\ more \in Seq(A \cup {x}) /\ Len(more) = Len(list) + 1
      /\ \A i \in 1..Len(list) : more[i] = list[i]
      /\ more[Len(list) + 1] = x
  BY AppendList
<1> HIDE DEF more
<1>2. Len(list) \in Nat /\ DOMAIN list = 1..Len(list)
  BY OwnList
<1>3. DOMAIN more = 1..(Len(list) + 1)
  BY <1>1, OwnList
<1> QED BY <1>1, <1>2, <1>3 DEF more

LEMMA ArrivalsGrow ==
  ASSUME NEW A, NEW list \in Seq(A), NEW x, NEW id
  PROVE  /\ Arrivals(list, id) \in Nat
         /\ Arrivals(Append(list, x), id) =
               Arrivals(list, id) + IF x.id = id THEN 1 ELSE 0
<1> DEFINE n == Len(list)
           more == Append(list, x)
           S == {i \in 1..n : list[i].id = id}
           T == {i \in 1..(n + 1) : more[i].id = id}
<1>1. /\ n \in Nat /\ DOMAIN list = 1..n /\ DOMAIN more = 1..(n + 1)
      /\ \A i \in 1..n : more[i] = list[i]
      /\ more[n + 1] = x
  BY OneMore
<1> HIDE DEF more
<1>2. Arrivals(list, id) = Cardinality(S)
  BY <1>1 DEF Arrivals
<1>3. Arrivals(more, id) = Cardinality(T)
  BY <1>1 DEF Arrivals
<1> HIDE DEF n
<1>4. IsFiniteSet(1..n)
  BY <1>1, FS_Interval
<1>5. IsFiniteSet(S) /\ Cardinality(S) \in Nat
  <2>1. S \in SUBSET (1..n)
    OBVIOUS
  <2> HIDE DEF S
  <2> QED BY <1>4, <2>1, FS_Subset, FS_CardinalityType
<1>6. CASE x.id = id
  <2>1. T = S \cup {n + 1} /\ n + 1 \notin S
    BY <1>1, <1>6
  <2> HIDE DEF S, T
  <2>2. Cardinality(T) = Cardinality(S) + 1
    BY <1>5, <2>1, FS_AddElement
  <2> QED BY <1>2, <1>3, <1>5, <1>6, <2>2 DEF more
<1>7. CASE x.id # id
  <2>1. T = S
    BY <1>1, <1>7
  <2> HIDE DEF S, T
  <2> QED BY <1>2, <1>3, <1>5, <1>7, <2>1 DEF more
<1> QED BY <1>6, <1>7

LEMMA NoneArrived ==
  ASSUME NEW A, NEW list \in Seq(A), NEW id,
         \A i \in DOMAIN list : list[i].id # id
  PROVE  Arrivals(list, id) = 0
<1>1. {i \in DOMAIN list : list[i].id = id} = {}
  OBVIOUS
<1> QED BY <1>1, FS_EmptySet DEF Arrivals

LEMMA AcceptedGrows ==
  ASSUME NEW A, NEW list \in Seq(A), NEW x
  PROVE  /\ Accepted(list) \in Nat
         /\ Accepted(Append(list, x)) =
               Accepted(list) + IF x.answer = "ok" THEN 1 ELSE 0
<1> DEFINE n == Len(list)
           more == Append(list, x)
           S == {i \in 1..n : list[i].answer = "ok"}
           T == {i \in 1..(n + 1) : more[i].answer = "ok"}
<1>1. /\ n \in Nat /\ DOMAIN list = 1..n /\ DOMAIN more = 1..(n + 1)
      /\ \A i \in 1..n : more[i] = list[i]
      /\ more[n + 1] = x
  BY OneMore
<1> HIDE DEF more
<1>2. Accepted(list) = Cardinality(S) /\ Accepted(more) = Cardinality(T)
  BY <1>1 DEF Accepted
<1> HIDE DEF n
<1>3. IsFiniteSet(S) /\ Cardinality(S) \in Nat
  <2>1. S \in SUBSET (1..n) /\ IsFiniteSet(1..n)
    BY <1>1, FS_Interval
  <2> HIDE DEF S
  <2> QED BY <2>1, FS_Subset, FS_CardinalityType
<1>4. CASE x.answer = "ok"
  <2>1. T = S \cup {n + 1} /\ n + 1 \notin S
    BY <1>1, <1>4
  <2> HIDE DEF S, T
  <2>2. Cardinality(T) = Cardinality(S) + 1
    BY <1>3, <2>1, FS_AddElement
  <2> QED BY <1>2, <1>3, <1>4, <2>2 DEF more
<1>5. CASE x.answer # "ok"
  <2>1. T = S
    BY <1>1, <1>5
  <2> HIDE DEF S, T
  <2> QED BY <1>2, <1>3, <1>5, <2>1 DEF more
<1> QED BY <1>4, <1>5

LEMMA EncodableGrows ==
  ASSUME NEW events, NEW n \in Nat, NEW enrich
  PROVE  /\ Cardinality(Encodable(events, n, enrich)) \in Nat
         /\ Cardinality(Encodable(events, n + 1, enrich)) =
               Cardinality(Encodable(events, n, enrich))
                 + IF CanEncode(events[n + 1], enrich) THEN 1 ELSE 0
<1> DEFINE S == Encodable(events, n, enrich)
           T == Encodable(events, n + 1, enrich)
<1>1. S \subseteq 1..n
  BY DEF Encodable
<1>2. IsFiniteSet(1..n)
  BY FS_Interval
<1>3. n + 1 \notin S
  BY DEF Encodable
<1>4. T = S \cup IF CanEncode(events[n + 1], enrich) THEN {n + 1} ELSE {}
  <2>1. 1..(n + 1) = (1..n) \cup {n + 1}
    OBVIOUS
  <2> QED BY <2>1 DEF Encodable
<1> HIDE DEF S, T
<1>5. IsFiniteSet(S) /\ Cardinality(S) \in Nat
  BY <1>1, <1>2, FS_Subset, FS_CardinalityType
<1>6. Cardinality(S \cup {n + 1}) = Cardinality(S) + 1
  BY <1>3, <1>5, FS_AddElement
<1>7. CASE CanEncode(events[n + 1], enrich)
  <2>1. T = S \cup {n + 1}
    BY <1>4, <1>7
  <2> QED BY <1>5, <1>6, <1>7, <2>1 DEF S, T
<1>8. CASE ~CanEncode(events[n + 1], enrich)
  <2>1. T = S
    BY <1>4, <1>8
  <2> QED BY <1>5, <1>8, <2>1 DEF S, T
<1> QED BY <1>7, <1>8

LEMMA OrderedLater ==
  ASSUME NEW list, NEW events, EventList(events),
         NEW n \in 0..(Len(events) - 1), Ordered(list, events, n)
  PROVE  /\ Ordered(list, events, n + 1)
         /\ \A i \in DOMAIN list : list[i].id # events[n + 1].id
<1>1. /\ Len(events) \in Nat
      /\ \A i, j \in 1..Len(events) : events[i].id = events[j].id => i = j
  BY EventsOf
<1>2. n \in Nat /\ n + 1 <= Len(events)
  BY <1>1
<1>3. ASSUME NEW i \in DOMAIN list, NEW k \in 1..(n + 1),
             list[i].id = events[k].id
      PROVE  k \in 1..n
  <2>1. PICK l \in 1..n : list[i].id = events[l].id
    BY DEF Ordered
  <2>2. k \in 1..Len(events) /\ l \in 1..Len(events)
    BY <1>1, <1>2
  <2>3. events[k].id = events[l].id
    BY <1>3, <2>1
  <2>4. k = l
    BY <1>1, <2>2, <2>3
  <2> QED BY <2>4
<1>4. \A i \in DOMAIN list : list[i].id # events[n + 1].id
  BY <1>2, <1>3
<1>5. \A i \in DOMAIN list : \E k \in 1..(n + 1) : list[i].id = events[k].id
  BY <1>2 DEF Ordered
<1>6. \A i, j \in DOMAIN list, k, l \in 1..(n + 1) :
         i < j /\ list[i].id = events[k].id /\ list[j].id = events[l].id
            => k <= l
  BY <1>3 DEF Ordered
<1> QED BY <1>4, <1>5, <1>6 DEF Ordered

LEMMA OrderedArrival ==
  ASSUME NEW A, NEW list \in Seq(A), NEW events, EventList(events),
         NEW n \in 1..Len(events), Ordered(list, events, n),
         OnlyRetried(list, events[n].id), NEW x, x.id = events[n].id
  PROVE  /\ Ordered(Append(list, x), events, n)
         /\ x.answer \in Retried =>
               OnlyRetried(Append(list, x), events[n].id)
<1> DEFINE more == Append(list, x)
           m == Len(list)
<1>1. /\ Len(events) \in Nat
      /\ \A i, j \in 1..Len(events) : events[i].id = events[j].id => i = j
  BY EventsOf
<1>2. /\ m \in Nat /\ DOMAIN list = 1..m /\ DOMAIN more = 1..(m + 1)
      /\ \A i \in 1..m : more[i] = list[i]
      /\ more[m + 1] = x
  BY OneMore
<1> HIDE DEF more, m
<1>3. /\ \A i \in 1..m : \E k \in 1..n : list[i].id = events[k].id
      /\ \A i, j \in 1..m, k, l \in 1..n :
            i < j /\ list[i].id = events[k].id /\ list[j].id = events[l].id
               => k <= l
      /\ \A i, j \in 1..m :
            i < j /\ list[i].id = list[j].id => list[i].answer \in Retried
      /\ \A i \in 1..m :
            list[i].id = events[n].id => list[i].answer \in Retried
  BY <1>2 DEF Ordered, OnlyRetried
<1>4. ASSUME NEW i \in 1..(m + 1)
      PROVE  \E k \in 1..n : more[i].id = events[k].id
  <2>1. CASE i \in 1..m
    BY <1>2, <1>3, <2>1
  <2>2. CASE i = m + 1
    <3>1. n \in 1..n
      BY <1>1
    <3>2. more[i].id = events[n].id
      BY <1>2, <2>2
    <3> QED BY <3>1, <3>2
  <2> QED BY <1>2, <2>1, <2>2
<1>5. ASSUME NEW i \in 1..(m + 1), NEW j \in 1..(m + 1),
             NEW k \in 1..n, NEW l \in 1..n, i < j,
             more[i].id = events[k].id, more[j].id = events[l].id
      PROVE  k <= l
  <2>1. i \in 1..m
    BY <1>2, <1>5
  <2>2. CASE j \in 1..m
    BY <1>2, <1>3, <1>5, <2>1, <2>2
  <2>3. CASE j = m + 1
    <3>1. events[l].id = events[n].id
      BY <1>2, <1>5, <2>3
    <3>2. l = n
      BY <1>1, <3>1
    <3> QED BY <1>1, <3>2
  <2> QED BY <1>2, <2>2, <2>3
<1>6. ASSUME NEW i \in 1..(m + 1), NEW j \in 1..(m + 1), i < j,
             more[i].id = more[j].id
      PROVE  more[i].answer \in Retried
  <2>1. i \in 1..m
    BY <1>2, <1>6
  <2>2. CASE j \in 1..m
    BY <1>2, <1>3, <1>6, <2>1, <2>2
  <2>3. CASE j = m + 1
    BY <1>2, <1>3, <1>6, <2>1, <2>3
  <2> QED BY <1>2, <2>2, <2>3
<1>7. Ordered(more, events, n)
  BY <1>2, <1>4, <1>5, <1>6 DEF Ordered
<1>8. x.answer \in Retried => OnlyRetried(more, events[n].id)
  BY <1>2, <1>3 DEF OnlyRetried
<1> QED BY <1>7, <1>8 DEF more
-----------------------------------------------------------------------------
(* What is known of the event that a run is at.                            *)
LEMMA AtEvent ==
  ASSUME RunInv, running \in {"write", "post"}, emitted < Len(todo)
  PROVE  /\ emitted \in Nat /\ Len(todo) \in Nat /\ EventList(todo)
         /\ emitted \in 0..(Len(todo) - 1) /\ emitted + 1 \in 1..Len(todo)
         /\ DOMAIN todo = 1..Len(todo) /\ Event.id \in Int
         /\ received \in Seq(Posts)
         /\ Ordered(received, todo, emitted + 1)
         /\ OnlyRetried(received, Event.id)
         /\ Arrivals(received, Event.id) <= Retries
         /\ running = "post" => Arrivals(received, Event.id) <= attempt
         /\ running = "write" => Arrivals(received, Event.id) = 0
<1>1. /\ emitted \in Nat /\ Len(todo) \in Nat /\ EventList(todo)
      /\ emitted \in 0..(Len(todo) - 1) /\ emitted + 1 \in 1..Len(todo)
      /\ DOMAIN todo = 1..Len(todo)
      /\ received \in Seq(Posts)
      /\ \A i \in 1..Len(todo) : IsEvent(todo[i])
  BY EventsOf DEF RunInv, RunTypes
<1>2. Event.id \in Int
  BY <1>1 DEF Event, IsEvent
<1>3. Retries \in Nat
  BY RetryAssumption
<1>4. CASE running = "post"
  <2>1. /\ Ordered(received, todo, emitted + 1)
        /\ OnlyRetried(received, Event.id)
        /\ Arrivals(received, Event.id) <= attempt /\ attempt \in 0..Retries
    BY <1>4 DEF RunInv, RunTypes, RunOrder, RunCopies, Tried
  <2>2. Arrivals(received, Event.id) \in Nat
    BY <1>1, ArrivalsGrow
  <2> QED BY <1>1, <1>2, <1>3, <1>4, <2>1, <2>2
<1>5. CASE running = "write"
  <2>1. Ordered(received, todo, emitted)
    BY <1>5 DEF RunInv, RunOrder, Tried
  <2>2. /\ Ordered(received, todo, emitted + 1)
        /\ \A i \in DOMAIN received : received[i].id # Event.id
    BY <1>1, <2>1, OrderedLater DEF Event
  <2>3. OnlyRetried(received, Event.id)
    BY <2>2 DEF OnlyRetried
  <2>4. Arrivals(received, Event.id) = 0
    BY <1>1, <2>2, NoneArrived
  <2> QED BY <1>1, <1>2, <1>3, <1>5, <2>2, <2>3, <2>4
<1> QED BY <1>4, <1>5

(* The event arrives, or not: the type of what has arrived, its order, and *)
(* how often each event is in it.                                          *)
LEMMA Arrived ==
  ASSUME RunInv, running \in {"write", "post"}, emitted < Len(todo),
         NEW answer \in Retried \cup {"ok", "other"}, NEW list,
         list \in {received,
                   Append(received, [id |-> Event.id, answer |-> answer])}
  PROVE  /\ list \in Seq(Posts)
         /\ Ordered(list, todo, emitted + 1)
         /\ answer \in Retried => OnlyRetried(list, Event.id)
         /\ Arrivals(list, Event.id) <= Arrivals(received, Event.id) + 1
         /\ Arrivals(received, Event.id) \in Nat
         /\ Arrivals(list, Event.id) \in Nat
         /\ \A k \in DOMAIN todo :
               Arrivals(list, todo[k].id) <= Retries + 1
<1> DEFINE x == [id |-> Event.id, answer |-> answer]
<1>1. /\ emitted + 1 \in 1..Len(todo) /\ EventList(todo)
      /\ Event = todo[emitted + 1] /\ Event.id \in Int
      /\ received \in Seq(Posts)
      /\ Ordered(received, todo, emitted + 1)
      /\ OnlyRetried(received, Event.id)
      /\ Arrivals(received, Event.id) <= Retries
  BY AtEvent DEF Event
<1>2. \A k \in DOMAIN todo : Arrivals(received, todo[k].id) <= Retries + 1
  BY DEF RunInv, RunCopies
<1>3. Retries \in Nat
  BY RetryAssumption
<1>4. x \in Posts /\ x.id = Event.id /\ x.answer = answer
  BY <1>1 DEF Posts
<1> HIDE DEF x
<1>5. \A id : /\ Arrivals(received, id) \in Nat
              /\ Arrivals(Append(received, x), id) =
                    Arrivals(received, id) + IF x.id = id THEN 1 ELSE 0
  BY <1>1, ArrivalsGrow
<1>6. CASE list = received
  <2>1. Arrivals(list, Event.id) <= Arrivals(received, Event.id) + 1
    BY <1>5, <1>6
  <2> QED BY <1>1, <1>2, <1>5, <1>6, <2>1
<1>7. CASE list = Append(received, x)
  <2>1. list \in Seq(Posts)
    BY <1>1, <1>4, <1>7, AppendProperties
  <2>2. /\ Ordered(list, todo, emitted + 1)
        /\ answer \in Retried => OnlyRetried(list, Event.id)
    BY <1>1, <1>4, <1>7, OrderedArrival
  <2>3. /\ Arrivals(list, Event.id) = Arrivals(received, Event.id) + 1
        /\ Arrivals(list, Event.id) \in Nat
    BY <1>4, <1>5, <1>7
  <2>4. ASSUME NEW k \in DOMAIN todo
        PROVE  Arrivals(list, todo[k].id) <= Retries + 1
    <3>1. CASE todo[k].id = Event.id
      BY <1>1, <1>3, <1>5, <2>3, <3>1
    <3>2. CASE todo[k].id # Event.id
      BY <1>2, <1>4, <1>5, <1>7, <3>2
    <3> QED BY <3>1, <3>2
  <2> QED BY <1>5, <2>1, <2>2, <2>3, <2>4
<1> QED BY <1>6, <1>7 DEF x

(* The loop goes on to the next event: this one was written or failed.     *)
LEMMA Emits ==
  ASSUME RunInv, running \in {"write", "post"}, emitted < Len(todo),
         running' = "write", emitted' = emitted + 1,
         sink' = sink, todo' = todo,
         attempt' \in 0..Retries, elapsed' \in Nat,
         NEW answer \in Retried \cup {"ok", "other"}, NEW more,
         more = Append(received, [id |-> Event.id, answer |-> answer]),
         received' \in {received, more},
         \/ written' = written + 1 /\ failed' = failed
         \/ written' = written /\ failed' = failed + 1,
         sink.kind # "null" =>
            (written' = written + 1 <=> received' = more /\ answer = "ok"),
         sink.kind \in Lines /\ ~sink.skip =>
            received' = more /\ failed' = failed,
         sink.kind = "export" /\ sink.encode =>
            written' = written +
               IF CanEncode(Event, sink.enrich) THEN 1 ELSE 0
  PROVE  RunInv'
<1> DEFINE x == [id |-> Event.id, answer |-> answer]
<1>1. /\ emitted \in Nat /\ Len(todo) \in Nat /\ EventList(todo)
      /\ emitted \in 0..(Len(todo) - 1) /\ emitted + 1 \in 1..Len(todo)
      /\ Event = todo[emitted + 1] /\ Event.id \in Int /\ received \in Seq(Posts)
  BY AtEvent DEF Event
<1>2. /\ received' \in Seq(Posts) /\ Ordered(received', todo, emitted + 1)
      /\ \A k \in DOMAIN todo : Arrivals(received', todo[k].id) <= Retries + 1
  BY Arrived
<1>3. /\ written \in Nat /\ failed \in Nat /\ written + failed = emitted
      /\ sink \in Sinks \cup {NoSink}
  BY DEF RunInv, RunTypes, RunPhases
<1>4. /\ more = Append(received, x) /\ x.id = todo[emitted + 1].id
      /\ x.answer = answer
  BY <1>1
<1> HIDE DEF x
<1>5. RunTypes'
  <2> DEFINE n == Len(todo)
  <2>1. emitted \in Nat /\ emitted < n /\ n \in Nat
        /\ emitted' = emitted + 1
    BY <1>1
  <2> HIDE DEF n
  <2>2. written' \in Nat /\ failed' \in Nat
    BY <1>3
  <2>3. emitted' \in 0..n
    BY <2>1
  <2> QED BY <1>1, <1>2, <1>3, <2>2, <2>3 DEF RunTypes, n
<1>6. RunPhases'
  <2>1. written' + failed' = emitted'
    BY <1>1, <1>3
  <2> QED BY <2>1 DEF RunPhases
<1>7. RunOrder'
  BY <1>2 DEF RunOrder, Tried
<1>8. RunCopies'
  BY <1>2 DEF RunCopies
<1>9. RunRetries'
  BY DEF RunRetries
<1>10. RunWritten'
  <2> SUFFICES ASSUME sink.kind # "null"
               PROVE  written' = Accepted(received')
    BY DEF RunWritten
  <2>1. written = Accepted(received)
    BY DEF RunInv, RunWritten
  <2>2. /\ Accepted(received) \in Nat
        /\ Accepted(more) =
              Accepted(received) + IF answer = "ok" THEN 1 ELSE 0
    BY <1>1, <1>4, AcceptedGrows
  <2>3. CASE received' = received
    <3>1. ~(received' = more /\ answer = "ok")
      BY <1>3, <2>2, <2>3
    <3> QED BY <1>3, <2>1, <2>3, <3>1
  <2>4. CASE received' = more
    BY <1>3, <2>1, <2>2, <2>4
  <2> QED BY <2>3, <2>4
<1>11. RunLines'
  <2> SUFFICES ASSUME sink.kind \in Lines, ~sink.skip
               PROVE  /\ Len(received') = emitted + 1 /\ failed' = 0
                      /\ \A i \in 1..(emitted + 1) : received'[i].id = todo[i].id
    BY DEF RunLines
  <2>1. received' = Append(received, x) /\ failed' = failed
    BY <1>4
  <2>2. /\ Len(received) = emitted /\ failed = 0
        /\ \A i \in 1..emitted : received[i].id = todo[i].id
    BY DEF RunInv, RunLines
  <2>3. /\ Len(received') = emitted + 1
        /\ \A i \in 1..emitted : received'[i] = received[i]
        /\ received'[emitted + 1] = x
    BY <1>1, <2>1, <2>2, AppendList
  <2> QED BY <1>1, <1>4, <2>1, <2>2, <2>3
<1>12. RunForetold'
  <2> SUFFICES ASSUME sink.kind = "export", sink.encode
               PROVE  written' = Cardinality(
                         Encodable(todo, emitted + 1, sink.enrich))
    BY DEF RunForetold
  <2>1. written = Cardinality(Encodable(todo, emitted, sink.enrich))
    BY DEF RunInv, RunForetold
  <2>2. Cardinality(Encodable(todo, emitted + 1, sink.enrich)) =
           Cardinality(Encodable(todo, emitted, sink.enrich))
             + IF CanEncode(Event, sink.enrich) THEN 1 ELSE 0
    BY <1>1, EncodableGrows
  <2> QED BY <2>1, <2>2
<1> QED BY <1>5, <1>6, <1>7, <1>8, <1>9, <1>10, <1>11, <1>12 DEF RunInv
-----------------------------------------------------------------------------
(* A run that has not begun, or has just begun.                            *)
Started ==
    /\ running \in {"no", "write", "finished"}
    /\ sink \in Sinks \cup {NoSink} /\ EventList(todo)
    /\ running = "no" => sink = NoSink
    /\ running = "finished" => todo = <<>> /\ ~opened
    /\ emitted = 0 /\ written = 0 /\ failed = 0 /\ received = <<>>
    /\ attempt \in 0..Retries /\ elapsed \in Nat

LEMMA StartedRuns == Started => RunInv
<1> SUFFICES ASSUME Started PROVE RunInv
  OBVIOUS
<1>1. /\ Len(todo) \in Nat /\ received = <<>> /\ EventList(todo)
      /\ emitted = 0 /\ written = 0 /\ failed = 0
      /\ running \in {"no", "write", "finished"}
      /\ Retries \in Nat
  BY EventsOf, RetryAssumption DEF Started
<1>2. RunTypes
  <2>1. received \in Seq(Posts)
    BY <1>1
  <2> QED BY <1>1, <2>1 DEF Started, RunTypes
<1>3. RunPhases
  <2>1. running = "finished" => emitted = Len(todo)
    BY <1>1 DEF Started
  <2> QED BY <1>1, <2>1 DEF Started, RunPhases
<1>4. RunOrder
  BY <1>1 DEF RunOrder, Ordered
<1>5. RunCopies
  <2>1. \A k \in DOMAIN todo : Arrivals(received, todo[k].id) = 0
    <3>1. \A id : \A i \in DOMAIN received : received[i].id # id
      BY <1>1
    <3>2. received \in Seq({})
      BY <1>1
    <3> QED BY <3>1, <3>2, NoneArrived
  <2> QED BY <1>1, <2>1 DEF RunCopies
<1>6. RunRetries
  BY <1>1 DEF RunRetries
<1>7. RunWritten
  <2>1. {i \in DOMAIN received : received[i].answer = "ok"} = {}
    BY <1>1
  <2> QED BY <1>1, <2>1, FS_EmptySet DEF RunWritten, Accepted
<1>8. RunLines
  <2>1. Len(received) = 0
    BY <1>1
  <2> QED BY <1>1, <2>1 DEF RunLines
<1>9. RunForetold
  <2>1. Encodable(todo, emitted, sink.enrich) = {}
    BY <1>1 DEF Encodable
  <2> QED BY <1>1, <2>1, FS_EmptySet DEF RunForetold
<1> QED BY <1>2, <1>3, <1>4, <1>5, <1>6, <1>7, <1>8, <1>9 DEF RunInv

LEMMA RunStays ==
  ASSUME RunInv, UNCHANGED runVars
  PROVE  RunInv'
BY DEF RunInv, runVars, RunTypes, RunPhases, RunOrder, RunCopies, RunRetries,
       RunWritten, RunLines, RunForetold, Event, Encodes, Tried

LEMMA BeginRunKeeps ==
  ASSUME RunInv, DirInv, NEW s \in Sinks, NEW limit \in Limits,
         BeginRun(s, limit)
  PROVE  RunInv'
<1> DEFINE plan == files["event_plan"]
<1>1. EventList(plan)
  BY DEF DirInv, FilesInv, BeginRun
<1>2. limit \in Nat \cup {None}
  BY OptionsAssumption
<1> HIDE DEF plan
<1>3. \/ StartExport(plan, s) \/ StartRun(plan, s, limit)
  BY DEF BeginRun, plan
<1>4. ASSUME running = "no"
      PROVE  /\ emitted = 0 /\ written = 0 /\ failed = 0 /\ received = <<>>
             /\ attempt \in 0..Retries /\ elapsed \in Nat
  BY <1>4 DEF RunInv, RunTypes, RunPhases
<1>5. Started'
  <2>1. CASE StartExport(plan, s)
    BY <1>1, <1>4, <2>1 DEF StartExport, Started
  <2>2. CASE StartRun(plan, s, limit)
    <3> DEFINE events == Limited(SortEvents(plan), limit)
    <3>1. EventList(events)
      BY <1>1, <1>2, SortedList, LimitedList
    <3>2. /\ todo' = events /\ sink' = s /\ running = "no"
          /\ running' = IF events = <<>> THEN "finished" ELSE "write"
          /\ opened' = (events # <<>>)
          /\ UNCHANGED <<emitted, written, failed, attempt, elapsed, received>>
      BY <2>2 DEF StartRun
    <3> HIDE DEF events
    <3> QED BY <1>4, <3>1, <3>2 DEF Started
  <2> QED BY <1>3, <2>1, <2>2
<1>6. Started' => RunInv'
  BY StartedRuns, PTL
<1> QED BY <1>5, <1>6

LEMMA EndRunKeeps ==
  ASSUME RunInv, EndRun
  PROVE  RunInv'
<1>1. EventList(<<>>)
  BY DEF EventList, Range, Distinct
<1>2. Started'
  BY <1>1, RetryAssumption DEF EndRun, Started
<1>3. Started' => RunInv'
  BY StartedRuns, PTL
<1> QED BY <1>2, <1>3

(* The steps by which an event is written or has failed.                   *)
LEMMA LineKeeps ==
  ASSUME RunInv, WriteNull \/ WriteLine \/ WriteUnencodable
  PROVE  RunInv'
<1> DEFINE more == Append(received, [id |-> Event.id, answer |-> "ok"])
<1>1. running = "write" /\ emitted < Len(todo)
  BY DEF WriteNull, WriteLine, WriteUnencodable, Looping
<1>2. /\ written \in Nat /\ attempt \in 0..Retries /\ elapsed \in Nat
  BY DEF RunInv, RunTypes
<1>3. CASE WriteNull
  <2>1. /\ received' = received /\ sink.kind = "null"
        /\ running' = "write" /\ emitted' = emitted + 1
        /\ sink' = sink /\ todo' = todo
        /\ attempt' \in 0..Retries /\ elapsed' \in Nat
        /\ written' = written + 1 /\ failed' = failed
    BY <1>1, <1>2, <1>3 DEF WriteNull, SameRun
  <2>2. sink.kind \notin Lines /\ sink.kind # "export"
    BY <2>1 DEF Lines
  <2> HIDE DEF more
  <2> QED BY <1>1, <2>1, <2>2, Emits DEF more
<1>4. CASE WriteLine
  <2>1. /\ received' = more /\ sink.kind \in {"file", "stdout", "export"}
        /\ running' = "write" /\ emitted' = emitted + 1
        /\ sink' = sink /\ todo' = todo
        /\ attempt' \in 0..Retries /\ elapsed' \in Nat
        /\ written' = written + 1 /\ failed' = failed
    BY <1>1, <1>2, <1>4 DEF WriteLine, SameRun, Arrives
  <2>2. sink.encode => CanEncode(Event, sink.enrich)
    BY <1>4 DEF WriteLine, Encodes
  <2> HIDE DEF more
  <2> QED BY <1>1, <2>1, <2>2, Emits DEF more
<1>5. CASE WriteUnencodable
  <2>1. /\ received' = received /\ (sink.kind = "http" \/ sink.skip)
        /\ running' = "write" /\ emitted' = emitted + 1
        /\ sink' = sink /\ todo' = todo
        /\ attempt' \in 0..Retries /\ elapsed' \in Nat
        /\ written' = written /\ failed' = failed + 1
    BY <1>1, <1>2, <1>5 DEF WriteUnencodable, SameRun
  <2>2. ~CanEncode(Event, sink.enrich)
    BY <1>5 DEF WriteUnencodable, Encodes
  <2>3. ~(sink.kind \in Lines /\ ~sink.skip)
    BY <2>1 DEF Lines
  <2>4. written' = written + IF CanEncode(Event, sink.enrich) THEN 1 ELSE 0
    BY <1>2, <2>1, <2>2
  <2>5. ~(written' = written + 1)
    BY <1>2, <2>1
  <2> DEFINE list == Append(received, [id |-> Event.id, answer |-> "other"])
  <2>6. /\ "other" \in Retried \cup {"ok", "other"}
        /\ sink.kind # "null" =>
              (written' = written + 1 <=> received' = list /\ "other" = "ok")
    BY <2>5
  <2> HIDE DEF list
  <2> QED BY <1>1, <2>1, <2>3, <2>4, <2>6, Emits DEF list
<1> QED BY <1>3, <1>4, <1>5

(* The steps that change no count of what has arrived: an event that       *)
(* cannot be encoded ends the run, a post begins, and the loop is over.    *)
LEMMA OtherWriteKeeps ==
  ASSUME RunInv, WriteRaises \/ WritePost \/ FinishRun
  PROVE  RunInv'
<1>1. /\ running = "write" /\ sink' = sink /\ todo' = todo
      /\ emitted' = emitted /\ written' = written /\ received' = received
      /\ WriteRaises \/ WritePost => emitted < Len(todo)
      /\ running' \in {"aborted", "post", "finished"}
      /\ attempt' \in {0, attempt} /\ elapsed' \in {0, elapsed}
      /\ running' # "aborted" => failed' = failed
  BY DEF WriteRaises, WritePost, FinishRun, Looping, SameRun
<1>2. /\ emitted \in Nat /\ Len(todo) \in Nat /\ emitted <= Len(todo)
      /\ written \in Nat /\ failed \in Nat /\ written + failed = emitted
      /\ attempt \in 0..Retries /\ elapsed \in Nat /\ Retries \in Nat
  BY <1>1, EventsOf, RetryAssumption DEF RunInv, RunTypes, RunPhases
<1>3. CASE WriteRaises
  <2>1. /\ running' = "aborted" /\ failed' = failed + 1 /\ opened' = FALSE
        /\ sink.kind \in Lines /\ ~sink.skip /\ ~Encodes
    BY <1>3 DEF WriteRaises, Lines
  <2>2. failed = 0
    BY <1>1, <2>1 DEF RunInv, RunLines
  <2>3. RunTypes'
    BY <1>1, <1>2, <2>1 DEF RunInv, RunTypes
  <2>4. RunPhases'
    <3>1. emitted < Len(todo) /\ sink.kind # "http" /\ failed' = 1
      BY <1>1, <1>3, <2>1, <2>2 DEF Lines
    <3>2. Encodes' = Encodes
      BY <1>1 DEF Encodes, Event
    <3> QED BY <1>1, <2>1, <3>1, <3>2 DEF RunPhases
  <2>5. RunOrder'
    <3>1. Ordered(received, todo, emitted + 1)
      BY <1>1, <1>3, AtEvent
    <3> QED BY <1>1, <2>1, <3>1 DEF RunOrder, Tried
  <2>6. RunCopies' /\ RunRetries'
    BY <1>1, <2>1 DEF RunInv, RunCopies, RunRetries
  <2>7. RunWritten' /\ RunLines' /\ RunForetold'
    BY <1>1, <2>1 DEF RunInv, RunWritten, RunLines, RunForetold
  <2> QED BY <2>3, <2>4, <2>5, <2>6, <2>7 DEF RunInv
<1>4. CASE WritePost
  <2>1. /\ running' = "post" /\ failed' = failed /\ sink.kind = "http"
        /\ attempt' = 0 /\ elapsed' = 0 /\ emitted < Len(todo)
    BY <1>1, <1>4 DEF WritePost
  <2>2. /\ Ordered(received, todo, emitted + 1)
        /\ OnlyRetried(received, Event.id) /\ Arrivals(received, Event.id) = 0
    BY <1>1, <2>1, AtEvent
  <2>3. Event' = Event
    BY <1>1 DEF Event
  <2>4. RunTypes'
    BY <1>1, <1>2, <2>1 DEF RunInv, RunTypes
  <2>5. RunPhases'
    BY <1>1, <1>2, <2>1 DEF RunPhases
  <2>6. RunOrder'
    BY <1>1, <2>1, <2>2, <2>3 DEF RunOrder, Tried
  <2>7. RunCopies' /\ RunRetries'
    BY <1>1, <2>1, <2>2, <2>3 DEF RunInv, RunCopies, RunRetries
  <2>8. RunWritten' /\ RunLines' /\ RunForetold'
    BY <1>1, <2>1 DEF RunInv, RunWritten, RunLines, RunForetold
  <2> QED BY <2>4, <2>5, <2>6, <2>7, <2>8 DEF RunInv
<1>5. CASE FinishRun
  <2>1. /\ running' = "finished" /\ failed' = failed
        /\ opened' = FALSE /\ emitted = Len(todo)
        /\ attempt' = attempt /\ elapsed' = elapsed
    BY <1>5 DEF FinishRun
  <2>2. RunTypes'
    BY <1>1, <1>2, <2>1 DEF RunInv, RunTypes
  <2>3. RunPhases'
    BY <1>1, <1>2, <2>1 DEF RunPhases
  <2>4. RunOrder' /\ RunCopies' /\ RunRetries'
    BY <1>1, <2>1 DEF RunInv, RunOrder, RunCopies, RunRetries, Tried
  <2>5. RunWritten' /\ RunLines' /\ RunForetold'
    BY <1>1, <2>1 DEF RunInv, RunWritten, RunLines, RunForetold
  <2> QED BY <2>2, <2>3, <2>4, <2>5 DEF RunInv
<1> QED BY <1>3, <1>4, <1>5

(* The steps of a post: an answer, a failure that is the last, and one     *)
(* that is followed by a retry.                                            *)
LEMMA AnswerKeeps ==
  ASSUME RunInv, PostAccepted \/ PostRefused
  PROVE  RunInv'
<1>1. /\ running = "post" /\ running' = "write" /\ emitted' = emitted + 1
      /\ sink' = sink /\ todo' = todo
      /\ attempt' = attempt /\ elapsed' = elapsed
  BY DEF PostAccepted, PostRefused, WriteReturns, SameRun
<1>2. /\ emitted < Len(todo) /\ sink.kind = "http"
      /\ attempt \in 0..Retries /\ elapsed \in Nat /\ written \in Nat
  BY <1>1 DEF RunInv, RunTypes, RunPhases
<1>3. sink.kind \notin Lines /\ sink.kind # "export"
  BY <1>2 DEF Lines
<1>4. CASE PostAccepted
  <2> DEFINE more == Append(received, [id |-> Event.id, answer |-> "ok"])
  <2>1. received' = more /\ written' = written + 1 /\ failed' = failed
    BY <1>4 DEF PostAccepted, Arrives
  <2> HIDE DEF more
  <2> QED BY <1>1, <1>2, <1>3, <2>1, Emits DEF more
<1>5. CASE PostRefused
  <2> DEFINE more == Append(received, [id |-> Event.id, answer |-> "other"])
  <2>1. received' = more /\ written' = written /\ failed' = failed + 1
    BY <1>5 DEF PostRefused, Arrives
  <2>2. ~(written' = written + 1)
    BY <1>2, <2>1
  <2> HIDE DEF more
  <2> QED BY <1>1, <1>2, <1>3, <2>1, <2>2, Emits DEF more
<1> QED BY <1>4, <1>5

LEMMA PostFailsKeeps ==
  ASSUME RunInv, NEW t \in Nat, NEW answer \in Retried, PostFails(t, answer)
  PROVE  RunInv'
<1> DEFINE more == Append(received, [id |-> Event.id, answer |-> answer])
           at == elapsed + t
<1>1. /\ running = "post" /\ sink' = sink /\ todo' = todo
      /\ written' = written /\ opened' = opened
      /\ received' \in {received, more}
  BY DEF PostFails, SameRun, Arrives
<1>2. /\ emitted < Len(todo) /\ sink.kind = "http"
      /\ attempt \in 0..Retries /\ elapsed \in Nat /\ written \in Nat
      /\ failed \in Nat /\ written + failed = emitted
      /\ Retries \in Nat /\ MaxRetryDuration \in Nat /\ at \in Nat
  BY <1>1, RetryAssumption DEF RunInv, RunTypes, RunPhases
<1>3. /\ sink.kind \notin Lines /\ sink.kind # "export" /\ sink.kind # "null"
      /\ answer # "ok" /\ answer \in Retried \cup {"ok", "other"}
  BY <1>2 DEF Lines, Retried
<1>4. CASE ~ShouldRetry(attempt, at)
  <2>1. /\ running' = "write" /\ emitted' = emitted + 1
        /\ failed' = failed + 1 /\ attempt' = attempt /\ elapsed' = elapsed
    BY <1>4 DEF PostFails, WriteReturns
  <2>2. ~(written' = written + 1)
    BY <1>1, <1>2
  <2> HIDE DEF more
  <2> QED BY <1>1, <1>2, <1>3, <2>1, <2>2, Emits DEF more
<1>5. CASE ShouldRetry(attempt, at)
  <2>1. /\ elapsed' = at + Backoff(attempt) /\ attempt' = attempt + 1
        /\ running' = "post" /\ emitted' = emitted /\ failed' = failed
    BY <1>1, <1>5 DEF PostFails
  <2>2. attempt < Retries /\ at < MaxRetryDuration
    BY <1>5 DEF ShouldRetry
  <2>3. Backoff(attempt) \in Nat
    <3>1. attempt \in Nat
      BY <1>2
    <3> QED BY <3>1, BackoffType
  <2>4. /\ received' \in Seq(Posts)
        /\ Ordered(received', todo, emitted + 1)
        /\ OnlyRetried(received', Event.id)
        /\ Arrivals(received', Event.id) <= Arrivals(received, Event.id) + 1
        /\ Arrivals(received, Event.id) \in Nat
        /\ Arrivals(received', Event.id) \in Nat
        /\ \A k \in DOMAIN todo :
              Arrivals(received', todo[k].id) <= Retries + 1
    BY <1>1, <1>2, <1>3, Arrived
  <2>5. Event' = Event
    BY <1>1, <2>1 DEF Event
  <2> HIDE DEF at
  <2>6. RunTypes'
    <3>1. elapsed' \in Nat /\ attempt' \in 0..Retries
      BY <1>2, <2>1, <2>2, <2>3
    <3> QED BY <1>1, <2>1, <2>4, <3>1 DEF RunInv, RunTypes
  <2>7. RunPhases'
    BY <1>1, <1>2, <2>1 DEF RunPhases
  <2>8. RunOrder'
    BY <1>1, <2>1, <2>4, <2>5 DEF RunOrder, Tried
  <2>9. RunCopies'
    <3>1. Arrivals(received, Event.id) <= attempt
      BY <1>1 DEF RunInv, RunCopies
    <3>2. Arrivals(received', Event.id) <= attempt + 1
      BY <1>2, <2>4, <3>1
    <3> QED BY <1>1, <2>1, <2>4, <2>5, <3>2 DEF RunCopies
  <2>10. RunRetries'
    <3>1. attempt' - 1 = attempt
      BY <1>2, <2>1
    <3>2. elapsed' < MaxRetryDuration + Backoff(attempt)
      BY <1>2, <2>1, <2>2, <2>3
    <3>3. Backoff(attempt' - 1) = Backoff(attempt)
      BY <3>1
    <3> QED BY <3>2, <3>3 DEF RunRetries
  <2>11. RunWritten'
    <3>1. Accepted(received') = Accepted(received)
      <4>1. received \in Seq(Posts)
        BY DEF RunInv, RunTypes
      <4>2. /\ Accepted(received) \in Nat
            /\ Accepted(more) = Accepted(received)
        BY <1>3, <4>1, AcceptedGrows
      <4> QED BY <1>1, <4>2
    <3> QED BY <1>1, <2>1, <3>1 DEF RunInv, RunWritten
  <2>12. RunLines' /\ RunForetold'
    BY <1>1, <1>3 DEF RunLines, RunForetold
  <2> QED BY <2>6, <2>7, <2>8, <2>9, <2>10, <2>11, <2>12 DEF RunInv
<1> QED BY <1>4, <1>5

(* An answer that is no HTTP ends the run.                                 *)
LEMMA PostRaisesKeeps ==
  ASSUME RunInv, PostRaises
  PROVE  RunInv'
<1> DEFINE more == Append(received, [id |-> Event.id, answer |-> "none"])
<1>1. /\ running = "post" /\ running' = "aborted" /\ opened' = FALSE
      /\ sink' = sink /\ todo' = todo /\ emitted' = emitted
      /\ written' = written /\ failed' = failed
      /\ attempt' = attempt /\ elapsed' = elapsed /\ received' = more
  BY DEF PostRaises, SameRun, Arrives
<1>2. emitted < Len(todo) /\ sink.kind = "http" /\ written + failed = emitted
  BY <1>1 DEF RunInv, RunPhases
<1>3. /\ sink.kind \notin Lines /\ sink.kind # "export"
      /\ "none" \in Retried \cup {"ok", "other"}
  BY <1>2 DEF Lines, Retried
<1>4. /\ more \in Seq(Posts) /\ Ordered(more, todo, emitted + 1)
      /\ \A k \in DOMAIN todo : Arrivals(more, todo[k].id) <= Retries + 1
  BY <1>1, <1>2, <1>3, Arrived
<1>5. Accepted(more) = Accepted(received)
  <2>1. received \in Seq(Posts)
    BY DEF RunInv, RunTypes
  <2>2. /\ Accepted(received) \in Nat
        /\ Accepted(more) = Accepted(received)
    BY <2>1, AcceptedGrows
  <2> QED BY <2>2
<1> HIDE DEF more
<1>6. RunTypes'
  BY <1>1, <1>4 DEF RunInv, RunTypes
<1>7. RunPhases'
  BY <1>1, <1>2 DEF RunPhases
<1>8. RunOrder' /\ RunCopies' /\ RunRetries'
  BY <1>1, <1>4 DEF RunOrder, RunCopies, RunRetries, Tried
<1>9. RunWritten' /\ RunLines' /\ RunForetold'
  BY <1>1, <1>3, <1>5 DEF RunInv, RunWritten, RunLines, RunForetold
<1> QED BY <1>6, <1>7, <1>8, <1>9 DEF RunInv

LEMMA RunNext == DirInv /\ RunInv /\ [Next]_vars => RunInv'
<1> SUFFICES ASSUME DirInv, RunInv, [Next]_vars PROVE RunInv'
  OBVIOUS
<1>1. CASE UNCHANGED runVars
  BY <1>1, RunStays
<1>2. CASE Run
  <2>1. ASSUME NEW s \in Sinks, NEW limit \in Limits, BeginRun(s, limit)
        PROVE  RunInv'
    BY <2>1, BeginRunKeeps
  <2>2. CASE RunStep
    <3>1. Timeout \in Nat /\ \A t \in {0, Timeout} : t \in Nat
      BY RetryAssumption
    <3>2. CASE WriteNull \/ WriteLine \/ WriteUnencodable
      BY <3>2, LineKeeps
    <3>3. CASE WriteRaises \/ WritePost \/ FinishRun
      BY <3>3, OtherWriteKeeps
    <3>4. CASE PostAccepted \/ PostRefused
      BY <3>4, AnswerKeeps
    <3>5. ASSUME NEW t \in {0, Timeout}, NEW answer \in Retried,
                 PostFails(t, answer)
          PROVE  RunInv'
      BY <3>1, <3>5, PostFailsKeeps
    <3>6. CASE PostRaises
      BY <3>6, PostRaisesKeeps
    <3> QED BY <2>2, <3>2, <3>3, <3>4, <3>5, <3>6 DEF RunStep
  <2>3. CASE EndRun
    BY <2>3, EndRunKeeps
  <2> QED BY <1>2, <2>1, <2>2, <2>3 DEF Run, Running, Ran
<1>3. CASE Compile
  <2>1. UNCHANGED runVars
    BY <1>3 DEF Compile, BeginCompile, WriteFile, Same
  <2> QED BY <2>1, <1>1
<1>4. CASE Generate
  <2>1. UNCHANGED runVars
    BY <1>4 DEF Generate, BeginGenerate, TakeCached, CacheRaises, Render,
          Answer, Provided, RetryRequest, RequestFails, WriteEvents, WritePool,
          Same
  <2> QED BY <2>1, <1>1
<1>5. CASE Kill
  <2>1. UNCHANGED runVars
    BY <1>5 DEF Kill, Killed, KilledCompiling, KilledCaching, KilledWriting,
          KilledWith, Same
  <2> QED BY <2>1, <1>1
<1>6. CASE UNCHANGED vars
  BY <1>6, <1>1 DEF vars
<1> QED BY <1>2, <1>3, <1>4, <1>5, <1>6 DEF Next
-----------------------------------------------------------------------------
(* What the invariant of a run says of a run that is over.                 *)
LEMMA RunPositions ==
  ASSUME RunInv, NEW i \in DOMAIN received
  PROVE  \E k \in 1..Tried : /\ received[i].id = todo[k].id
                             /\ Position(received[i].id) = k
<1>1. PICK k \in 1..Tried : received[i].id = todo[k].id
  BY DEF RunInv, RunOrder, Ordered
<1>2. /\ DOMAIN todo = 1..Len(todo) /\ Len(todo) \in Nat
      /\ \A m, l \in 1..Len(todo) : todo[m].id = todo[l].id => m = l
  BY EventsOf DEF RunInv, RunTypes
<1>3. k \in DOMAIN todo
  <2>1. /\ emitted \in 0..Len(todo)
        /\ running \in {"post", "aborted"} => emitted < Len(todo)
    BY DEF RunInv, RunTypes, RunPhases
  <2>2. Tried <= Len(todo) /\ Tried \in Nat
    BY <1>2, <2>1 DEF Tried
  <2> QED BY <1>2, <2>2
<1>4. Position(received[i].id) \in DOMAIN todo
      /\ todo[Position(received[i].id)].id = received[i].id
  BY <1>1, <1>3 DEF Position
<1>5. Position(received[i].id) = k
  BY <1>1, <1>2, <1>3, <1>4
<1> QED BY <1>1, <1>5

(* encode preflight counts what the whole of a run can encode, and misses  *)
(* the event at which a run is aborted.                                    *)
LEMMA PreflightCounts ==
  ASSUME NEW events, EventList(events), NEW enrich
  PROVE  /\ Preflight(events, enrich) =
               Cardinality(Encodable(events, Len(events), enrich))
         /\ \A k \in 1..Len(events) :
               ~CanEncode(events[k], enrich) =>
                  Preflight(events, enrich) # Len(events)
<1> DEFINE n == Len(events)
           S == Encodable(events, n, enrich)
<1>1. n \in Nat /\ DOMAIN events = 1..n
  BY EventsOf
<1>2. Preflight(events, enrich) = Cardinality(S)
  BY <1>1 DEF Preflight, Encodable
<1>3. ASSUME NEW k \in 1..n, ~CanEncode(events[k], enrich)
      PROVE  Cardinality(S) # n
  <2>1. S \subseteq 1..n /\ k \notin S
    BY <1>3 DEF Encodable
  <2> HIDE DEF S, n
  <2>2. IsFiniteSet(1..n) /\ Cardinality(1..n) = n
    BY <1>1, FS_Interval
  <2>3. S # 1..n
    BY <2>1
  <2> QED BY <2>1, <2>2, <2>3, FS_Subset
<1> QED BY <1>2, <1>3

LEMMA RunAccounts == RunInv => EveryEventAccounted
<1> SUFFICES ASSUME RunInv PROVE EveryEventAccounted
  OBVIOUS
<1>1. /\ EventList(todo) /\ Len(todo) \in Nat /\ DOMAIN todo = 1..Len(todo)
      /\ todo \in Seq(Range(todo)) /\ received \in Seq(Posts)
      /\ DOMAIN received = 1..Len(received) /\ Len(received) \in Nat
      /\ written \in Nat /\ failed \in Nat /\ emitted \in 0..Len(todo)
  BY EventsOf, OwnList DEF RunInv, RunTypes, EventList
<1>2. ASSUME NEW i \in DOMAIN received, NEW j \in DOMAIN received, i < j
      PROVE  /\ Position(received[i].id) <= Position(received[j].id)
             /\ received[i].id = received[j].id =>
                   received[i].answer \in Retried
  <2>1. Ordered(received, todo, Tried)
    BY DEF RunInv, RunOrder
  <2>2. PICK k \in 1..Tried : /\ received[i].id = todo[k].id
                              /\ Position(received[i].id) = k
    BY RunPositions
  <2>3. PICK l \in 1..Tried : /\ received[j].id = todo[l].id
                              /\ Position(received[j].id) = l
    BY RunPositions
  <2> QED BY <1>2, <2>1, <2>2, <2>3 DEF Ordered
<1>3. ASSUME NEW k \in DOMAIN todo
      PROVE  Cardinality({i \in DOMAIN received : received[i].id = todo[k].id})
                <= Retries + 1
  BY DEF RunInv, RunCopies, Arrivals
<1>4. (running = "post" /\ attempt > 0) =>
         elapsed < MaxRetryDuration + Backoff(attempt - 1)
  BY DEF RunInv, RunRetries
<1>5. sink.kind # "null" => written =
         Cardinality({i \in DOMAIN received : received[i].answer = "ok"})
  BY DEF RunInv, RunWritten, Accepted
<1>6. running = "finished" => written + failed = Len(todo) /\ ~opened
  BY DEF RunInv, RunPhases
<1>7. ASSUME running = "aborted"
      PROVE  /\ emitted < Len(todo) /\ ~opened
             /\ IF sink.kind = "http" THEN written + failed = emitted
                ELSE /\ Ids(received) = Ids(SubSeq(todo, 1, emitted))
                     /\ failed = 1
  <2>1. /\ emitted < Len(todo) /\ ~opened
        /\ sink.kind = "http" => written + failed = emitted
        /\ sink.kind # "http" =>
              failed = 1 /\ sink.kind \in Lines /\ ~sink.skip
    BY <1>7 DEF RunInv, RunPhases
  <2>2. ASSUME sink.kind # "http"
        PROVE  Ids(received) = Ids(SubSeq(todo, 1, emitted))
    <3>1. /\ Len(received) = emitted
          /\ \A i \in 1..emitted : received[i].id = todo[i].id
      BY <2>1, <2>2 DEF RunInv, RunLines
    <3> DEFINE part == SubSeq(todo, 1, emitted)
    <3>2. DOMAIN part = 1..emitted /\ \A i \in 1..emitted : part[i] = todo[i]
      BY <1>1
    <3> HIDE DEF part
    <3>3. Ids(received) = Ids(part)
      BY <1>1, <3>1, <3>2 DEF Ids
    <3> QED BY <3>3 DEF part
  <2> QED BY <2>1, <2>2
<1>8. ASSUME sink.kind = "export", sink.encode
      PROVE  LET foretold == Preflight(todo, sink.enrich) IN
             /\ running = "finished" => written = foretold
             /\ foretold = Len(todo) => running # "aborted"
  <2>1. written = Cardinality(Encodable(todo, emitted, sink.enrich))
    BY <1>8 DEF RunInv, RunForetold
  <2>2. running = "finished" => emitted = Len(todo)
    BY DEF RunInv, RunPhases
  <2>3. running = "aborted" => /\ emitted + 1 \in 1..Len(todo)
                               /\ ~CanEncode(todo[emitted + 1], sink.enrich)
    BY <1>1, <1>8 DEF RunInv, RunPhases, Encodes, Event
  <2>4. /\ Preflight(todo, sink.enrich) =
              Cardinality(Encodable(todo, Len(todo), sink.enrich))
        /\ \A k \in 1..Len(todo) :
              ~CanEncode(todo[k], sink.enrich) =>
                 Preflight(todo, sink.enrich) # Len(todo)
    BY <1>1, PreflightCounts
  <2> QED BY <2>1, <2>2, <2>3, <2>4
<1> QED BY <1>2, <1>3, <1>4, <1>5, <1>6, <1>7, <1>8 DEF EveryEventAccounted

LEMMA RunsStart == Init => RunInv
<1> SUFFICES ASSUME Init PROVE RunInv
  OBVIOUS
<1>1. EventList(<<>>)
  BY DEF EventList, Range, Distinct
<1>2. Started
  BY <1>1, RetryAssumption DEF Init, RunInit, Started
<1> QED BY <1>2, StartedRuns

(* The invariant of the runs, and that every event of a run is accounted   *)
(* for, whatever the endpoint answers and whatever the event plan is.      *)
THEOREM RunInvariant == Spec => []RunInv
BY DirectoryInvariant, RunsStart, RunNext, PTL DEF Spec

THEOREM Accounting == Spec => []EveryEventAccounted
BY RunInvariant, RunAccounts, PTL
=============================================================================
