------------------------ MODULE HttpBroadcastProofs ------------------------
(***************************************************************************)
(* Theorems about HttpBroadcast, for every number of events and clients    *)
(* and every size of the replay buffer and the channels.                   *)
(***************************************************************************)
EXTENDS HttpBroadcast, SequenceTheorems, TLAPS

Distinct(s)   == \A i, j \in 1..Len(s) : s[i] = s[j] => i = j
Increasing(s) == \A i, j \in 1..Len(s) : i < j => s[i] < s[j]
Below(A, B)   == \A a \in A, b \in B : a < b

(* The last event that may have been broadcast.                            *)
LastEvent == IF spc = "send" THEN next ELSE next - 1

(* Where the server goroutine is; every broadcast event has a number of    *)
(* its own.                                                                *)
ServerInv ==
    /\ spc = "send" => next <= NumEvents
    /\ spc # "send" => todo = <<>>
    /\ spc \in {"cancelled", "deaf", "closed"} => ctxDone
    /\ channel \in [Clients -> Seq(Plan)]
    /\ Len(broadcast) <= LastEvent

(* No channel is registered twice, a client has nothing before it          *)
(* registers, and a streaming one is registered until the endpoint closes. *)
SubsInv ==
    /\ Distinct(subs) /\ Distinct(todo)
    /\ \A c \in Clients : hpc[c] \in {"absent", "started"} =>
           /\ c \notin Range(subs) /\ c \notin Range(todo)
           /\ seen[c] = <<>> /\ replay[c] = <<>> /\ channel[c] = <<>>
    /\ \A c \in Clients : hpc[c] = "streaming" /\ ~ctxDone => c \in Range(subs)

(* The buffer is the end of what was broadcast, all of it until it is full.*)
BufferInv ==
    LET older == Len(broadcast) - Len(buffer)
    IN  /\ older >= 0
        /\ older = 0 \/ Len(buffer) = ReplaySize
        /\ \A i \in 1..Len(buffer) : buffer[i] = broadcast[older + i]
        /\ Increasing(buffer)
        /\ \A e \in Range(buffer) : e <= LastEvent

(* What a client was sent, what is left of its replay and what its channel *)
(* holds follow one another, and an event that is due comes after them.    *)
Held(c) == Range(seen[c]) \cup Range(replay[c]) \cup Range(channel[c])

OrderInv ==
    \A c \in Clients :
        /\ Increasing(seen[c]) /\ Increasing(replay[c])
        /\ Increasing(channel[c])
        /\ Below(Range(seen[c]), Range(replay[c]))
        /\ Below(Range(seen[c]) \cup Range(replay[c]), Range(channel[c]))
        /\ \A e \in Held(c) : e <= LastEvent
        /\ c \in Range(todo) => \A e \in Held(c) : e < next

(* What a streaming client has neither been sent, nor will be, was dropped.*)
Reaches(c) == Held(c) \cup (IF c \in Range(todo) THEN {next} ELSE {})

MissedInv ==
    \A c \in Clients : hpc[c] = "streaming" /\ ~ctxDone =>
        \A i \in 1..Len(broadcast) : i > joined[c] - ReplaySize =>
            broadcast[i] \in Reaches(c) \cup lost[c]

BroadcastInv ==
    TypeOK /\ ServerInv /\ SubsInv /\ BufferInv /\ OrderInv /\ MissedInv
-----------------------------------------------------------------------------
(* What is in a sequence, element by element.                              *)
LEMMA RangeMember ==
  ASSUME NEW S, NEW s \in Seq(S), NEW e
  PROVE  /\ e \in Range(s) <=> \E i \in 1..Len(s) : s[i] = e
         /\ Range(s) \subseteq S
  BY DEF Range

(* The empty sequence holds nothing, in any order.                         *)
LEMMA EmptySequence == Range(<<>>) = {} /\ Distinct(<<>>) /\ Increasing(<<>>)
  BY DEF Range, Distinct, Increasing

(* Appending adds an element; a new one keeps the elements distinct, a     *)
(* greater one keeps them increasing.                                      *)
LEMMA AppendOne ==
  ASSUME NEW S, NEW s \in Seq(S), NEW e \in S
  PROVE  /\ Append(s, e) \in Seq(S)
         /\ Len(Append(s, e)) = Len(s) + 1
         /\ Range(Append(s, e)) = Range(s) \cup {e}
         /\ Distinct(s) /\ e \notin Range(s) => Distinct(Append(s, e))
         /\ Increasing(s) /\ Below(Range(s), {e}) => Increasing(Append(s, e))
<1> DEFINE t == Append(s, e)
<1>1. /\ t \in Seq(S) /\ Len(t) = Len(s) + 1
      /\ t[Len(s) + 1] = e
      /\ \A i \in 1..Len(s) : t[i] = s[i]
  BY AppendProperties
<1> HIDE DEF t
<1>2. ASSUME NEW x PROVE x \in Range(t) <=> x \in Range(s) \/ x = e
  <2>1. x \in Range(t) <=> \E i \in 1..(Len(s) + 1) : t[i] = x
    BY <1>1, RangeMember
  <2>2. x \in Range(s) <=> \E i \in 1..Len(s) : s[i] = x
    BY RangeMember
  <2> QED BY <1>1, <2>1, <2>2
<1>3. Range(t) = Range(s) \cup {e}
  BY <1>2
<1>4. \A i \in 1..Len(s) : s[i] \in Range(s)
  BY RangeMember
<1>5. ASSUME Distinct(s), e \notin Range(s) PROVE Distinct(t)
  BY <1>1, <1>4, <1>5 DEF Distinct
<1>6. ASSUME Increasing(s), Below(Range(s), {e}) PROVE Increasing(t)
  BY <1>1, <1>4, <1>6 DEF Increasing, Below
<1> QED BY <1>1, <1>3, <1>5, <1>6 DEF t

(* The head of a sequence comes before what is in its tail.                *)
LEMMA HeadAndTail ==
  ASSUME NEW S, NEW s \in Seq(S), s # <<>>
  PROVE  /\ Head(s) \in S /\ Tail(s) \in Seq(S) /\ Len(Tail(s)) = Len(s) - 1
         /\ Range(s) = {Head(s)} \cup Range(Tail(s))
         /\ Distinct(s) => Distinct(Tail(s)) /\ Head(s) \notin Range(Tail(s))
         /\ Increasing(s) => /\ Increasing(Tail(s))
                             /\ Below({Head(s)}, Range(Tail(s)))
<1> DEFINE t == Tail(s)
<1>1. /\ t \in Seq(S) /\ Len(t) = Len(s) - 1 /\ Len(s) \in Nat \ {0}
      /\ Head(s) = s[1] /\ Head(s) \in S
      /\ \A i \in 1..Len(t) : t[i] = s[i + 1]
  BY HeadTailProperties, EmptySeq
<1> HIDE DEF t
<1>2. \A x : x \in Range(t) <=> \E i \in 1..Len(t) : t[i] = x
  BY <1>1, RangeMember
<1>3. \A x : x \in Range(s) <=> \E i \in 1..Len(s) : s[i] = x
  BY RangeMember
<1>4. ASSUME NEW x PROVE x \in Range(s) <=> x = Head(s) \/ x \in Range(t)
  <2>1. ASSUME NEW i \in 1..Len(s), s[i] = x, i # 1 PROVE x \in Range(t)
    <3>1. i - 1 \in 1..Len(t) /\ t[i - 1] = x
      BY <1>1, <2>1
    <3> QED BY <1>2, <3>1
  <2>2. ASSUME NEW i \in 1..Len(t), t[i] = x PROVE x \in Range(s)
    <3>1. i + 1 \in 1..Len(s) /\ s[i + 1] = x
      BY <1>1, <2>2
    <3> QED BY <1>3, <3>1
  <2>3. Head(s) \in Range(s)
    BY <1>1, <1>3
  <2> QED BY <1>1, <1>2, <1>3, <2>1, <2>2, <2>3
<1>5. Range(s) = {Head(s)} \cup Range(t)
  BY <1>4
<1>6. ASSUME Distinct(s) PROVE Distinct(t) /\ Head(s) \notin Range(t)
  BY <1>1, <1>2, <1>6 DEF Distinct
<1>7. ASSUME Increasing(s)
      PROVE  Increasing(t) /\ Below({Head(s)}, Range(t))
  BY SMTT(30), <1>1, <1>2, <1>7 DEF Increasing, Below
<1> QED BY <1>1, <1>5, <1>6, <1>7 DEF t

(* One sequence after another.                                             *)
LEMMA Concatenation ==
  ASSUME NEW S, NEW s \in Seq(S), NEW t \in Seq(S)
  PROVE  /\ s \o t \in Seq(S)
         /\ Range(s \o t) = Range(s) \cup Range(t)
         /\ Increasing(s) /\ Increasing(t) /\ Below(Range(s), Range(t))
              => Increasing(s \o t)
<1> DEFINE u == s \o t
<1>1. /\ u \in Seq(S) /\ Len(u) = Len(s) + Len(t)
      /\ \A i \in 1..(Len(s) + Len(t)) :
             u[i] = IF i <= Len(s) THEN s[i] ELSE t[i - Len(s)]
  BY ConcatProperties
<1> HIDE DEF u
<1>2. Len(s) \in Nat /\ Len(t) \in Nat
  OBVIOUS
<1>3. \A x : x \in Range(u) <=> \E i \in 1..Len(u) : u[i] = x
  BY <1>1, RangeMember
<1>4. \A x : /\ x \in Range(s) <=> \E i \in 1..Len(s) : s[i] = x
             /\ x \in Range(t) <=> \E i \in 1..Len(t) : t[i] = x
  BY RangeMember
<1>5. ASSUME NEW x PROVE x \in Range(u) <=> x \in Range(s) \/ x \in Range(t)
  <2>1. ASSUME NEW i \in 1..Len(u), u[i] = x
        PROVE  x \in Range(s) \/ x \in Range(t)
    <3>1. i <= Len(s) => i \in 1..Len(s) /\ s[i] = x
      BY <1>1, <1>2, <2>1
    <3>2. ~(i <= Len(s)) => i - Len(s) \in 1..Len(t) /\ t[i - Len(s)] = x
      BY <1>1, <1>2, <2>1
    <3> QED BY <1>4, <3>1, <3>2
  <2>2. ASSUME NEW i \in 1..Len(s), s[i] = x PROVE x \in Range(u)
    <3>1. i \in 1..Len(u) /\ u[i] = x
      BY <1>1, <1>2, <2>2
    <3> QED BY <1>3, <3>1
  <2>3. ASSUME NEW i \in 1..Len(t), t[i] = x PROVE x \in Range(u)
    <3> DEFINE k == i + Len(s)
    <3>1. k \in 1..(Len(s) + Len(t)) /\ ~(k <= Len(s)) /\ k - Len(s) = i
      BY <1>2
    <3> HIDE DEF k
    <3>2. k \in 1..Len(u) /\ u[k] = x
      BY <1>1, <2>3, <3>1
    <3> QED BY <1>3, <3>2
  <2> QED BY <1>3, <1>4, <2>1, <2>2, <2>3
<1>6. Range(u) = Range(s) \cup Range(t)
  BY <1>5
<1>7. ASSUME Increasing(s), Increasing(t), Below(Range(s), Range(t))
      PROVE  Increasing(u)
  <2>1. \A i \in 1..Len(s), j \in 1..Len(t) : s[i] < t[j]
    BY <1>4, <1>7 DEF Below
  <2>2. SUFFICES ASSUME NEW i \in 1..(Len(s) + Len(t)),
                        NEW j \in 1..(Len(s) + Len(t)), i < j
                 PROVE  u[i] < u[j]
    BY <1>1 DEF Increasing
  <2>3. CASE j <= Len(s)
    <3>1. i \in 1..Len(s) /\ j \in 1..Len(s)
      BY <1>2, <2>2, <2>3
    <3>2. u[i] = s[i] /\ u[j] = s[j]
      BY <1>1, <3>1
    <3> QED BY <1>7, <2>2, <3>1, <3>2 DEF Increasing
  <2>4. CASE i <= Len(s) /\ ~(j <= Len(s))
    <3>1. i \in 1..Len(s) /\ j - Len(s) \in 1..Len(t)
      BY <1>2, <2>4
    <3> QED BY <1>1, <2>1, <2>4, <3>1
  <2>5. CASE ~(i <= Len(s)) /\ ~(j <= Len(s))
    <3>1. /\ i - Len(s) \in 1..Len(t) /\ j - Len(s) \in 1..Len(t)
          /\ i - Len(s) < j - Len(s)
      BY <1>2, <2>2, <2>5
    <3>2. u[i] = t[i - Len(s)] /\ u[j] = t[j - Len(s)]
      BY <1>1, <2>5
    <3> QED BY <1>7, <3>1, <3>2 DEF Increasing
  <2> QED BY <1>2, <2>2, <2>3, <2>4, <2>5
<1> QED BY <1>1, <1>6, <1>7 DEF u

(* Removing an element keeps the others, in the order they had.            *)
LEMMA Removal ==
  ASSUME NEW S, NEW s \in Seq(S), NEW k \in 1..Len(s), Distinct(s)
  PROVE  /\ RemoveAt(s, k) \in Seq(S)
         /\ Distinct(RemoveAt(s, k))
         /\ Range(RemoveAt(s, k)) = Range(s) \ {s[k]}
<1> DEFINE a == SubSeq(s, 1, k - 1)
           b == SubSeq(s, k + 1, Len(s))
           t == a \o b
           from(i) == IF i < k THEN i ELSE i + 1
<1>1. Len(s) \in Nat /\ k \in Nat /\ k >= 1 /\ k <= Len(s)
  OBVIOUS
<1>2. /\ a \in Seq(S) /\ Len(a) = k - 1
      /\ \A i \in 1..(k - 1) : a[i] = s[i]
  <2>1. \A i \in 1..(k - 1) : s[i] \in S
    BY <1>1
  <2>2. /\ a \in Seq(S)
        /\ Len(a) = IF 1 <= k - 1 THEN (k - 1) - 1 + 1 ELSE 0
        /\ \A i \in 1..((k - 1) - 1 + 1) : a[i] = s[1 + i - 1]
    BY <1>1, <2>1, SubSeqProperties
  <2> QED BY <1>1, <2>2
<1>3. /\ b \in Seq(S) /\ Len(b) = Len(s) - k
      /\ \A i \in 1..(Len(s) - k) : b[i] = s[k + i]
  <2>1. \A i \in (k + 1)..Len(s) : s[i] \in S
    BY <1>1
  <2> QED BY <1>1, <2>1, SubSeqProperties
<1> HIDE DEF a, b
<1>4. /\ t \in Seq(S) /\ Len(t) = Len(s) - 1
      /\ \A i \in 1..(Len(s) - 1) :
             t[i] = IF i <= k - 1 THEN a[i] ELSE b[i - (k - 1)]
  <2>1. /\ t \in Seq(S) /\ Len(t) = Len(a) + Len(b)
        /\ \A i \in 1..(Len(a) + Len(b)) :
               t[i] = IF i <= Len(a) THEN a[i] ELSE b[i - Len(a)]
    BY <1>2, <1>3, ConcatProperties
  <2>2. Len(a) + Len(b) = Len(s) - 1
    BY <1>1, <1>2, <1>3
  <2> QED BY <1>2, <2>1, <2>2
<1> HIDE DEF t
<1>5. \A i \in 1..(Len(s) - 1) :
          from(i) \in 1..Len(s) /\ from(i) # k /\ t[i] = s[from(i)]
  BY <1>1, <1>2, <1>3, <1>4
<1>6. Distinct(t)
  <2>1. SUFFICES ASSUME NEW i \in 1..(Len(s) - 1), NEW j \in 1..(Len(s) - 1),
                        t[i] = t[j]
                 PROVE  i = j
    BY <1>4 DEF Distinct
  <2>2. s[from(i)] = s[from(j)] /\ from(i) \in 1..Len(s) /\ from(j) \in 1..Len(s)
    BY <1>5, <2>1
  <2> HIDE DEF from
  <2>3. from(i) = from(j)
    BY <2>2 DEF Distinct
  <2> QED BY <1>1, <2>3 DEF from
<1>7. ASSUME NEW x PROVE x \in Range(t) <=> x \in Range(s) /\ x # s[k]
  <2>1. /\ x \in Range(t) <=> \E i \in 1..Len(t) : t[i] = x
        /\ x \in Range(s) <=> \E i \in 1..Len(s) : s[i] = x
    BY <1>4, RangeMember
  <2>2. ASSUME NEW i \in 1..(Len(s) - 1), t[i] = x
        PROVE  x \in Range(s) /\ x # s[k]
    <3>1. from(i) \in 1..Len(s) /\ from(i) # k /\ x = s[from(i)]
      BY <1>5, <2>2
    <3> HIDE DEF from
    <3> QED BY <2>1, <3>1 DEF Distinct
  <2>3. ASSUME NEW j \in 1..Len(s), s[j] = x, j # k PROVE x \in Range(t)
    <3> DEFINE i == IF j < k THEN j ELSE j - 1
    <3>1. i \in 1..(Len(s) - 1) /\ from(i) = j
      BY <1>1, <2>3
    <3> QED BY <1>4, <1>5, <2>1, <2>3, <3>1
  <2> QED BY <1>4, <2>1, <2>2, <2>3
<1>8. Range(t) = Range(s) \ {s[k]}
  BY <1>7
<1>9. RemoveAt(s, k) = t
  BY DEF RemoveAt, t, a, b
<1> QED BY <1>4, <1>6, <1>8, <1>9

(* LastOf is the end of a sequence, aligned with it from behind.           *)
LEMMA EndOfSequence ==
  ASSUME NEW S, NEW s \in Seq(S), NEW n \in Nat \ {0}
  PROVE  /\ LastOf(s, n) \in Seq(S)
         /\ Len(LastOf(s, n)) = (IF Len(s) > n THEN n ELSE Len(s))
         /\ \A i \in 1..Len(LastOf(s, n)) :
                LastOf(s, n)[i] = s[Len(s) - Len(LastOf(s, n)) + i]
<1> DEFINE m == IF Len(s) > n THEN Len(s) - n + 1 ELSE 1
           t == SubSeq(s, m, Len(s))
<1>1. Len(s) \in Nat /\ m \in Nat /\ m >= 1
  OBVIOUS
<1>2. \A i \in m..Len(s) : s[i] \in S
  BY <1>1
<1>3. /\ t \in Seq(S)
      /\ Len(t) = IF m <= Len(s) THEN Len(s) - m + 1 ELSE 0
      /\ \A i \in 1..(Len(s) - m + 1) : t[i] = s[m + i - 1]
  <2> HIDE DEF m
  <2> QED BY <1>1, <1>2, SubSeqProperties
<1>4. LastOf(s, n) = t
  BY DEF LastOf
<1> HIDE DEF t
<1>5. Len(t) = (IF Len(s) > n THEN n ELSE Len(s))
  <2>1. CASE Len(s) > n
    <3>1. m = Len(s) - n + 1 /\ m <= Len(s)
      BY <1>1, <2>1
    <3> HIDE DEF m
    <3> QED BY <1>1, <1>3, <2>1, <3>1
  <2>2. CASE ~(Len(s) > n)
    <3>1. m = 1
      BY <1>1, <2>2
    <3> HIDE DEF m
    <3> QED BY <1>1, <1>3, <2>2, <3>1
  <2> QED BY <2>1, <2>2
<1>6. ASSUME NEW i \in 1..Len(t) PROVE t[i] = s[Len(s) - Len(t) + i]
  <2>1. m + i - 1 = Len(s) - Len(t) + i /\ i \in 1..(Len(s) - m + 1)
    BY <1>1, <1>5
  <2> HIDE DEF m
  <2> QED BY <1>3, <2>1
<1> QED BY <1>3, <1>4, <1>5, <1>6
-----------------------------------------------------------------------------
(* What the parts of a client's stream say of the whole.                   *)
LEMMA StreamParts ==
  ASSUME BroadcastInv, NEW c \in Clients
  PROVE  /\ Stream(c) \in Seq(Plan)
         /\ Range(Stream(c)) = Reaches(c)
         /\ Increasing(Stream(c))
<1> USE DEF BroadcastInv, TypeOK, ServerInv
<1> DEFINE s == seen[c]
           r == replay[c]
           h == channel[c]
           d == Due(c)
<1>1. s \in Seq(Plan) /\ r \in Seq(Plan) /\ h \in Seq(Plan)
  OBVIOUS
<1>2. \A t : t \in Range(todo) <=> \E i \in DOMAIN todo : todo[i] = t
  BY DEF Range
<1>3. /\ d \in Seq(Plan) /\ Increasing(d)
      /\ Range(d) = IF c \in Range(todo) THEN {next} ELSE {}
  <2>1. CASE c \in Range(todo)
    <3>1. d = <<next>>
      BY <1>2, <2>1 DEF Due
    <3>2. next \in Plan
      <4>1. Range(<<>>) = {}
        BY EmptySequence
      <4> QED BY <2>1, <4>1 DEF Plan
    <3>3. d \in Seq(Plan) /\ Len(d) = 1 /\ d[1] = next
      BY <3>1, <3>2
    <3>4. \A x : x \in Range(d) <=> x = next
      <4> HIDE DEF d, BroadcastInv
      <4> QED BY <3>3, RangeMember
    <3>5. Increasing(d)
      <4> HIDE DEF d, BroadcastInv
      <4> QED BY <3>3 DEF Increasing
    <3> QED BY <2>1, <3>3, <3>4, <3>5
  <2>2. CASE c \notin Range(todo)
    <3>1. d = <<>>
      BY <1>2, <2>2 DEF Due
    <3> QED BY <2>2, <3>1, EmptySequence, EmptySeq
  <2> QED BY <2>1, <2>2
<1>4. /\ Increasing(s) /\ Increasing(r) /\ Increasing(h)
      /\ Below(Range(s), Range(r))
      /\ Below(Range(s) \cup Range(r), Range(h))
      /\ Below(Range(s) \cup Range(r) \cup Range(h), Range(d))
  BY <1>3 DEF OrderInv, Held, Below
<1>5. Stream(c) = ((s \o r) \o h) \o d
  BY DEF Stream
<1>6. Reaches(c) = ((Range(s) \cup Range(r)) \cup Range(h)) \cup Range(d)
  BY <1>3 DEF Reaches, Held
<1> HIDE DEF s, r, h, d, BroadcastInv, TypeOK, ServerInv
<1> DEFINE sr == s \o r
           srh == sr \o h
<1>7. /\ sr \in Seq(Plan) /\ Range(sr) = Range(s) \cup Range(r)
      /\ Increasing(sr)
  BY <1>1, <1>4, Concatenation
<1> HIDE DEF sr
<1>8. /\ srh \in Seq(Plan) /\ Range(srh) = Range(sr) \cup Range(h)
      /\ Increasing(srh)
  <2>1. Below(Range(sr), Range(h))
    BY <1>4, <1>7 DEF Below
  <2>2. /\ sr \in Seq(Plan) /\ h \in Seq(Plan)
        /\ Increasing(sr) /\ Increasing(h)
    BY <1>1, <1>4, <1>7
  <2> QED BY <2>1, <2>2, Concatenation
<1> HIDE DEF srh
<1>9. /\ srh \o d \in Seq(Plan)
      /\ Range(srh \o d) = Range(srh) \cup Range(d)
      /\ Increasing(srh \o d)
  <2>1. Below(Range(srh), Range(d))
    BY <1>4, <1>7, <1>8 DEF Below
  <2>2. /\ srh \in Seq(Plan) /\ d \in Seq(Plan)
        /\ Increasing(srh) /\ Increasing(d)
    BY <1>3, <1>8
  <2> QED BY <2>1, <2>2, Concatenation
<1> QED BY <1>5, <1>6, <1>7, <1>8, <1>9 DEF sr, srh
-----------------------------------------------------------------------------
(* An endpoint that is opened has no clients and has broadcast nothing.    *)
LEMMA InitBroadcastInv == Init => BroadcastInv
<1> SUFFICES ASSUME Init PROVE BroadcastInv
  OBVIOUS
<1> USE BroadcastAssumption DEF Init
<1>1. <<>> \in Seq(Plan) /\ <<>> \in Seq(Clients) /\ Len(<<>>) = 0
  BY EmptySeq
<1>2. TypeOK
  <2>1. ctxDone \in BOOLEAN
    OBVIOUS
  <2>2. /\ todo \in Seq(Clients) /\ subs \in Seq(Clients)
        /\ buffer \in Seq(Plan) /\ Len(buffer) <= ReplaySize
        /\ broadcast \in Seq(Plan)
    BY <1>1
  <2>3. /\ replay \in [Clients -> Seq(Plan)] /\ seen \in [Clients -> Seq(Plan)]
        /\ \A c \in Clients :
               channel[c] \in Seq(Plan) /\ Len(channel[c]) <= ChannelSize
    BY <1>1
  <2>4. /\ hpc \in [Clients ->
                    {"absent", "started", "streaming", "leaving", "gone"}]
        /\ lost \in [Clients -> SUBSET Plan]
        /\ joined \in [Clients -> 0..NumEvents]
    OBVIOUS
  <2>5. /\ next \in 1..(NumEvents + 1)
        /\ spc \in {"loop", "send", "cancelled", "deaf", "closed"}
        /\ sent \in Nat /\ emitted \in Nat /\ failed \in Nat
        /\ shut \subseteq Clients /\ hungUp \subseteq Clients
    OBVIOUS
  <2> QED BY <2>1, <2>2, <2>3, <2>4, <2>5 DEF TypeOK
<1>3. ServerInv
  BY <1>1 DEF ServerInv, LastEvent
<1>4. SubsInv
  BY EmptySequence DEF SubsInv
<1>5. BufferInv
  BY <1>1, EmptySequence DEF BufferInv
<1>6. OrderInv
  BY EmptySequence DEF OrderInv, Held, Below
<1>7. MissedInv
  BY <1>1 DEF MissedInv
<1> QED BY <1>2, <1>3, <1>4, <1>5, <1>6, <1>7 DEF BroadcastInv

(* What a client holds are events of the plan.                             *)
LEMMA HeldInPlan ==
  ASSUME BroadcastInv
  PROVE  /\ \A c \in Clients : Held(c) \subseteq Plan
         /\ Range(buffer) \subseteq Plan
         /\ next \in Nat /\ next >= 1 /\ LastEvent \in Nat
         /\ LastEvent <= next /\ LastEvent >= next - 1
<1>1. ASSUME NEW c \in Clients PROVE Held(c) \subseteq Plan
  <2>1. seen[c] \in Seq(Plan) /\ replay[c] \in Seq(Plan)
        /\ channel[c] \in Seq(Plan)
    BY DEF BroadcastInv, TypeOK
  <2> QED BY <2>1, RangeMember DEF Held
<1>2. Range(buffer) \subseteq Plan
  BY RangeMember DEF BroadcastInv, TypeOK
<1>3. next \in Nat /\ next >= 1 /\ LastEvent \in Nat
      /\ LastEvent <= next /\ LastEvent >= next - 1
  BY BroadcastAssumption DEF BroadcastInv, TypeOK, LastEvent
<1> QED BY <1>1, <1>2, <1>3

(* What the invariant says of the clients depends on this much of a state. *)
LEMMA Frame ==
  ASSUME BroadcastInv, TypeOK', LastEvent' \in Nat, LastEvent' >= LastEvent,
         UNCHANGED <<channel, todo, seen, replay, buffer, broadcast, lost,
                     joined>>,
         next' = next \/ todo = <<>>,
         \A c \in Clients : \/ hpc'[c] = hpc[c]
                            \/ hpc'[c] \in {"started", "leaving", "gone"},
         ctxDone => ctxDone'
  PROVE  BufferInv' /\ OrderInv' /\ MissedInv'
<1> USE DEF BroadcastInv
<1>1. \A c \in Clients : Held(c)' = Held(c)
  BY DEF Held
<1>2. BufferInv'
  <2>1. \A e \in Range(buffer) : e \in Int /\ e <= LastEvent
    BY HeldInPlan DEF BufferInv, Plan
  <2>2. \A e \in Range(buffer) : e <= LastEvent'
    BY <2>1, HeldInPlan
  <2> QED BY <2>2 DEF BufferInv
<1>3. todo = <<>> => \A c \in Clients : c \notin Range(todo)
  BY EmptySequence
<1>4. OrderInv'
  <2>1. ASSUME NEW c \in Clients, NEW e \in Held(c) PROVE e <= LastEvent'
    <3>1. e \in Int
      <4>1. e \in Plan
        BY HeldInPlan
      <4> QED BY <4>1 DEF Plan
    <3>2. e <= LastEvent
      BY DEF OrderInv
    <3> QED BY <3>1, <3>2, HeldInPlan
  <2> QED BY <1>1, <1>3, <2>1 DEF OrderInv
<1>5. MissedInv'
  <2>1. \A c \in Clients : Reaches(c)' = Reaches(c)
    BY <1>1, <1>3 DEF Reaches
  <2>2. \A c \in Clients : hpc'[c] = "streaming" /\ ~ctxDone' =>
                           hpc[c] = "streaming" /\ ~ctxDone
    OBVIOUS
  <2> QED BY <2>1, <2>2 DEF MissedInv
<1> QED BY <1>2, <1>4, <1>5

(* An event that cannot be encoded has a number and is not broadcast.      *)
LEMMA UnencodableBroadcastInv ==
  BroadcastInv /\ WriteUnencodable => BroadcastInv'
<1> SUFFICES ASSUME BroadcastInv, WriteUnencodable PROVE BroadcastInv'
  OBVIOUS
<1> USE BroadcastAssumption DEF WriteUnencodable, handlerVars
<1>1. TypeOK'
  BY DEF BroadcastInv, TypeOK
<1>2. /\ LastEvent' = LastEvent + 1 /\ todo = <<>> /\ LastEvent' \in Nat
  BY DEF BroadcastInv, TypeOK, ServerInv, LastEvent
<1>3. LastEvent \in Nat
  BY HeldInPlan
<1>4. ServerInv'
  BY <1>2, <1>3 DEF BroadcastInv, TypeOK, ServerInv
<1>5. SubsInv'
  BY DEF BroadcastInv, SubsInv
<1>6. BufferInv' /\ OrderInv' /\ MissedInv'
  BY <1>1, <1>2, <1>3, Frame
<1> QED BY <1>1, <1>4, <1>5, <1>6 DEF BroadcastInv

(* Write returns when nobody is left whom the event is due to.             *)
LEMMA ReturnBroadcastInv == BroadcastInv /\ WriteReturn => BroadcastInv'
<1> SUFFICES ASSUME BroadcastInv, WriteReturn PROVE BroadcastInv'
  OBVIOUS
<1> USE BroadcastAssumption DEF WriteReturn, handlerVars
<1>1. TypeOK'
  BY DEF BroadcastInv, TypeOK, ServerInv
<1>2. LastEvent' = LastEvent /\ LastEvent \in Nat
  BY DEF BroadcastInv, TypeOK, ServerInv, LastEvent
<1>3. ServerInv'
  BY <1>2 DEF BroadcastInv, ServerInv
<1>4. SubsInv'
  BY DEF BroadcastInv, SubsInv
<1>5. BufferInv' /\ OrderInv' /\ MissedInv'
  BY <1>1, <1>2, Frame
<1> QED BY <1>1, <1>3, <1>4, <1>5 DEF BroadcastInv

(* Close: once the context is cancelled nobody is owed anything more.      *)
LEMMA CloseBroadcastInv ==
  ASSUME BroadcastInv, CloseCancel \/ CloseListener \/ CloseChannels
  PROVE  BroadcastInv'
<1> USE BroadcastAssumption
    DEF CloseCancel, CloseListener, CloseChannels, handlerVars
<1>1. Range(subs) \subseteq Clients
  BY RangeMember DEF BroadcastInv, TypeOK
<1>2. subs' \in Seq(Clients) /\ Distinct(subs')
      /\ (subs' = subs \/ Range(subs') = {})
  <2>1. CASE subs' = subs
    BY <2>1 DEF BroadcastInv, TypeOK, SubsInv
  <2>2. CASE subs' = <<>>
    BY <2>2, EmptySeq, EmptySequence
  <2> QED BY <2>1, <2>2
<1>3. TypeOK'
  BY <1>1, <1>2 DEF BroadcastInv, TypeOK
<1>4. /\ spc' # "send" /\ spc # "send"
      /\ spc' \in {"cancelled", "deaf", "closed"} => ctxDone'
      /\ ctxDone => ctxDone'
      /\ UNCHANGED <<next, todo, channel, broadcast, hpc, seen, replay>>
  BY DEF BroadcastInv, ServerInv
<1>5. LastEvent' = LastEvent /\ LastEvent \in Nat
  <2>1. LastEvent' = LastEvent
    BY <1>4 DEF LastEvent
  <2> QED BY <2>1, HeldInPlan
<1>6. ServerInv'
  BY <1>4, <1>5 DEF BroadcastInv, ServerInv
<1>7. SubsInv'
  <2>1. CASE CloseChannels
    <3>1. ctxDone'
      BY <2>1 DEF BroadcastInv, ServerInv
    <3> QED BY <1>2, <1>5, <3>1 DEF BroadcastInv, SubsInv
  <2>2. CASE CloseCancel \/ CloseListener
    BY <1>5, <2>2 DEF BroadcastInv, SubsInv
  <2> QED BY <2>1, <2>2
<1>8. BufferInv' /\ OrderInv' /\ MissedInv'
  BY <1>3, <1>4, <1>5, Frame
<1> QED BY <1>3, <1>6, <1>7, <1>8 DEF BroadcastInv
-----------------------------------------------------------------------------
(* A request arrives, a client hangs up, or its live phase ends.           *)
LEMMA ComeAndGoBroadcastInv ==
  ASSUME BroadcastInv, NEW c \in Clients,
         Connect(c) \/ HangUp(c) \/ StopStreaming(c)
  PROVE  BroadcastInv'
<1> USE DEF Connect, HangUp, StopStreaming, serverVars
<1>1. TypeOK'
  BY DEF BroadcastInv, TypeOK, handlerVars
<1>2. \A d \in Clients : \/ hpc'[d] = hpc[d]
                         \/ /\ hpc'[d] = "started" /\ hpc[d] = "absent"
                         \/ hpc'[d] = "leaving"
  BY DEF BroadcastInv, TypeOK, handlerVars
<1>3. LastEvent' = LastEvent /\ LastEvent \in Nat
  BY HeldInPlan DEF LastEvent
<1>4. ServerInv'
  BY <1>3 DEF BroadcastInv, ServerInv
<1>5. SubsInv'
  BY <1>2 DEF BroadcastInv, SubsInv, handlerVars
<1>6. BufferInv' /\ OrderInv' /\ MissedInv'
  BY <1>1, <1>2, <1>3, Frame DEF handlerVars
<1> QED BY <1>1, <1>4, <1>5, <1>6 DEF BroadcastInv

(* The channel that is unregistered is the client's own.                   *)
LEMMA UnregisterBroadcastInv ==
  ASSUME BroadcastInv, NEW c \in Clients, Unregister(c)
  PROVE  BroadcastInv'
<1> USE DEF Unregister, serverVars
<1>1. /\ subs' \in Seq(Clients) /\ Distinct(subs')
      /\ Range(subs') = Range(subs) \ {c}
  <2>1. subs \in Seq(Clients) /\ Distinct(subs)
    BY DEF BroadcastInv, TypeOK, SubsInv
  <2>2. CASE c \in Range(subs)
    <3>1. PICK i \in DOMAIN subs : subs[i] = c /\ subs' = RemoveAt(subs, i)
      BY <2>2
    <3>2. i \in 1..Len(subs)
      BY <2>1, LenProperties
    <3> QED BY <2>1, <3>1, <3>2, Removal
  <2>3. CASE c \notin Range(subs)
    BY <2>1, <2>3
  <2> QED BY <2>2, <2>3
<1>2. TypeOK'
  BY <1>1 DEF BroadcastInv, TypeOK
<1>3. hpc'[c] = "gone" /\ \A d \in Clients \ {c} : hpc'[d] = hpc[d]
  BY DEF BroadcastInv, TypeOK
<1>4. LastEvent' = LastEvent /\ LastEvent \in Nat
  BY HeldInPlan DEF LastEvent
<1>5. ServerInv'
  BY <1>4 DEF BroadcastInv, ServerInv
<1>6. SubsInv'
  BY <1>1, <1>3 DEF BroadcastInv, SubsInv
<1>7. BufferInv' /\ OrderInv' /\ MissedInv'
  BY <1>2, <1>3, <1>4, Frame
<1> QED BY <1>2, <1>5, <1>6, <1>7 DEF BroadcastInv
-----------------------------------------------------------------------------
(* Write under the mutex: the new event is greater than everything that    *)
(* was broadcast, and due to every registered client.                      *)
LEMMA RetainBroadcastInv == BroadcastInv /\ WriteRetain => BroadcastInv'
<1> SUFFICES ASSUME BroadcastInv, WriteRetain PROVE BroadcastInv'
  OBVIOUS
<1> DEFINE A == Append(buffer, next)
           L == Len(buffer)
           B == Len(broadcast)
<1>1. /\ spc = "loop" /\ next \in Plan /\ todo = <<>>
      /\ LastEvent = next - 1 /\ LastEvent' = next
      /\ \A c \in Clients : c \notin Range(todo)
  BY EmptySequence, BroadcastAssumption
  DEF WriteRetain, BroadcastInv, ServerInv, LastEvent, TypeOK, Plan
<1>2. UNCHANGED <<channel, seen, replay, hpc, subs, ctxDone, lost, joined>>
      /\ \A c \in Clients : Held(c)' = Held(c)
  BY DEF WriteRetain, handlerVars, Held
<1>3. /\ A \in Seq(Plan) /\ Len(A) = L + 1 /\ A[L + 1] = next
      /\ \A i \in 1..L : A[i] = buffer[i]
      /\ broadcast' \in Seq(Plan) /\ Len(broadcast') = B + 1
      /\ broadcast'[B + 1] = next
      /\ \A i \in 1..B : broadcast'[i] = broadcast[i]
      /\ L \in Nat /\ B \in Nat
  BY <1>1, AppendProperties DEF WriteRetain, BroadcastInv, TypeOK
<1>4. /\ Range(A) = Range(buffer) \cup {next}
      /\ Increasing(buffer) /\ Below(Range(buffer), {next}) => Increasing(A)
  <2>1. buffer \in Seq(Plan)
    BY DEF BroadcastInv, TypeOK
  <2> QED BY <1>1, <2>1, AppendOne
<1>5. buffer' = LastOf(A, ReplaySize)
  BY DEF WriteRetain
<1> HIDE DEF A
<1>6. /\ buffer' \in Seq(Plan)
      /\ Len(buffer') = (IF L + 1 > ReplaySize THEN ReplaySize ELSE L + 1)
      /\ \A i \in 1..Len(buffer') : buffer'[i] = A[(L + 1) - Len(buffer') + i]
  <2>1. ReplaySize \in Nat \ {0}
    BY BroadcastAssumption
  <2> DEFINE E == LastOf(A, ReplaySize)
  <2>2. /\ E \in Seq(Plan)
        /\ Len(E) = (IF Len(A) > ReplaySize THEN ReplaySize ELSE Len(A))
        /\ \A i \in 1..Len(E) : E[i] = A[Len(A) - Len(E) + i]
    BY <1>3, <2>1, EndOfSequence
  <2> HIDE DEF E
  <2>3. buffer' = E
    BY <1>5 DEF E
  <2> QED BY <1>3, <2>2, <2>3
<1>7. TypeOK'
  <2>1. Len(buffer') <= ReplaySize
    BY <1>3, <1>6, BroadcastAssumption
  <2>2. /\ next' \in 1..(NumEvents + 1) /\ todo' \in Seq(Clients)
        /\ sent' \in Nat /\ spc' \in {"loop", "send"}
    <3>1. /\ next \in 1..(NumEvents + 1) /\ todo \in Seq(Clients)
          /\ sent \in Nat /\ spc = "loop" /\ subs \in Seq(Clients)
          /\ next <= NumEvents /\ NumEvents \in Nat
      BY BroadcastAssumption DEF WriteRetain, BroadcastInv, TypeOK
    <3>2. \/ next' = next + 1 /\ UNCHANGED <<spc, todo, sent>>
          \/ spc' = "send" /\ todo' = subs /\ sent' = 0 /\ UNCHANGED next
      BY DEF WriteRetain
    <3> QED BY <3>1, <3>2
  <2> QED BY <1>3, <1>6, <2>1, <2>2
          DEF WriteRetain, handlerVars, BroadcastInv, TypeOK
<1>8. ServerInv'
  <2>1. spc' = "send" => next' <= NumEvents
    BY <1>1 DEF WriteRetain
  <2>2. spc' # "send" => todo' = <<>>
    BY <1>1 DEF WriteRetain
  <2>3. spc' \in {"loop", "send"}
    BY <1>1 DEF WriteRetain
  <2>4. Len(broadcast') <= LastEvent'
    BY <1>1, <1>3 DEF BroadcastInv, ServerInv, Plan
  <2> QED BY <1>2, <2>1, <2>2, <2>3, <2>4 DEF BroadcastInv, ServerInv
<1>9. SubsInv'
  <2>1. todo' = todo \/ todo' = subs
    BY DEF WriteRetain
  <2> QED BY <1>2, <2>1 DEF BroadcastInv, SubsInv
<1>10. Below(Range(buffer), {next})
  <2>1. ASSUME NEW e \in Range(buffer) PROVE e < next
    <3>1. e \in Int /\ e <= next - 1
      BY <1>1, HeldInPlan DEF BroadcastInv, BufferInv, Plan
    <3> QED BY <1>1, <3>1 DEF Plan
  <2> QED BY <2>1 DEF Below
<1>11. BufferInv'
  <2> DEFINE older == B - L
             M == Len(buffer')
             Index(i) == (L + 1) - M + i
  <2>1. /\ older >= 0 /\ (older = 0 \/ L = ReplaySize) /\ Increasing(buffer)
        /\ \A i \in 1..L : buffer[i] = broadcast[older + i]
    BY DEF BroadcastInv, BufferInv
  <2>2. /\ M \in Nat /\ M <= L + 1 /\ older \in Int
        /\ (B + 1) - M >= 0
        /\ (B + 1) - M = 0 \/ M = ReplaySize
    BY <1>3, <1>6, <2>1, BroadcastAssumption
  <2>3. \A i \in 1..M : /\ Index(i) \in 1..(L + 1)
                        /\ older + Index(i) = (B + 1) - M + i
                        /\ buffer'[i] = A[Index(i)]
    <3>1. ASSUME NEW i \in 1..M
          PROVE  /\ Index(i) \in 1..(L + 1)
                 /\ older + Index(i) = (B + 1) - M + i
      <4> HIDE DEF L, B, M
      <4> QED BY <1>3, <2>2
    <3> QED BY <1>6, <3>1
  <2>4. Increasing(A)
    BY <1>10, <1>4, <2>1
  <2>5. \A i, j \in 1..M : i < j => Index(i) < Index(j)
    BY <1>3, <2>2
  <2> HIDE DEF Index, M, older
  <2>6. ASSUME NEW i \in 1..M PROVE buffer'[i] = broadcast'[(B + 1) - M + i]
    <3>1. CASE Index(i) = L + 1
      <4>1. older + Index(i) = B + 1
        BY <1>3, <3>1 DEF older
      <4> QED BY <1>3, <2>3, <3>1, <4>1
    <3>2. CASE Index(i) # L + 1
      <4>1. Index(i) \in 1..L
        BY <1>3, <2>3, <3>2
      <4>2. older + Index(i) \in 1..B
        BY <1>3, <2>1, <4>1 DEF older
      <4> QED BY <1>3, <2>1, <2>3, <4>1, <4>2
    <3> QED BY <3>1, <3>2
  <2>7. Increasing(buffer')
    <3>1. SUFFICES ASSUME NEW i \in 1..M, NEW j \in 1..M, i < j
                   PROVE  buffer'[i] < buffer'[j]
      BY DEF Increasing, M
    <3>2. Index(i) < Index(j)
      BY <2>5, <3>1
    <3>3. A[Index(i)] < A[Index(j)]
      BY <1>3, <2>3, <2>4, <3>2 DEF Increasing
    <3> QED BY <2>3, <3>3
  <2>8. \A e \in Range(buffer') : e <= next
    <3>1. ASSUME NEW e \in Range(A) PROVE e <= next
      <4>1. e \in Range(buffer) => e < next /\ e \in Int
        BY <1>10, HeldInPlan DEF Below, Plan
      <4> QED BY <1>1, <1>4, <3>1, <4>1 DEF Plan
    <3>2. \A i \in 1..M : buffer'[i] \in Range(A)
      BY <1>3, <2>3, RangeMember
    <3>3. \A e : e \in Range(buffer') <=> \E i \in 1..M : buffer'[i] = e
      BY <1>6, RangeMember DEF M
    <3> QED BY <3>1, <3>2, <3>3
  <2> QED BY <1>1, <1>3, <2>2, <2>6, <2>7, <2>8 DEF BufferInv, M
<1>12. OrderInv'
  <2>1. ASSUME NEW c \in Clients, NEW e \in Held(c)
        PROVE  e <= next /\ e < next
    <3>1. e \in Int
      <4>1. e \in Plan
        BY HeldInPlan
      <4> QED BY <4>1 DEF Plan
    <3>2. e <= next - 1
      BY <1>1 DEF BroadcastInv, OrderInv
    <3> QED BY <1>1, <3>1, <3>2 DEF Plan
  <2>2. ASSUME NEW c \in Clients, c \in Range(todo') PROVE next' = next
    BY <1>1, <2>2 DEF WriteRetain
  <2> QED BY <1>1, <1>2, <2>1, <2>2 DEF BroadcastInv, OrderInv
<1>13. MissedInv'
  <2>1. SUFFICES ASSUME NEW c \in Clients, hpc[c] = "streaming", ~ctxDone,
                        NEW i \in 1..(B + 1), i > joined[c] - ReplaySize
                 PROVE  broadcast'[i] \in Reaches(c)' \cup lost[c]
    BY <1>2, <1>3 DEF MissedInv
  <2>2. c \in Range(subs) /\ subs # <<>>
    BY <2>1, EmptySequence DEF BroadcastInv, SubsInv
  <2>3. todo' = subs /\ next' = next
    BY <2>2 DEF WriteRetain
  <2>4. Reaches(c)' = Held(c) \cup {next} /\ Reaches(c) = Held(c)
    BY <1>1, <1>2, <2>2, <2>3 DEF Reaches
  <2>5. CASE i = B + 1
    BY <1>3, <2>4, <2>5
  <2>6. CASE i # B + 1
    <3>1. i \in 1..B
      BY <1>3, <2>6
    <3>2. broadcast[i] \in Reaches(c) \cup lost[c]
      BY <2>1, <3>1 DEF BroadcastInv, MissedInv
    <3> QED BY <1>3, <2>4, <3>1, <3>2
  <2> QED BY <2>5, <2>6
<1> QED BY <1>7, <1>8, <1>9, <1>11, <1>12, <1>13 DEF BroadcastInv

(* The channel that the event is sent to next, and those after it.         *)
LEMMA NextDue ==
  ASSUME BroadcastInv, spc = "send", todo # <<>>
  PROVE  /\ Head(todo) \in Clients /\ Tail(todo) \in Seq(Clients)
         /\ Distinct(Tail(todo))
         /\ Range(todo) = {Head(todo)} \cup Range(Tail(todo))
         /\ Head(todo) \notin Range(Tail(todo))
         /\ hpc[Head(todo)] \notin {"absent", "started"}
         /\ next \in Plan
         /\ Below(Held(Head(todo)), {next})
<1> USE DEF BroadcastInv
<1>1. todo \in Seq(Clients) /\ Distinct(todo)
  BY DEF TypeOK, SubsInv
<1>2. /\ Head(todo) \in Clients /\ Tail(todo) \in Seq(Clients)
      /\ Distinct(Tail(todo))
      /\ Range(todo) = {Head(todo)} \cup Range(Tail(todo))
      /\ Head(todo) \notin Range(Tail(todo))
  BY <1>1, HeadAndTail
<1>3. hpc[Head(todo)] \notin {"absent", "started"}
  BY <1>2 DEF SubsInv
<1>4. next \in Plan
  BY DEF ServerInv, TypeOK, Plan
<1>5. Below(Held(Head(todo)), {next})
  BY <1>2 DEF OrderInv, Below
<1> QED BY <1>2, <1>3, <1>4, <1>5

(* An event that goes into a channel was due to it, and comes last.        *)
LEMMA SendBroadcastInv == BroadcastInv /\ WriteSend => BroadcastInv'
<1> SUFFICES ASSUME BroadcastInv, WriteSend PROVE BroadcastInv'
  OBVIOUS
<1>1. PICK h \in Clients : h = Head(todo)
  BY NextDue DEF WriteSend
<1>2. /\ h \in Clients /\ todo' = Tail(todo) /\ todo' \in Seq(Clients)
      /\ Distinct(todo')
      /\ Range(todo) = {h} \cup Range(todo') /\ h \notin Range(todo')
      /\ hpc[h] \notin {"absent", "started"} /\ next \in Plan
      /\ Below(Held(h), {next})
  BY <1>1, NextDue DEF WriteSend
<1>3. /\ channel' = [channel EXCEPT ![h] = Append(@, next)]
      /\ Len(channel[h]) < ChannelSize
      /\ UNCHANGED <<next, spc, ctxDone, buffer, subs, hpc, seen, replay,
                     lost, broadcast, joined>>
  BY <1>1 DEF WriteSend, handlerVars
<1>4. /\ channel \in [Clients -> Seq(Plan)]
      /\ seen \in [Clients -> Seq(Plan)] /\ replay \in [Clients -> Seq(Plan)]
  BY DEF BroadcastInv, TypeOK, ServerInv
<1>5. /\ channel' \in [Clients -> Seq(Plan)]
      /\ channel'[h] = Append(channel[h], next)
      /\ \A c \in Clients \ {h} : channel'[c] = channel[c]
  BY <1>2, <1>3, <1>4, AppendProperties
<1>6. /\ Len(channel'[h]) = Len(channel[h]) + 1
      /\ Range(channel'[h]) = Range(channel[h]) \cup {next}
      /\ Increasing(channel[h]) /\ Below(Range(channel[h]), {next})
            => Increasing(channel'[h])
  <2> DEFINE k == channel[h]
             l == Append(k, next)
  <2>1. k \in Seq(Plan) /\ next \in Plan
    BY <1>2, <1>4
  <2> HIDE DEF k
  <2>2. /\ Len(l) = Len(k) + 1 /\ Range(l) = Range(k) \cup {next}
        /\ Increasing(k) /\ Below(Range(k), {next}) => Increasing(l)
    BY <2>1, AppendOne
  <2> QED BY <1>5, <2>2 DEF k
<1>7. /\ Held(h)' = Held(h) \cup {next}
      /\ \A c \in Clients \ {h} : Held(c)' = Held(c)
  BY <1>3, <1>5, <1>6 DEF Held
<1>8. LastEvent' = LastEvent /\ LastEvent = next
  BY <1>3 DEF LastEvent, WriteSend
<1>9. TypeOK'
  <2>1. ASSUME NEW c \in Clients
        PROVE  channel'[c] \in Seq(Plan) /\ Len(channel'[c]) <= ChannelSize
    <3>1. CASE c = h
      BY <1>2, <1>3, <1>4, <1>5, <1>6, <3>1, BroadcastAssumption
    <3>2. CASE c # h
      BY <1>4, <1>5, <3>2 DEF BroadcastInv, TypeOK
    <3> QED BY <3>1, <3>2
  <2>2. sent' \in Nat
    BY DEF WriteSend, BroadcastInv, TypeOK
  <2>3. UNCHANGED <<next, spc, emitted, failed, ctxDone, buffer, subs, shut,
                    hpc, replay, seen, hungUp, lost, broadcast, joined>>
    BY DEF WriteSend, handlerVars
  <2> QED BY <1>2, <2>1, <2>2, <2>3 DEF BroadcastInv, TypeOK
<1>10. ServerInv'
  BY <1>3, <1>5, <1>8 DEF BroadcastInv, ServerInv, WriteSend
<1>11. SubsInv'
  BY <1>2, <1>3, <1>5 DEF BroadcastInv, SubsInv
<1>12. BufferInv'
  BY <1>3, <1>8 DEF BroadcastInv, BufferInv
<1>13. OrderInv'
  <2>1. ASSUME NEW c \in Clients, c # h
        PROVE  /\ Increasing(seen[c]) /\ Increasing(replay[c])
               /\ Increasing(channel'[c])
               /\ Below(Range(seen[c]), Range(replay[c]))
               /\ Below(Range(seen[c]) \cup Range(replay[c]), Range(channel'[c]))
               /\ \A e \in Held(c)' : e <= LastEvent
               /\ c \in Range(todo') => \A e \in Held(c)' : e < next
    BY <1>2, <1>5, <1>7, <2>1 DEF BroadcastInv, OrderInv
  <2>2. /\ Increasing(seen[h]) /\ Increasing(replay[h])
        /\ Below(Range(seen[h]), Range(replay[h]))
        /\ Increasing(channel[h])
        /\ Below(Range(seen[h]) \cup Range(replay[h]), Range(channel[h]))
        /\ \A e \in Held(h) : e <= LastEvent
    BY <1>2 DEF BroadcastInv, OrderInv
  <2>3. Increasing(channel'[h])
    BY <1>2, <1>6, <2>2 DEF Below, Held
  <2>4. Below(Range(seen[h]) \cup Range(replay[h]), Range(channel'[h]))
    BY <1>2, <1>6, <2>2 DEF Below, Held
  <2>5. \A e \in Held(h)' : e <= LastEvent
    BY <1>2, <1>7, <1>8, <2>2 DEF Plan
  <2> QED BY <1>2, <1>3, <1>8, <2>1, <2>2, <2>3, <2>4, <2>5 DEF OrderInv
<1>14. MissedInv'
  <2>1. \A c \in Clients : Reaches(c)' = Reaches(c)
    BY <1>2, <1>3, <1>7 DEF Reaches
  <2> QED BY <1>3, <2>1 DEF BroadcastInv, MissedInv
<1> QED BY <1>9, <1>10, <1>11, <1>12, <1>13, <1>14 DEF BroadcastInv

(* An event that is dropped for a client is not due to it any more.        *)
LEMMA TimeoutBroadcastInv == BroadcastInv /\ WriteTimeout => BroadcastInv'
<1> SUFFICES ASSUME BroadcastInv, WriteTimeout PROVE BroadcastInv'
  OBVIOUS
<1> DEFINE h == Head(todo)
<1>1. /\ h \in Clients /\ todo' = Tail(todo) /\ todo' \in Seq(Clients)
      /\ Distinct(todo')
      /\ Range(todo) = {h} \cup Range(todo') /\ h \notin Range(todo')
      /\ next \in Plan
  BY NextDue DEF WriteTimeout
<1>2. /\ lost' = [lost EXCEPT ![h] = @ \cup {next}]
      /\ UNCHANGED <<next, spc, ctxDone, buffer, subs, hpc, seen, replay,
                     channel, broadcast, joined>>
  BY DEF WriteTimeout, handlerVars
<1> HIDE DEF h
<1>3. /\ lost' \in [Clients -> SUBSET Plan]
      /\ lost'[h] = lost[h] \cup {next}
      /\ \A c \in Clients \ {h} : lost'[c] = lost[c]
  BY <1>1, <1>2 DEF BroadcastInv, TypeOK
<1>4. LastEvent' = LastEvent /\ \A c \in Clients : Held(c)' = Held(c)
  BY <1>2 DEF LastEvent, Held
<1>5. TypeOK'
  BY <1>1, <1>3 DEF WriteTimeout, handlerVars, BroadcastInv, TypeOK
<1>6. ServerInv'
  BY <1>2, <1>4 DEF BroadcastInv, ServerInv, WriteTimeout
<1>7. SubsInv' /\ BufferInv'
  BY <1>1, <1>2, <1>4 DEF BroadcastInv, SubsInv, BufferInv
<1>8. OrderInv'
  BY <1>1, <1>2, <1>4 DEF BroadcastInv, OrderInv
<1>9. MissedInv'
  <2>1. \A c \in Clients : Reaches(c) \cup lost[c] \subseteq Reaches(c)' \cup lost'[c]
    BY <1>1, <1>2, <1>3, <1>4 DEF Reaches
  <2> QED BY <1>2, <2>1 DEF BroadcastInv, MissedInv
<1> QED BY <1>5, <1>6, <1>7, <1>8, <1>9 DEF BroadcastInv
-----------------------------------------------------------------------------
(* A handler takes the buffer and registers in one critical section: what  *)
(* is broadcast later comes after what it copied.                          *)
LEMMA RegisterBroadcastInv ==
  ASSUME BroadcastInv, NEW c \in Clients, Register(c)
  PROVE  BroadcastInv'
<1> DEFINE L == Len(buffer)
           B == Len(broadcast)
<1>1. /\ seen[c] = <<>> /\ channel[c] = <<>>
      /\ c \notin Range(subs) /\ c \notin Range(todo)
  BY DEF Register, BroadcastInv, SubsInv
<1>2. UNCHANGED <<next, spc, todo, ctxDone, buffer, channel, seen, lost,
                  broadcast>>
  BY DEF Register, serverVars
<1>3. /\ subs' \in Seq(Clients) /\ Distinct(subs')
      /\ Range(subs') = Range(subs) \cup {c}
  <2>1. subs \in Seq(Clients) /\ Distinct(subs)
    BY DEF BroadcastInv, TypeOK, SubsInv
  <2>2. subs' = Append(subs, c)
    BY DEF Register
  <2>3. /\ Append(subs, c) \in Seq(Clients)
        /\ Distinct(Append(subs, c))
        /\ Range(Append(subs, c)) = Range(subs) \cup {c}
    BY ZenonT(30), <1>1, <2>1, AppendOne
  <2> QED BY <2>2, <2>3
<1>4. /\ hpc'[c] = "streaming" /\ replay'[c] = buffer
      /\ joined'[c] = B
      /\ \A d \in Clients \ {c} : /\ hpc'[d] = hpc[d]
                                  /\ replay'[d] = replay[d]
                                  /\ joined'[d] = joined[d]
  BY DEF Register, BroadcastInv, TypeOK
<1>5. LastEvent' = LastEvent /\ LastEvent <= NumEvents
  BY <1>2, BroadcastAssumption
  DEF LastEvent, BroadcastInv, ServerInv, TypeOK
<1>6. B \in 0..NumEvents
  <2>1. B \in Nat /\ B <= LastEvent
    BY DEF BroadcastInv, ServerInv, TypeOK
  <2> QED BY <1>5, <2>1, HeldInPlan, BroadcastAssumption
<1>7. TypeOK'
  <2>1. joined' \in [Clients -> 0..NumEvents]
    BY <1>6 DEF Register, BroadcastInv, TypeOK
  <2>2. replay' \in [Clients -> Seq(Plan)]
    BY DEF Register, BroadcastInv, TypeOK
  <2> QED BY <1>3, <2>1, <2>2 DEF Register, serverVars, BroadcastInv, TypeOK
<1>8. ServerInv'
  BY <1>2, <1>5 DEF BroadcastInv, ServerInv
<1>9. SubsInv'
  BY <1>2, <1>3, <1>4 DEF BroadcastInv, SubsInv
<1>10. BufferInv'
  BY <1>2, <1>5 DEF BroadcastInv, BufferInv
<1>11. /\ Held(c)' = Range(buffer)
       /\ \A d \in Clients \ {c} : Held(d)' = Held(d)
  <2>1. Range(seen[c]) = {} /\ Range(channel[c]) = {}
    BY <1>1, EmptySequence
  <2> QED BY <1>2, <1>4, <2>1 DEF Held
<1>12. OrderInv'
  <2>1. /\ Increasing(seen[c]) /\ Increasing(channel[c])
        /\ Range(seen[c]) = {} /\ Range(channel[c]) = {}
    BY <1>1, EmptySequence
  <2>2. Increasing(buffer) /\ \A e \in Range(buffer) : e <= LastEvent
    BY DEF BroadcastInv, BufferInv
  <2>3. ASSUME NEW d \in Clients
        PROVE  /\ Increasing(seen[d]) /\ Increasing(replay'[d])
               /\ Increasing(channel[d])
               /\ Below(Range(seen[d]), Range(replay'[d]))
               /\ Below(Range(seen[d]) \cup Range(replay'[d]), Range(channel[d]))
               /\ \A e \in Held(d)' : e <= LastEvent
               /\ d \in Range(todo) => \A e \in Held(d)' : e < next
    <3>1. CASE d = c
      BY <1>1, <1>4, <1>11, <2>1, <2>2, <3>1 DEF Below
    <3>2. CASE d # c
      BY <1>4, <1>11, <3>2 DEF BroadcastInv, OrderInv
    <3> QED BY <3>1, <3>2
  <2> QED BY <1>2, <1>5, <2>3 DEF OrderInv
<1>13. MissedInv'
  <2>1. SUFFICES ASSUME NEW d \in Clients, hpc'[d] = "streaming", ~ctxDone,
                        NEW i \in 1..B, i > joined'[d] - ReplaySize
                 PROVE  broadcast[i] \in Reaches(d)' \cup lost[d]
    BY <1>2 DEF MissedInv
  <2>2. CASE d = c
    <3> DEFINE older == B - L
    <3>1. /\ older >= 0 /\ (older = 0 \/ L = ReplaySize)
          /\ \A k \in 1..L : buffer[k] = broadcast[older + k]
          /\ L \in Nat /\ B \in Nat
      BY DEF BroadcastInv, BufferInv, TypeOK
    <3>2. i > B - ReplaySize
      BY <1>4, <2>1, <2>2
    <3>3. i - older \in 1..L /\ older + (i - older) = i
      BY <3>1, <3>2, BroadcastAssumption
    <3>4. broadcast[i] \in Range(buffer)
      <4>1. buffer[i - older] = broadcast[i]
        BY <3>1, <3>3
      <4>2. buffer \in Seq(Plan)
        BY DEF BroadcastInv, TypeOK
      <4> HIDE DEF older
      <4> QED BY <3>3, <4>1, <4>2, RangeMember
    <3> QED BY <1>11, <2>2, <3>4 DEF Reaches
  <2>3. CASE d # c
    <3>1. Reaches(d)' = Reaches(d) /\ hpc[d] = "streaming"
          /\ joined'[d] = joined[d]
      BY <1>2, <1>4, <1>11, <2>1, <2>3 DEF Reaches
    <3> QED BY <2>1, <3>1 DEF BroadcastInv, MissedInv
  <2> QED BY <2>2, <2>3
<1> QED BY <1>7, <1>8, <1>9, <1>10, <1>12, <1>13 DEF BroadcastInv

(* A handler moves the first of the events it holds to its client: what    *)
(* the client is sent and will be sent stays the same sequence.            *)
LEMMA WriteClientBroadcastInv ==
  ASSUME BroadcastInv, NEW c \in Clients, WriteReplayed(c) \/ WriteLive(c)
  PROVE  BroadcastInv'
<1>1. /\ UNCHANGED <<next, spc, todo, ctxDone, buffer, subs, hpc, lost,
                     broadcast, joined>>
      /\ UNCHANGED <<sent, emitted, failed, shut, hungUp>>
      /\ hpc[c] = "streaming"
  BY DEF WriteReplayed, WriteLive, serverVars
<1>2. /\ seen \in [Clients -> Seq(Plan)] /\ replay \in [Clients -> Seq(Plan)]
      /\ channel \in [Clients -> Seq(Plan)]
      /\ Len(channel[c]) \in Nat /\ Len(channel[c]) <= ChannelSize
  BY SMTT(30) DEF BroadcastInv, TypeOK, ServerInv
<1>3. \A d \in Clients \ {c} : /\ seen'[d] = seen[d]
                               /\ replay'[d] = replay[d]
                               /\ channel'[d] = channel[d]
  BY <1>2 DEF WriteReplayed, WriteLive
<1>4. /\ Increasing(seen[c]) /\ Increasing(replay[c]) /\ Increasing(channel[c])
      /\ Below(Range(seen[c]), Range(replay[c]))
      /\ Below(Range(seen[c]) \cup Range(replay[c]), Range(channel[c]))
  BY DEF BroadcastInv, OrderInv
<1>5. /\ seen' \in [Clients -> Seq(Plan)] /\ replay' \in [Clients -> Seq(Plan)]
      /\ channel' \in [Clients -> Seq(Plan)]
      /\ Len(channel'[c]) <= ChannelSize
      /\ Held(c)' = Held(c)
      /\ Increasing(seen'[c]) /\ Increasing(replay'[c])
      /\ Increasing(channel'[c])
      /\ Below(Range(seen'[c]), Range(replay'[c]))
      /\ Below(Range(seen'[c]) \cup Range(replay'[c]), Range(channel'[c]))
  <2> DEFINE s == seen[c]
             r == replay[c]
             h == channel[c]
  <2>1. s \in Seq(Plan) /\ r \in Seq(Plan) /\ h \in Seq(Plan)
    BY <1>2
  <2>2. CASE WriteReplayed(c)
    <3>1. /\ r # <<>> /\ channel' = channel
          /\ seen' = [seen EXCEPT ![c] = Append(s, Head(r))]
          /\ replay' = [replay EXCEPT ![c] = Tail(r)]
      BY <2>2 DEF WriteReplayed
    <3> HIDE DEF s, r, h
    <3>2. /\ Head(r) \in Plan /\ Tail(r) \in Seq(Plan)
          /\ Range(r) = {Head(r)} \cup Range(Tail(r))
          /\ Increasing(r) => /\ Increasing(Tail(r))
                              /\ Below({Head(r)}, Range(Tail(r)))
      BY <2>1, <3>1, HeadAndTail
    <3>3. /\ Append(s, Head(r)) \in Seq(Plan)
          /\ Range(Append(s, Head(r))) = Range(s) \cup {Head(r)}
          /\ Increasing(s) /\ Below(Range(s), {Head(r)})
               => Increasing(Append(s, Head(r)))
      <4> DEFINE e == Head(r)
      <4>1. e \in Plan /\ s \in Seq(Plan)
        BY <2>1, <3>2
      <4> HIDE DEF e
      <4>2. /\ Append(s, e) \in Seq(Plan)
            /\ Range(Append(s, e)) = Range(s) \cup {e}
            /\ Increasing(s) /\ Below(Range(s), {e})
                 => Increasing(Append(s, e))
        BY <4>1, AppendOne
      <4> QED BY <4>2 DEF e
    <3>4. /\ seen'[c] = Append(s, Head(r)) /\ replay'[c] = Tail(r)
          /\ channel'[c] = h
          /\ seen' \in [Clients -> Seq(Plan)]
          /\ replay' \in [Clients -> Seq(Plan)]
      BY <1>2, <3>1, <3>2, <3>3 DEF h
    <3>5. /\ Increasing(s) /\ Increasing(r) /\ Increasing(h)
          /\ Below(Range(s), Range(r))
          /\ Below(Range(s) \cup Range(r), Range(h))
      BY <1>4 DEF s, r, h
    <3>6. Held(c)' = Held(c)
      BY <3>2, <3>3, <3>4 DEF Held, s, r, h
    <3>7. Increasing(seen'[c]) /\ Increasing(replay'[c])
      BY <3>2, <3>3, <3>4, <3>5 DEF Below
    <3>8. Below(Range(seen'[c]), Range(replay'[c]))
      BY <3>2, <3>3, <3>4, <3>5 DEF Below
    <3>9. Below(Range(seen'[c]) \cup Range(replay'[c]), Range(channel'[c]))
      BY <3>2, <3>3, <3>4, <3>5 DEF Below
    <3> QED BY <1>2, <3>1, <3>4, <3>5, <3>6, <3>7, <3>8, <3>9
  <2>3. CASE WriteLive(c)
    <3>1. /\ h # <<>> /\ r = <<>> /\ replay' = replay
          /\ seen' = [seen EXCEPT ![c] = Append(s, Head(h))]
          /\ channel' = [channel EXCEPT ![c] = Tail(h)]
      BY <2>3 DEF WriteLive
    <3> HIDE DEF s, r, h
    <3>2. /\ Head(h) \in Plan /\ Tail(h) \in Seq(Plan)
          /\ Len(Tail(h)) = Len(h) - 1
          /\ Range(h) = {Head(h)} \cup Range(Tail(h))
          /\ Increasing(h) => /\ Increasing(Tail(h))
                              /\ Below({Head(h)}, Range(Tail(h)))
      BY <2>1, <3>1, HeadAndTail
    <3>3. /\ Append(s, Head(h)) \in Seq(Plan)
          /\ Range(Append(s, Head(h))) = Range(s) \cup {Head(h)}
          /\ Increasing(s) /\ Below(Range(s), {Head(h)})
               => Increasing(Append(s, Head(h)))
      <4> DEFINE e == Head(h)
      <4>1. e \in Plan /\ s \in Seq(Plan)
        BY <2>1, <3>2
      <4> HIDE DEF e
      <4>2. /\ Append(s, e) \in Seq(Plan)
            /\ Range(Append(s, e)) = Range(s) \cup {e}
            /\ Increasing(s) /\ Below(Range(s), {e})
                 => Increasing(Append(s, e))
        BY <4>1, AppendOne
      <4> QED BY <4>2 DEF e
    <3>4. /\ seen'[c] = Append(s, Head(h)) /\ channel'[c] = Tail(h)
          /\ replay'[c] = r
          /\ seen' \in [Clients -> Seq(Plan)]
          /\ channel' \in [Clients -> Seq(Plan)]
      BY <1>2, <3>1, <3>2, <3>3 DEF r
    <3>5. /\ Increasing(s) /\ Increasing(r) /\ Increasing(h)
          /\ Below(Range(s) \cup Range(r), Range(h))
          /\ Range(r) = {}
      BY <1>4, <3>1, EmptySequence DEF s, r, h
    <3>6. Held(c)' = Held(c)
      BY <3>2, <3>3, <3>4 DEF Held, s, r, h
    <3>7. Increasing(seen'[c]) /\ Increasing(channel'[c])
      BY <3>2, <3>3, <3>4, <3>5 DEF Below
    <3>8. Below(Range(seen'[c]), Range(replay'[c]))
      BY <3>4, <3>5 DEF Below
    <3>9. Below(Range(seen'[c]) \cup Range(replay'[c]), Range(channel'[c]))
      BY <3>2, <3>3, <3>4, <3>5 DEF Below
    <3>10. Len(channel'[c]) <= ChannelSize
      BY <1>2, <3>2, <3>4, BroadcastAssumption DEF h
    <3> QED BY <1>2, <3>1, <3>4, <3>5, <3>6, <3>7, <3>8, <3>9, <3>10
  <2> QED BY <2>2, <2>3
<1>6. \A d \in Clients : Held(d)' = Held(d)
  BY <1>3, <1>5 DEF Held
<1>7. LastEvent' = LastEvent
  BY <1>1 DEF LastEvent
<1>8. TypeOK'
  <2>1. \A d \in Clients :
            channel'[d] \in Seq(Plan) /\ Len(channel'[d]) <= ChannelSize
    BY <1>3, <1>5 DEF BroadcastInv, TypeOK
  <2> QED BY <1>1, <1>5, <2>1 DEF BroadcastInv, TypeOK
<1>9. ServerInv'
  BY <1>1, <1>5, <1>7 DEF BroadcastInv, ServerInv
<1>10. SubsInv'
  BY <1>1, <1>3 DEF BroadcastInv, SubsInv
<1>11. BufferInv'
  BY <1>1, <1>7 DEF BroadcastInv, BufferInv
<1>12. OrderInv'
  BY <1>1, <1>3, <1>5, <1>6, <1>7 DEF BroadcastInv, OrderInv
<1>13. MissedInv'
  BY <1>1, <1>6 DEF BroadcastInv, MissedInv, Reaches
<1> QED BY <1>8, <1>9, <1>10, <1>11, <1>12, <1>13 DEF BroadcastInv
-----------------------------------------------------------------------------
(* The invariant holds in every reachable state.                           *)
THEOREM BroadcastInvariant == Spec => []BroadcastInv
<1>1. Init => BroadcastInv
  BY InitBroadcastInv
<1>2. BroadcastInv /\ [Next]_vars => BroadcastInv'
  <2> SUFFICES ASSUME BroadcastInv, [Next]_vars PROVE BroadcastInv'
    OBVIOUS
  <2>1. CASE WriteUnencodable \/ WriteRetain
    BY <2>1, UnencodableBroadcastInv, RetainBroadcastInv
  <2>2. CASE WriteStep
    BY <2>2, SendBroadcastInv, TimeoutBroadcastInv, ReturnBroadcastInv
    DEF WriteStep
  <2>3. CASE CloseCancel \/ CloseListener \/ CloseChannels
    BY <2>3, CloseBroadcastInv
  <2>4. ASSUME NEW c \in Clients, Connect(c) \/ HangUp(c) PROVE BroadcastInv'
    BY <2>4, ComeAndGoBroadcastInv
  <2>5. ASSUME NEW c \in Clients, Handler(c) PROVE BroadcastInv'
    BY <2>5, RegisterBroadcastInv, WriteClientBroadcastInv,
       ComeAndGoBroadcastInv, UnregisterBroadcastInv
    DEF Handler
  <2>6. CASE UNCHANGED vars
    <3> USE <2>6 DEF vars, serverVars, handlerVars
    <3>1. TypeOK' /\ SubsInv'
      BY DEF BroadcastInv, TypeOK, SubsInv
    <3>2. LastEvent' = LastEvent
      BY DEF LastEvent
    <3>3. ServerInv' /\ BufferInv'
      BY <3>2 DEF BroadcastInv, ServerInv, BufferInv
    <3>4. OrderInv' /\ MissedInv'
      BY <3>2 DEF BroadcastInv, OrderInv, MissedInv, Reaches, Held
    <3> QED BY <3>1, <3>3, <3>4 DEF BroadcastInv
  <2> QED BY <2>1, <2>2, <2>3, <2>4, <2>5, <2>6 DEF Next
<1> QED BY <1>1, <1>2, PTL DEF Spec

(* Every variable keeps its type; the buffer and the channels never hold   *)
(* more than they may.                                                     *)
THEOREM BroadcastTypesHold == Spec => []TypeOK
<1>1. BroadcastInv => TypeOK
  BY DEF BroadcastInv
<1> QED BY <1>1, BroadcastInvariant, PTL

(* No client of http_server.go sees an event twice or out of order, however*)
(* its registration falls between the critical sections of Write.          *)
THEOREM InOrderOnceHolds == Spec => []InOrderOnce
<1>1. ASSUME BroadcastInv PROVE InOrderOnce
  <2>1. SUFFICES ASSUME NEW c \in Clients,
                        NEW i \in DOMAIN Stream(c), NEW j \in DOMAIN Stream(c),
                        i < j
                 PROVE  Stream(c)[i] < Stream(c)[j]
    BY DEF InOrderOnce
  <2>2. Stream(c) \in Seq(Plan) /\ Increasing(Stream(c))
    BY <1>1, StreamParts
  <2>3. DOMAIN Stream(c) = 1..Len(Stream(c))
    BY <2>2
  <2> QED BY <2>1, <2>2, <2>3 DEF Increasing
<1> QED BY <1>1, BroadcastInvariant, PTL

(* A streaming client gets the replayed events and all later ones, except  *)
(* those that were dropped for it because its channel stayed full.         *)
THEOREM NothingSilentlyMissedHolds == Spec => []NothingSilentlyMissed
<1>1. ASSUME BroadcastInv PROVE NothingSilentlyMissed
  <2>1. \A c \in Clients : Range(Stream(c)) = Reaches(c)
    BY <1>1, StreamParts
  <2>2. DOMAIN broadcast = 1..Len(broadcast)
    BY <1>1 DEF BroadcastInv, TypeOK
  <2> QED BY <1>1, <2>1, <2>2
          DEF BroadcastInv, MissedInv, NothingSilentlyMissed
<1> QED BY <1>1, BroadcastInvariant, PTL
=============================================================================
