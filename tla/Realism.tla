------------------------------- MODULE Realism -------------------------------
(***************************************************************************)
(* The metrics of eventweave/quality/realism.py that a realism gate of     *)
(* SuiteValidator looks at, over the events of a compiled plan.  An event  *)
(* is [id, type, source, noise, key, time], with a time in seconds; a gate *)
(* is [noise, types, sources, burst, jitter] of thresholds, None when not  *)
(* given, and those that are ratios counted in units of 1/unit.            *)
(***************************************************************************)
EXTENDS PyNone

Counted(events, Test(_)) == Len(SelectSeq(events, Test))
NoiseEvents(events) == Counted(events, LAMBDA e : e.noise)
KeyEvents(events)   == Counted(events, LAMBDA e : e.key)
TypesOf(events)     == Cardinality({e.type : e \in Range(events)})
SourcesOf(events)   == Cardinality({e.source : e \in Range(events)})

(* The events per minute from the first event on, empty minutes left out,  *)
(* and the square of their coefficient of variation: [num, den].           *)
Buckets(events) ==
    LET Times     == {e.time : e \in Range(events)}
        start     == CHOOSE t \in Times : \A u \in Times : t <= u
        Minute(e) == (e.time - start) \div 60
        minutes   == {Minute(e) : e \in Range(events)}
    IN  [m \in minutes |-> Counted(events, LAMBDA e : Minute(e) = m)]
Burstiness(events) ==
    IF Len(events) <= 1 THEN [num |-> 0, den |-> 1]
    ELSE LET b       == Buckets(events)
             squares == MapThenSumSet(LAMBDA m : b[m] * b[m], DOMAIN b)
             all     == Len(events) * Len(events)
         IN  [num |-> Cardinality(DOMAIN b) * squares - all, den |-> all]

(* _check_realism: the gates that are given and that a plan does not meet. *)
FailedGates(gate, unit, events, jittered) ==
    LET Fails(name, ok) == IF gate[name] # None /\ ~ok THEN {name} ELSE {}
        key == KeyEvents(events)
        b   == Burstiness(events)
    IN  Fails("noise", IF key = 0 THEN 0 >= gate.noise
                       ELSE NoiseEvents(events) * unit >= gate.noise * key)
        \cup Fails("types", TypesOf(events) >= gate.types)
        \cup Fails("sources", SourcesOf(events) >= gate.sources)
        \cup Fails("burst", b.num * unit * unit
                            <= gate.burst * gate.burst * b.den)
        \cup Fails("jitter", jittered)
=============================================================================
