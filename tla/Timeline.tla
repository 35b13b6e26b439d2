------------------------------ MODULE Timeline ------------------------------
(***************************************************************************)
(* Entities, timeline, noise and jitter: EntityGenerator and               *)
(* TimelineExpander of eventweave/compiler/planner.py, NoiseGenerator and  *)
(* JitterApplier.  Every draw from a random generator is a choice.         *)
(*                                                                         *)
(* Time is counted in the microseconds by which events are kept apart,     *)
(* from the start of the scenario.  An entity id "user_001" is the tuple   *)
(* <<"user", 1>>, the empty string <<>>, and any other string <<s>>.       *)
(* An event id is <<0, flow, step>> in the timeline and <<1, n, 0>> in the *)
(* noise, which sort as the strings "evt-x-001-002" and "evt-x-noise-00001"*)
(* do as long as no counter outgrows its zeros.  Sources, labels and tags  *)
(* are left out; of the attributes one is kept, "amount".                  *)
(***************************************************************************)
EXTENDS PyNone

CONSTANTS
    Types,         \* the entity types
    EntityOf,      \* event type -> what comes before its first dot
    Unreadable,    \* a string that parse_duration does not accept
    MaxFlows       \* bound: more flows are not expanded by the model

VARIABLES
    scenario,      \* the scenario, with its effective noise and jitter
    entities,      \* the list shared by planner, expander and noise
    made,          \* the counters of the expander's own EntityGenerator
    warnings,
    flow, step,    \* the flow and the timeline item being expanded
    now,           \* current_time of the flow
    draft,         \* the refs resolved so far for the next event, or None
    resolved,      \* how many of the item's refs have been resolved
    events,        \* the events so far
    noiseLeft,     \* noise events still to be drawn
    planned,       \* history: the events before jitter
    jittered       \* how many events have got their jitter

timelineVars == <<scenario, entities, made, warnings, flow, step, now, draft,
                  resolved, events, noiseLeft, planned, jittered>>

OfType(type) == Only(entities, {x \in Range(entities) : x.type = type})
IdsOf(type)  == {x.id : x \in Range(OfType(type))}

(* A primary type that is not given is inferred from the first event.      *)
PrimaryType ==
    IF scenario.forEach # None THEN scenario.forEach
    ELSE IF scenario.timeline = <<>> THEN None
    ELSE EntityOf[scenario.timeline[1].event]

(* The list that the expander iterates over is the one that $new appends   *)
(* to: a flow may create entities for which further flows are expanded.    *)
Primaries == OfType(PrimaryType)
FlowId    == Primaries[flow].id
Item      == scenario.timeline[step]

-----------------------------------------------------------------------------
Init(s) ==
    /\ scenario = s
    /\ entities = <<>> /\ events = <<>> /\ planned = <<>>
    /\ made = [t \in Types |-> 0]
    /\ warnings = {}
    /\ flow = 1 /\ step = 1 /\ now = 0
    /\ draft = None /\ resolved = 0
    /\ noiseLeft = 0 /\ jittered = 0

(* EntityGenerator.generate, and the warning of _primary_entity_type.      *)
GenerateEntities ==
    LET Made(t) == [n \in 1..t.count |->
                      [id |-> <<t.key, n>>,
                       type |-> IF t.type # None THEN t.type ELSE t.key,
                       fields |-> t.fields]]
        templates == scenario.entities
    IN  /\ entities' = FlattenSeq([i \in DOMAIN templates |->
                                     Made(templates[i])])
        /\ warnings' = IF scenario.forEach = None /\ scenario.timeline # <<>>
                       THEN warnings \cup {<<"inferred">>} ELSE warnings
        /\ UNCHANGED <<scenario, made, flow, step, now, draft, resolved,
                       events, noiseLeft, planned, jittered>>
-----------------------------------------------------------------------------
(* _expand_flow, one timeline item after the other.                        *)
Expanding == flow <= Len(Primaries)
AtItem    == Expanding /\ step <= Len(scenario.timeline) /\ draft = None

StepKey(item) == IF item.id # None THEN item.id ELSE item.event

(* The positions of the events of this flow, of those with a step id, and  *)
(* of those with an event type; the latest is the one that is remembered.  *)
OfFlow       == {i \in DOMAIN events :
                    events[i].id[1] = 0 /\ events[i].id[2] = flow}
ById(key)    == {i \in OfFlow : events[i].key = key}
ByType(type) == {i \in OfFlow : events[i].type = type}
Latest(P)    == events[Max(P)]

(* The time of an item: at, or after with delay, or that of its            *)
(* predecessor.  after without delay has no effect.                        *)
BaseTime(item) ==
    IF ById(item.after) # {} THEN Latest(ById(item.after)).time
    ELSE IF ByType(item.after) # {} THEN Latest(ByType(item.after)).time
    ELSE now

(* A delay is drawn from between two ends, which may be given in any order.*)
Between(a, b) == (a..b) \cup (b..a)

Times(item) ==
    IF item.at # None THEN {item.at}
    ELSE IF item.after # None /\ item.delay # None
         THEN {BaseTime(item) + d : d \in Between(item.delay[1], item.delay[2])}
    ELSE {now}

(* The jitter of a step: the time is moved, but not to or before that of   *)
(* the event emitted last, which need not be the one it comes after.       *)
Jittered(item, time) ==
    IF item.jitter = None THEN {time}
    ELSE LET Clamp(t) == IF OfFlow = {} THEN t
                         ELSE Max({t, Latest(OfFlow).time + 1})
         IN  {Clamp(time + o) : o \in (-item.jitter)..item.jitter}

(* Only the durations that are looked at have to be readable.              *)
Readable(item) ==
    /\ item.at # Unreadable
    /\ item.at = None /\ item.after # None => item.delay # Unreadable
    /\ item.jitter # Unreadable

\* The step raises CompileError or DurationParseError.
StepUnreadable == AtItem /\ ~Readable(Item)

SkipStep ==
    /\ AtItem
    /\ ~Item.certain
    /\ step' = step + 1
    /\ UNCHANGED <<scenario, entities, made, warnings, flow, now, draft,
                   resolved, events, noiseLeft, planned, jittered>>

BeginStep ==
    /\ AtItem
    /\ Readable(Item)
    /\ \E t \in Times(Item) : now' \in Jittered(Item, t)
    /\ draft' = [role \in {"flow"} |-> FlowId]
    /\ resolved' = 0
    /\ UNCHANGED <<scenario, entities, made, warnings, flow, step, events,
                   noiseLeft, planned, jittered>>
-----------------------------------------------------------------------------
(* _resolve_ref, by the kind of the next reference of the item.            *)
AtRef == draft # None /\ resolved < Len(Item.refs)
Role  == Item.refs[resolved + 1].role
Ref   == Item.refs[resolved + 1].spec

Refer(value) ==
    /\ draft' = With(draft, Role, value)
    /\ resolved' = resolved + 1
    /\ UNCHANGED <<scenario, flow, step, now, events, noiseLeft, planned,
                   jittered>>
Unresolved(warning) ==
    /\ Refer(Nowhere)
    /\ warnings' = warnings \cup {warning}
    /\ UNCHANGED <<entities, made>>
Known(value) == Refer(value) /\ UNCHANGED <<entities, made, warnings>>

RefFlow == AtRef /\ Ref.kind = "flow" /\ Known(FlowId)

RefEntity ==
    /\ AtRef
    /\ Ref.kind = "entity"
    /\ IF IdsOf(Ref.type) = {} THEN Unresolved(<<"no entity", Ref.type>>)
       ELSE \E id \in IdsOf(Ref.type) : Known(id)

\* Mutated RefNew: the new entity is not added to the list of the plan.
RefNewForgotten ==
    /\ AtRef
    /\ Ref.kind = "new"
    /\ LET n == made[Ref.type] + 1 IN
       /\ made' = [made EXCEPT ![Ref.type] = n]
       /\ Refer(<<Ref.type, n>>)
    /\ UNCHANGED <<entities, warnings>>

\* The ids count from 1 again: they are not those of GenerateEntities.
RefNew ==
    /\ AtRef
    /\ Ref.kind = "new"
    /\ LET n == made[Ref.type] + 1 IN
       /\ made' = [made EXCEPT ![Ref.type] = n]
       /\ entities' = Append(entities, [id |-> <<Ref.type, n>>,
                                        type |-> Ref.type, fields |-> {}])
       /\ Refer(<<Ref.type, n>>)
    /\ UNCHANGED warnings

RefPrevious ==
    /\ AtRef
    /\ Ref.kind = "ref"
    /\ LET prev == Latest(ById(Ref.step)) IN
       IF ById(Ref.step) # {} /\ Ref.role \in DOMAIN prev.refs
       THEN Known(prev.refs[Ref.role])
       ELSE Unresolved(<<"bad ref", Ref.step, Ref.role>>)

(* The name of an entity type stands for one of its entities, any other    *)
(* string for itself.                                                      *)
RefPlain ==
    /\ AtRef
    /\ Ref.kind = "plain"
    /\ IF IdsOf(Ref.name) # {} THEN \E id \in IdsOf(Ref.name) : Known(id)
       ELSE Known(<<Ref.name>>)

ResolveRef == RefFlow \/ RefEntity \/ RefNew \/ RefPrevious \/ RefPlain

EmitEvent ==
    /\ draft # None
    /\ resolved = Len(Item.refs)
    /\ events' = Append(events,
          [id |-> <<0, flow, step>>, flow |-> FlowId, key |-> StepKey(Item),
           type |-> Item.event, time |-> now, refs |-> draft,
           amount |-> Item.amount, sem |-> {}])
    /\ draft' = None
    /\ step' = step + 1
    /\ UNCHANGED <<scenario, entities, made, warnings, flow, now, resolved,
                   noiseLeft, planned, jittered>>

NextFlow ==
    /\ Expanding
    /\ step > Len(scenario.timeline)
    /\ flow <= MaxFlows
    /\ flow' = flow + 1
    /\ step' = 1
    /\ now' = 0
    /\ UNCHANGED <<scenario, entities, made, warnings, draft, resolved,
                   events, noiseLeft, planned, jittered>>

ExpandStep == SkipStep \/ BeginStep \/ ResolveRef \/ EmitEvent \/ NextFlow
-----------------------------------------------------------------------------
(* The order of the plan: event_time, then event_id.                       *)
IdBefore(a, b) ==
    \/ a[1] < b[1]
    \/ a[1] = b[1] /\ a[2] < b[2]
    \/ a[1] = b[1] /\ a[2] = b[2] /\ a[3] < b[3]
Earlier(d, e) == d.time < e.time \/ (d.time = e.time /\ IdBefore(d.id, e.id))
InPlanOrder(S) == Ranked(S, {p \in S \X S : Earlier(p[1], p[2])})

(* round(n * ratio), to even, for a ratio given in halves.                 *)
Round(n, halves) ==
    LET floor == (n * halves) \div 2
    IN  IF (n * halves) % 2 = 0 \/ floor % 2 = 0 THEN floor ELSE floor + 1

(* The list is sorted, and the number of noise events is drawn up.         *)
StartNoise ==
    /\ ~Expanding
    /\ events' = InPlanOrder(Range(events))
    /\ noiseLeft' = IF scenario.noise = None \/ events = <<>> THEN 0
                    ELSE IF ~scenario.noise.enabled
                            \/ scenario.noise.events = <<>> THEN 0
                    ELSE Round(Len(events), scenario.noise.halves)
    /\ UNCHANGED <<scenario, entities, made, warnings, flow, step, now,
                   draft, resolved, planned, jittered>>

(* What a noise reference may stand for.  Only $entity and $flow are       *)
(* resolved, the latter not for an inferred primary type; an entity that   *)
(* is missing becomes the empty string without a warning.                  *)
NoiseRef(spec) ==
    LET AnyOf(type) == IF IdsOf(type) = {} THEN {Nowhere} ELSE IdsOf(type)
    IN  CASE spec.kind = "entity" -> AnyOf(spec.type)
          [] spec.kind = "flow"   -> AnyOf(scenario.forEach)
          [] OTHER                -> {<<spec.name>>}

TimelineEvents == {e \in Range(events) : e.id[1] = 0}

\* Mutated NoiseNumber: the numbers of noise ids do not count.
NoiseNumberStuck == 1

NoiseNumber == Cardinality({e \in Range(events) : e.id[1] = 1}) + 1

AddNoise ==
    /\ noiseLeft > 0
    /\ LET first == Min({e.time : e \in TimelineEvents})
       IN  \E spec \in Range(scenario.noise.events),
              t \in first..(first + scenario.duration) :
             \E v \in NoiseRef(spec.spec) :
               events' = Append(events,
                  [id |-> <<1, NoiseNumber, 0>>, flow |-> None, key |-> None,
                   type |-> spec.event, time |-> t,
                   refs |-> [r \in {spec.role} |-> v], amount |-> None,
                   sem |-> {}])
    /\ noiseLeft' = noiseLeft - 1
    /\ UNCHANGED <<scenario, entities, made, warnings, flow, step, now,
                   draft, resolved, planned, jittered>>
-----------------------------------------------------------------------------
JitterOn == scenario.jitter # None /\ scenario.jitter.enabled

(* With preserve_order the events are grouped by flow, the groups in the   *)
(* order of their first events, and each group is sorted.                  *)
Grouped ==
    LET First(e) == Min({i \in DOMAIN events : events[i].flow = e.flow})
        all      == Range(events)
    IN  Ranked(all, {p \in all \X all :
                        \/ First(p[1]) < First(p[2])
                        \/ First(p[1]) = First(p[2]) /\ Earlier(p[1], p[2])})

StartJitter ==
    /\ noiseLeft = 0
    /\ events' = IF JitterOn /\ scenario.jitter.preserve THEN Grouped
                 ELSE events
    /\ planned' = events'
    /\ jittered' = IF JitterOn THEN 0 ELSE Len(events)
    /\ UNCHANGED <<scenario, entities, made, warnings, flow, step, now,
                   draft, resolved, noiseLeft>>

\* Mutated JitterEvent: an event may catch up with the one before it.
JitterEventUnclamped ==
    LET i == jittered + 1
        m == scenario.jitter.max
    IN  /\ i <= Len(events)
        /\ \E o \in (-m)..m :
             events' = [events EXCEPT ![i].time = events[i].time + o]
        /\ jittered' = i
        /\ UNCHANGED <<scenario, entities, made, warnings, flow, step, now,
                       draft, resolved, noiseLeft, planned>>

JitterEvent ==
    LET i        == jittered + 1
        m        == scenario.jitter.max
        Clamp(t) == IF /\ scenario.jitter.preserve
                       /\ i > 1 /\ events[i - 1].flow = events[i].flow
                    THEN Max({t, events[i - 1].time + 1}) ELSE t
    IN  /\ i <= Len(events)
        /\ \E o \in (-m)..m :
             events' = [events EXCEPT ![i].time = Clamp(events[i].time + o)]
        /\ jittered' = i
        /\ UNCHANGED <<scenario, entities, made, warnings, flow, step, now,
                       draft, resolved, noiseLeft, planned>>
=============================================================================
