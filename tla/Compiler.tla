------------------------------ MODULE Compiler ------------------------------
(***************************************************************************)
(* compile_scenario of eventweave/compiler/engine.py: ScenarioPlanner      *)
(* loads the packs, resolves the realism profile, generates entities,      *)
(* expands the timeline, adds noise and jitter and sorts; then semantic    *)
(* placeholders are attached, and rules and schemas are checked.  The      *)
(* engine loads the packs a second time, from the same files: one load     *)
(* stands for both.                                                        *)
(*                                                                         *)
(* phase says which call of the two methods is running.  "failed" is a     *)
(* compilation that ends with an exception, "done" one that returns a      *)
(* CompileResult, in warnings and errors.                                  *)
(***************************************************************************)
EXTENDS Packs, Timeline, Rules

CONSTANTS
    Scenarios,     \* the scenarios that are considered
    Disks          \* the packs directories that are considered

(* What the models of core/scenario.py and the loaders accept: lists are   *)
(* lists, durations and counts are not negative, and an entity type that a *)
(* scenario makes entities of is among Types.  The durations of a step may *)
(* be unreadable; those of the scenario and of its jitter are not.         *)
ItemOK(item) ==
    /\ item.refs \in Seq(Range(item.refs))
    /\ \A r \in Range(item.refs) :
          r.spec.kind = "new" => r.spec.type \in Types
    /\ item.at \notin {None, Unreadable} => item.at \in Nat
    /\ item.delay \notin {None, Unreadable} =>
          item.delay[1] \in Nat /\ item.delay[2] \in Nat
    /\ item.jitter \notin {None, Unreadable} => item.jitter \in Nat
    /\ item.amount \in Int \cup {None, Text}
TemplateOK(t) ==
    /\ t.count \in Nat
    /\ (IF t.type # None THEN t.type ELSE t.key) \in Types
NoiseOK(n)  == n # None => n.halves \in Nat
JitterOK(j) == j # None => j.max \in Nat

ScenarioOK(s) ==
    /\ s.domain \in PackIds
    /\ {"noise", "jitter"} \subseteq DOMAIN s
    /\ s.timeline \in Seq(Range(s.timeline))
    /\ \A item \in Range(s.timeline) : ItemOK(item)
    /\ s.entities \in Seq(Range(s.entities))
    /\ \A t \in Range(s.entities) : TemplateOK(t)
    /\ s.duration \in Nat
    /\ NoiseOK(s.noise) /\ JitterOK(s.jitter)
    /\ s.realism # None =>
          /\ NoiseOK(s.realism.noise) /\ JitterOK(s.realism.jitter)
          /\ s.realism.profile # None =>
                s.realism.profile.pack \in PackIds \cup {None}
PackOK(pack) ==
    /\ pack.deps \in Seq(PackIds)
    /\ \A id \in DOMAIN pack.profiles :
          NoiseOK(pack.profiles[id].noise) /\ JitterOK(pack.profiles[id].jitter)

ASSUME InputAssumption ==
    /\ \A s \in Scenarios : ScenarioOK(s)
    /\ \A d \in Disks, p \in PackIds : d[p] # None => PackOK(d[p])
    /\ MaxFlows \in Nat

VARIABLES
    phase,
    options,       \* --strict and --strict-schema, once they are looked at
    errors         \* CompileResult.errors

vars == <<packVars, timelineVars, phase, options, errors>>

Over == phase \in {"done", "failed"}

(* A compilation of a scenario file that load_scenario accepts.            *)
CompileInit ==
    /\ \E s \in Scenarios : Init(s)
    /\ disk \in Disks
    /\ stack = <<scenario.domain>> /\ loaded = <<>>
    /\ phase = "packs"
    /\ options = None
    /\ errors = {}

Keep      == UNCHANGED <<options, errors>>
KeepPacks == UNCHANGED packVars
Goto(p)   == phase' = p /\ Keep
-----------------------------------------------------------------------------
LoadPacks ==
    /\ phase = "packs"
    /\ SkipVisited \/ LoadPack
    /\ Goto("packs")
    /\ UNCHANGED timelineVars

LoadFails ==
    /\ phase = "packs"
    /\ PackMissing
    /\ Goto("failed")
    /\ KeepPacks /\ UNCHANGED timelineVars

(* RealismProfileResolver.resolve: the scenario's own settings, then those *)
(* of its realism block, then those of the profile.  Without a profile the *)
(* realism block is not looked at.                                         *)
First(a, b, c) == IF a # None THEN a ELSE IF b # None THEN b ELSE c

ResolveRealism ==
    /\ phase = "packs"
    /\ stack = <<>>
    /\ LET r == scenario.realism IN
       IF r = None \/ (r # None /\ r.profile = None)
       THEN Goto("entities") /\ UNCHANGED scenario
       ELSE LET p == Profile(r.profile, scenario.domain) IN
            IF p = None THEN Goto("failed") /\ UNCHANGED scenario
            ELSE /\ Goto("entities")
                 /\ scenario' = [scenario EXCEPT
                       !.noise  = First(scenario.noise, r.noise, p.noise),
                       !.jitter = First(scenario.jitter, r.jitter, p.jitter)]
    /\ KeepPacks
    /\ UNCHANGED <<entities, made, warnings, flow, step, now, draft, resolved,
                   events, noiseLeft, planned, jittered>>

Entities ==
    phase = "entities" /\ GenerateEntities /\ Goto("expand") /\ KeepPacks
Expand ==
    phase = "expand" /\ ExpandStep /\ Goto("expand") /\ KeepPacks
ExpandFails ==
    /\ phase = "expand"
    /\ StepUnreadable
    /\ Goto("failed")
    /\ KeepPacks /\ UNCHANGED timelineVars
Expanded ==
    phase = "expand" /\ StartNoise /\ Goto("noise") /\ KeepPacks
Noise ==
    phase = "noise" /\ AddNoise /\ Goto("noise") /\ KeepPacks
NoiseAdded ==
    phase = "noise" /\ StartJitter /\ Goto("jitter") /\ KeepPacks
Jitter ==
    phase = "jitter" /\ JitterEvent /\ Goto("jitter") /\ KeepPacks

OnlyEventsChange ==
    UNCHANGED <<scenario, entities, made, warnings, flow, step, now, draft,
                resolved, noiseLeft, planned, jittered>>

FinalSort ==
    /\ phase = "jitter"
    /\ jittered = Len(events)
    /\ events' = InPlanOrder(Range(events))
    /\ Goto("attach")
    /\ KeepPacks /\ OnlyEventsChange
-----------------------------------------------------------------------------
(* build_semantic_tasks: the scenario's tasks and those of its timeline    *)
(* items, without repeated ids.                                            *)
TasksOf(s) ==
    LET inline == [i \in DOMAIN s.timeline |->
                     [id |-> <<StepKey(s.timeline[i]), i - 1>>,
                      validFor |-> {s.timeline[i].event}]]
        wanted == SelectSeq([i \in DOMAIN inline |-> i],
                            LAMBDA i : s.timeline[i].semantic)
        all    == s.tasks \o [i \in DOMAIN wanted |-> inline[wanted[i]]]
        Fresh(acc, t) == IF \E u \in Range(acc) : u.id = t.id
                         THEN acc ELSE Append(acc, t)
    IN  FoldLeft(Fresh, <<>>, all)
SemanticTasks == TasksOf(scenario)

(* _attach_semantic_refs_placeholder.  A task that is valid for nothing in *)
(* particular is attached to all events, noise among them.                 *)
AttachRefs ==
    /\ phase = "attach"
    /\ LET For(e) == {t.id : t \in {u \in Range(SemanticTasks) :
                         u.validFor = {} \/ e.type \in u.validFor}}
       IN  events' = [i \in DOMAIN events |->
                        [events[i] EXCEPT !.sem = @ \cup For(events[i])]]
    /\ Goto("check")
    /\ KeepPacks /\ OnlyEventsChange
-----------------------------------------------------------------------------
(* The rules of the packs are registered before those of the scenario.     *)
AllRules == PackRules \o scenario.rules

(* The flags that the commands compile and validate pass on.               *)
Flags == [strict: BOOLEAN, strictSchema: BOOLEAN]

Result(flags, found, issues) ==
    LET schemaErrors == IF flags.strictSchema THEN issues ELSE {}
        allWarnings  == warnings \cup found
                        \cup (IF flags.strictSchema THEN {} ELSE issues)
    IN  /\ options' = flags
        /\ errors' = schemaErrors
                      \cup (IF flags.strict THEN allWarnings ELSE {})
        /\ warnings' = IF flags.strict THEN {} ELSE allWarnings

\* Mutated Check: rules see the events as they were before jitter.
CheckBeforeJitter ==
    /\ phase = "check"
    /\ ~Unregistrable(AllRules)
    /\ \E flags \in Flags :
          Result(flags, RuleWarnings(AllRules, InPlanOrder(Range(planned))),
                 SchemaIssues(events, entities, EventSchemas, EntitySchemas))
    /\ phase' = "done"
    /\ KeepPacks
    /\ UNCHANGED <<scenario, entities, made, flow, step, now, draft, resolved,
                   events, noiseLeft, planned, jittered>>

(* RuleRegistry and SchemaValidator look at the plan.  In strict mode      *)
(* every warning of any of them becomes an error.                          *)
Check ==
    /\ phase = "check"
    /\ ~Unregistrable(AllRules)
    /\ \E flags \in Flags :
          Result(flags, RuleWarnings(AllRules, events),
                 SchemaIssues(events, entities, EventSchemas, EntitySchemas))
    /\ phase' = "done"
    /\ KeepPacks
    /\ UNCHANGED <<scenario, entities, made, flow, step, now, draft, resolved,
                   events, noiseLeft, planned, jittered>>

CheckRaises ==
    /\ phase = "check"
    /\ Unregistrable(AllRules)
    /\ Goto("failed")
    /\ KeepPacks /\ UNCHANGED timelineVars

(* The program has ended, or it goes on beyond the bound of the model.     *)
Rest ==
    /\ Over \/ flow > MaxFlows
    /\ UNCHANGED vars

Planner ==
    \/ LoadPacks \/ LoadFails \/ ResolveRealism \/ Entities \/ Expand
    \/ ExpandFails \/ Expanded \/ Noise \/ NoiseAdded \/ Jitter \/ FinalSort
Next == Planner \/ AttachRefs \/ Check \/ CheckRaises \/ Rest

Spec == CompileInit /\ [][Next]_vars
FairSpec == Spec /\ WF_vars(Next)
-----------------------------------------------------------------------------
(* The lists, counters and positions keep their types; the timeline stays  *)
(* within the bound on flows, and no event is jittered twice.              *)
TypeOK ==
    /\ phase \in {"packs", "entities", "expand", "noise", "jitter", "attach",
                  "check", "done", "failed"}
    /\ stack \in Seq(PackIds) /\ loaded \in Seq(PackIds)
    /\ made \in [Types -> Nat]
    /\ flow \in 1..(MaxFlows + 1)
    /\ step \in 1..(Len(scenario.timeline) + 1)
    /\ draft # None => /\ Expanding
                       /\ resolved \in 0..Len(Item.refs)
    /\ noiseLeft \in Nat
    /\ jittered \in 0..Len(events)
    /\ \A x \in Range(entities) : x.type \in Types
    /\ \A i, j \in DOMAIN events : events[i].id = events[j].id => i = j

(* load_with_dependencies loads each pack that the domain depends on,      *)
(* directly or not, exactly once, whatever cycles depends_on has, and      *)
(* fails only if one is missing.  validate_pack is a gate for that: it     *)
(* reports an error for every pack with which loading would fail.          *)
PacksClosure ==
    /\ phase \notin {"packs", "failed"} =>
          /\ Range(loaded) = Reachable(scenario.domain)
          /\ Len(loaded) = Cardinality(Range(loaded))
    /\ phase = "failed" /\ stack # <<>> =>
          \E p \in Reachable(scenario.domain) : disk[p] = None
    /\ PackErrors(scenario.domain) = {} =>
          ~(phase = "failed" /\ stack # <<>>)

(* In a finished plan every reference of an event is the id of an entity   *)
(* of the plan, a string that the scenario wrote down, or, in the          *)
(* timeline only with a warning that says so, empty; every semantic        *)
(* placeholder names a task of the plan.                                   *)
Plain(spec) == IF spec.kind = "plain" THEN {<<spec.name>>} ELSE {}
TimelineLiterals ==
    UNION {Plain(r.spec) : r \in
              UNION {Range(i.refs) : i \in Range(scenario.timeline)}}
NoiseLiterals ==
    IF scenario.noise = None THEN {}
    ELSE {<<n.spec.name>> : n \in
             {m \in Range(scenario.noise.events) :
                 m.spec.kind \notin {"entity", "flow"}}}
Literals == TimelineLiterals \cup NoiseLiterals
RefsResolve ==
    phase = "done" =>
       \A e \in Range(events) :
          /\ \A r \in DOMAIN e.refs :
                \/ \E x \in Range(entities) : x.id = e.refs[r]
                \/ e.refs[r] \in Literals
                \/ /\ e.refs[r] = Nowhere
                   /\ e.id[1] = 0 =>
                        \E w \in warnings \cup errors :
                            w[1] \in {"no entity", "bad ref"}
          /\ \A s \in e.sem : \E t \in Range(SemanticTasks) : t.id = s

(* Jitter moves no event by more than it may, and, when it preserves       *)
(* order, only further so as to keep one microsecond after each earlier    *)
(* event of the flow; then the events of a flow stay in their order, and   *)
(* a step with a delay, without jitter of its own, stays behind the step   *)
(* it comes after.                                                         *)
Sorted   == phase \in {"attach", "check", "done"}
Final(d) == CHOOSE e \in Range(events) : e.id = d.id
Kept     == ~JitterOn \/ scenario.jitter.preserve

OrderKept ==
    \A d, e \in Range(planned) :
       d.flow = e.flow /\ Earlier(d, e) => Earlier(Final(d), Final(e))
Margin   == IF JitterOn THEN scenario.jitter.max ELSE 0
Ahead(d) == {e \in Range(planned) : JitterOn /\ Kept /\ e.flow = d.flow
                                     /\ Earlier(e, d)}
DriftBounded ==
    \A d \in Range(planned) :
       Final(d).time - d.time \in (-Margin)..(Margin + Cardinality(Ahead(d)))
Follows(item) == /\ item.at = None /\ item.jitter = None
                 /\ item.after # None /\ item.delay # None
ItemOf(e) == scenario.timeline[e.id[3]]
BaseOf(e) == {b \in Range(planned) : b.flow = e.flow /\ b.id[2] = e.id[2]
                                      /\ b.id[3] < e.id[3]
                                      /\ b.key = ItemOf(e).after}
LastOf(S) == CHOOSE b \in S : \A c \in S : c.id[3] <= b.id[3]
AfterKept ==
    \A e \in Range(planned) :
       e.id[1] = 0 /\ Follows(ItemOf(e)) /\ BaseOf(e) # {} =>
          Earlier(Final(LastOf(BaseOf(e))), Final(e))
FlowOrderKept == Sorted => /\ DriftBounded
                           /\ Kept => OrderKept /\ AfterKept

(* A compilation that succeeds with --strict satisfies every rule of the   *)
(* scenario and of its packs in the plan as it will be replayed, by the    *)
(* times of the events: jitter and sorting have not undone what was        *)
(* checked.                                                                *)
Succeeds == phase = "done" /\ errors = {}
Before(e, rule) ==
    {d \in Range(events) : /\ IsOf(d, rule.other) /\ Earlier(d, e)
                           /\ ScopeKey(d, rule.scope) = ScopeKey(e, rule.scope)}
Holds(rule, e) ==
    CASE rule.kind = "event_after" -> Before(e, rule) # {}
      [] rule.kind = "event_before" ->
            \E f \in Range(events) :
               /\ IsOf(f, rule.other) /\ Earlier(e, f)
               /\ ScopeKey(f, rule.scope) = ScopeKey(e, rule.scope)
      [] rule.kind = "required_entity_ref" -> Refers(e, rule.other)
      [] rule.kind = "field_lte_ref" ->
            \E d \in Before(e, rule) :
               /\ \A c \in Before(e, rule) : c = d \/ Earlier(c, d)
               /\ e.amount \notin {None, Text} /\ d.amount \notin {None, Text}
               /\ e.amount <= d.amount
      [] OTHER -> TRUE
StrictIsSound ==
    Succeeds /\ options.strict =>
       \A rule \in Range(AllRules), e \in Range(events) :
          IsOf(e, rule.event) => Holds(rule, e)

(* A compilation ends, with a result or an exception, unless a step makes  *)
(* a new entity of the primary type: each flow may then add another flow,  *)
(* since the expander iterates over the list to which it appends.          *)
SelfFeeding ==
    \E i \in Range(scenario.timeline) : \E r \in Range(i.refs) :
       r.spec.kind = "new" /\ r.spec.type = PrimaryType
CompileEnds == SelfFeeding \/ <>Over

(* "Globally unique entity identifier" (core/entity.py): the entities of a *)
(* finished plan have different ids.  The code does not keep this.         *)
EntityIdsUnique ==
    phase = "done" =>
       \A i, j \in DOMAIN entities : entities[i].id = entities[j].id => i = j
=============================================================================
