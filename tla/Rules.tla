-------------------------------- MODULE Rules --------------------------------
(***************************************************************************)
(* The declarative rules of eventweave/compiler/rules.py and the schema    *)
(* checks of schema_validator.py, over a compiled plan: a sequence of      *)
(* events and a sequence of entities.                                      *)
(*                                                                         *)
(* An attribute of an event is abstracted to one field, "amount", that is  *)
(* missing (None), a number, or Text; a field of an entity is either       *)
(* there or not.  A rule is a record whose kind is the type written in     *)
(* YAML, and "bare" stands for the entries that load_from_scenario passes  *)
(* over.                                                                   *)
(***************************************************************************)
EXTENDS PyNone

CONSTANT
    Text           \* an attribute that is not a number

Implemented == {"required_entity_ref", "event_after", "event_before",
                "field_required", "field_enum", "field_lte_ref"}
NotImplemented == {"field_range", "state_transition", "probability_range"}

Refers(e, role) == role \in DOMAIN e.refs /\ e.refs[role] # Nowhere

(* _scope_key: the entity in the scope's role, else the flow, else one     *)
(* scope for all.  The scope "global" is that of the flow.                 *)
ScopeKey(e, scope) ==
    IF scope \notin {None, "global"} /\ Refers(e, scope)
    THEN e.refs[scope]
    ELSE IF e.flow # None THEN e.flow ELSE <<"global">>

IsOf(e, type) == e.type = type

(* The events of one scope before and after position i, in plan order.     *)
Preceding(events, i, scope, type) ==
    {j \in 1..(i - 1) : /\ IsOf(events[j], type)
                        /\ ScopeKey(events[j], scope)
                             = ScopeKey(events[i], scope)}
Following(events, i, scope, type) ==
    {j \in (i + 1)..Len(events) : /\ IsOf(events[j], type)
                                  /\ ScopeKey(events[j], scope)
                                       = ScopeKey(events[i], scope)}

Exceeds(value, limit) ==
    \/ value \in {None, Text}
    \/ limit \in {None, Text}
    \/ value > limit

(* The event at position i makes the rule raise RuleViolationError.        *)
ViolatedAt(rule, events, i) ==
    LET e == events[i] IN
    CASE rule.kind = "required_entity_ref" -> ~Refers(e, rule.other)
      [] rule.kind = "event_after" ->
            Preceding(events, i, rule.scope, rule.other) = {}
      [] rule.kind = "event_before" ->
            Following(events, i, rule.scope, rule.other) = {}
      [] rule.kind = "field_required" -> e.amount = None
      [] rule.kind = "field_enum" ->
            rule.values # {} /\ e.amount \notin {None} \cup rule.values
      [] rule.kind = "field_lte_ref" ->
            LET before == Preceding(events, i, rule.scope, rule.other)
            IN  \/ before = {}
                \/ Exceeds(e.amount, events[Max(before)].amount)
      [] OTHER -> FALSE

(* RuleRegistry.validate: one warning for each rule that is violated       *)
(* somewhere, and one for each that is registered but not implemented.     *)
RuleWarnings(rules, events) ==
    LET Warns(r) == \/ r.kind \in NotImplemented
                    \/ \E i \in DOMAIN events : /\ IsOf(events[i], r.event)
                                                 /\ ViolatedAt(r, events, i)
    IN  {<<"rule", r.id>> : r \in {q \in Range(rules) : Warns(q)}}

(* register() raises for a type that is in no table: the compilation ends  *)
(* with a traceback.                                                       *)
Unregistrable(rules) ==
    \E r \in Range(rules) :
       r.kind \notin Implemented \cup NotImplemented \cup {"bare"}
-----------------------------------------------------------------------------
(* _validate_event: the issues of one event.                               *)
EventIssue(e, schemas, entityById) ==
    IF e.type \notin DOMAIN schemas THEN {<<"event", e.id, "unknown type">>}
    ELSE LET schema == schemas[e.type] IN
         {<<"event", e.id, "missing field">> :
             f \in {f \in schema.fields : e.amount = None}}
         \cup {<<"event", e.id, "not a number">> :
             f \in {f \in schema.fields : e.amount = Text}}
         \cup {<<"event", e.id, "unknown field">> :
             x \in {x \in {e.amount} \ {None} : schema.fields = {}}}
         \cup {<<"event", e.id, "bad reference", r>> :
             r \in {r \in DOMAIN schema.refs :
                       \/ ~Refers(e, r)
                       \/ e.refs[r] \notin DOMAIN entityById
                       \/ entityById[e.refs[r]].type # schema.refs[r]}}
         \cup {<<"event", e.id, "unknown role", r>> :
             r \in DOMAIN e.refs \ ({"flow"} \cup DOMAIN schema.refs)}

(* _validate_entity: the issues of one entity.                             *)
EntityIssue(x, schemas) ==
    IF x.type \notin DOMAIN schemas THEN {<<"entity", x.id, "unknown type">>}
    ELSE {<<"entity", x.id, "missing field">> :
             f \in schemas[x.type] \ x.fields}
         \cup {<<"entity", x.id, "unknown field">> :
             f \in x.fields \ schemas[x.type]}

(* SchemaValidator.validate.  Of entities with one id the last counts.     *)
SchemaIssues(events, entities, eventSchemas, entitySchemas) ==
    LET byId == FoldLeft(LAMBDA acc, x : (x.id :> x) @@ acc, <<>>, entities)
    IN  UNION {EventIssue(e, eventSchemas, byId) : e \in Range(events)}
        \cup UNION {EntityIssue(x, entitySchemas) : x \in Range(entities)}
=============================================================================
