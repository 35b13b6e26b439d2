------------------------------- MODULE Semantic -------------------------------
(***************************************************************************)
(* What eventweave semantic generate computes: SemanticSidecar (sidecar.py *)
(* in eventweave/ai), SemanticValidator (validator.py), SemanticResolver   *)
(* (resolver.py) and the keys of SemanticCache (cache.py).                 *)
(*                                                                         *)
(*   task    [id, type, wording, validFor, count]; wording stands for      *)
(*           prompt and template, validFor is a set of event types         *)
(*   asset   [task, provider, event, type, text]: task, provider and event *)
(*           are meta.source_task, .provider and .source_event, and the    *)
(*           text is the wording it was generated from, or Blank, a text   *)
(*           that is empty or too long                                     *)
(* The string in which an asset id joins its parts is a tuple of the parts *)
(* here.  A cache key joins them with underscores, which the ids may have, *)
(* too: a scenario id or task id is made of Words.                         *)
(***************************************************************************)
EXTENDS PyNone

CONSTANTS
    Blank,
    Words   \* scenario id or task id -> the sequence of its words, those
            \* between underscores

(* SemanticCache.build_key.  There is no underscore in the type of a       *)
(* provider, so that the first one always ends it, and none in an event id.*)
Joined(scenario, task, event) ==
    Words[scenario] \o Words[task] \o IF event = None THEN <<>> ELSE <<event>>

Key(provider, scenario, task, event) ==
    <<provider, Joined(scenario, task, event)>>

(* The ids in a pool: generate_all appends event and index to the id that  *)
(* the provider has chosen.                                                *)
Id(job, asset) == <<asset.task, asset.provider, job.event, job.index>>

(* semantic://<task>, which compile leaves in an event.                    *)
Placeholder(task)  == <<"semantic", task>>
IsPlaceholder(ref) == Len(ref) = 2

(* generate_all: the assets that are asked for, in order.                  *)
Copies(t, event, type) ==
    [i \in 1..t.count |->
        [task |-> t, event |-> event, type |-> type, index |-> i - 1]]

TaskJobs(t, events) ==
    IF t.validFor = {} \/ events = <<>> THEN Copies(t, None, None)
    ELSE FlattenSeq([i \in DOMAIN events |->
             IF events[i].type \in t.validFor
             THEN Copies(t, events[i].id, events[i].type) ELSE <<>>])

Jobs(tasks, events) ==
    FlattenSeq([i \in DOMAIN tasks |-> TaskJobs(tasks[i], events)])

(* What a provider returns for a job.                                      *)
Made(job, provider, text) ==
    [task |-> job.task.id, provider |-> provider, event |-> job.event,
     type |-> job.task.type, text |-> text]

Valid(asset, job) ==
    /\ asset.type = job.task.type
    /\ asset.text # Blank
    /\ (job.task.validFor # {} /\ job.event # None) =>
          job.type \in job.task.validFor

(* SemanticResolver: whatever an event referred to, it now refers to the   *)
(* assets that were generated for it.                                      *)
RefsFor(id, pool) ==
    LET its == Only(pool, {a \in Range(pool) : a.asset.event = id}) IN
    [i \in DOMAIN its |-> its[i].id]

\* Mutated Resolve: references are added to those that are there.
ResolveAppend(events, pool) ==
    [i \in DOMAIN events |->
        [events[i] EXCEPT !.refs = @ \o RefsFor(events[i].id, pool)]]

Resolve(events, pool) ==
    [i \in DOMAIN events |->
        [events[i] EXCEPT !.refs = RefsFor(events[i].id, pool)]]
===============================================================================
