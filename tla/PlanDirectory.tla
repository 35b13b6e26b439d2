---------------------------- MODULE PlanDirectory ----------------------------
(***************************************************************************)
(* A plan directory and the commands that share it: compile, which writes  *)
(* it (PlanWriter of eventweave/compiler/writer.py), semantic generate,    *)
(* which fills the cache below it, rewrites the event plan and writes the  *)
(* pool (cli/commands/semantic.py), and those that read the event plan.    *)
(* One command runs at a time, and may be killed at any point: a file that *)
(* is being written is then Torn, or for event_plan.jsonl, whose lines     *)
(* stand for themselves, possibly shorter than it was.                     *)
(*                                                                         *)
(* A command that fails on what it reads leaves everything as it was; it   *)
(* is an action here only where that is worth knowing.                     *)
(***************************************************************************)
EXTENDS LocalRuntime

CONSTANTS
    Torn,          \* a file that cannot be parsed
    Plans,         \* what compile may be asked to write: [scenario,
                   \* version, truth, tasks, events]; scenario: its id;
                   \* truth: whether it has a ground truth
    Providers,     \* "ai", and others, which answer at once
    MaxRetries,    \* max_retries of AIProviderConfig
    Sinks,         \* the sinks that are considered
    Limits,        \* the values of --limit that are considered
    MaxCommands,   \* bound: commands altogether
    MaxBeforeRun   \* bound: commands before a run

(* What compile has made: its events and its tasks have ids of their own.  *)
(* Ids and times are numbers, in the order of the strings they stand for.  *)
ASSUME PlansAssumption ==
    \A plan \in Plans :
        /\ plan.tasks \in Seq(Range(plan.tasks))
        /\ \A i, j \in DOMAIN plan.tasks :
              plan.tasks[i].id = plan.tasks[j].id => i = j
        /\ \A t \in Range(plan.tasks) : t.count \in Nat
        /\ plan.events \in Seq(Range(plan.events))
        /\ \A i, j \in DOMAIN plan.events :
              plan.events[i].id = plan.events[j].id => i = j
        /\ \A e \in Range(plan.events) :
              e.id \in Int /\ e.id # None /\ e.time \in Int

Scenarios == {plan.scenario : plan \in Plans}
TaskIds   == UNION {{t.id : t \in Range(plan.tasks)} : plan \in Plans}
EventIds  == UNION {{e.id : e \in Range(plan.events)} : plan \in Plans}

(* No two ways to join ids give the same cache key.                        *)
KeysApart ==
    \A s1, s2 \in Scenarios, t1, t2 \in TaskIds, e1, e2 \in EventIds \cup {None} :
        Joined(s1, t1, e1) = Joined(s2, t2, e2) => t1 = t2 /\ e1 = e2

ASSUME ScenarioAssumption == {None, Torn} \cap Scenarios = {}

ASSUME OptionsAssumption ==
    /\ Limits \subseteq Nat \cup {None}
    /\ Sinks \subseteq [kind : {"http", "file", "stdout", "null", "export"},
                       encode : BOOLEAN, enrich : BOOLEAN, skip : BOOLEAN]
    /\ None \notin BOOLEAN

VARIABLES
    files,         \* file name -> content, Torn, or None
    cache,         \* key -> asset or Torn
    command,       \* what the running command does next, see below
    commands,      \* the number of commands so far
    torn,          \* the last command failed on a torn cache entry, and
                   \* what its --force was; or None
    paired         \* the --force of the generate that wrote both the event
                   \* plan and the pool, None when none has

vars == <<files, cache, command, commands, torn, paired, runVars>>
dirVars == <<files, cache, command, commands, torn, paired>>

(* The order of PlanWriter.write.                                          *)
PlanFiles == <<"scenario", "ground_truth", "entities", "relations",
               "sources", "runtime_plan", "semantic_tasks", "event_plan">>
FileNames == Range(PlanFiles) \cup {"semantic_pool"}

(* compile: next is an index in PlanFiles.  generate: jobs are to be done, *)
(* pool is what was done, attempt counts the retries of a request;         *)
(* resolving says that the event plan has been written.                    *)
Idle == [name |-> "idle"]
Compiling(plan) == [name |-> "compile", plan |-> plan, next |-> 1]
Generating(provider, scenario, force, tasks, events) ==
    [name |-> "generate", provider |-> provider, scenario |-> scenario,
     force |-> force, events |-> events, jobs |-> Jobs(tasks, events),
     pool |-> <<>>, attempt |-> 0, resolving |-> FALSE]

DirInit ==
    /\ files = [f \in FileNames |-> None]
    /\ cache = << >>
    /\ command = Idle /\ commands = 0
    /\ torn = None /\ paired = None

Init == DirInit /\ RunInit

Begin ==
    /\ command = Idle /\ running = "no"
    /\ commands < MaxCommands
    /\ commands' = commands + 1
    /\ torn' = None

End  == command' = Idle
Same == UNCHANGED <<commands, runVars>>
-----------------------------------------------------------------------------
(* eventweave compile: without --force the directory has to be empty.      *)
BeginCompile(plan, force) ==
    /\ Begin
    /\ force \/ \A f \in FileNames : files[f] = None
    /\ command' = Compiling(plan)
    /\ UNCHANGED <<files, cache, paired, runVars>>

(* _attach_semantic_refs_placeholder, of engine.py.                        *)
Attached(plan) ==
    LET Tasks(e) == {t.id : t \in {u \in Range(plan.tasks) :
                        u.validFor = {} \/ e.type \in u.validFor}}
    IN [i \in DOMAIN plan.events |->
           LET e   == plan.events[i]
               ids == SetToSortSeq(Tasks(e), LAMBDA s, t : s < t)
           IN [id |-> e.id, type |-> e.type, time |-> e.time,
               attributes |-> e.attributes,
               refs |-> [j \in DOMAIN ids |-> Placeholder(ids[j])]]]

Content(plan, file) ==
    CASE file = "scenario"       -> plan.scenario
      [] file = "semantic_tasks" -> plan.tasks
      [] file = "event_plan"     -> Attached(plan)
      [] OTHER                   -> plan.version

Writing == PlanFiles[command.next]

(* The next file; ground_truth.json only when there is one, and otherwise  *)
(* whatever is there stays.                                                *)
WriteFile ==
    /\ command.name = "compile"
    /\ files' = IF Writing = "ground_truth" /\ ~command.plan.truth THEN files
                ELSE [files EXCEPT ![Writing] = Content(command.plan, Writing)]
    /\ IF command.next < Len(PlanFiles)
       THEN command' = [command EXCEPT !.next = @ + 1]
       ELSE End
    /\ paired' = IF Writing \in {"semantic_tasks", "event_plan"} THEN None
                 ELSE paired
    /\ Same /\ UNCHANGED <<cache, torn>>
-----------------------------------------------------------------------------
(* eventweave semantic generate.                                           *)
BeginGenerate(provider, force) ==
    /\ Begin
    /\ files["scenario"] \notin {None, Torn}
    /\ files["semantic_tasks"] \notin {None, Torn}
    /\ files["event_plan"] # Torn
    /\ command' = Generating(provider, files["scenario"], force,
                     files["semantic_tasks"],
                     IF files["event_plan"] = None THEN <<>>
                     ELSE files["event_plan"])
    /\ UNCHANGED <<files, cache, paired, runVars>>

Asking == command.name = "generate" /\ command.jobs # <<>>
Job    == Head(command.jobs)
JobKey ==
    Key(command.provider, command.scenario, Job.task.id, Job.event)
Cached == JobKey \in DOMAIN cache

\* Mutated Consults: the cache is read even if it is to be ignored.
ConsultsAlways == Cached

Consults == Cached /\ ~command.force

Hit == Consults /\ cache[JobKey] # Torn /\ Valid(cache[JobKey], Job)

(* The asset is copied into the pool, under an id of its own.              *)
Add(asset) ==
    command' = [command EXCEPT
        !.jobs = Tail(@), !.attempt = 0,
        !.pool = Append(@, [id |-> Id(Job, asset), asset |-> asset])]

TakeCached ==
    /\ Asking /\ Hit
    /\ Add(cache[JobKey])
    /\ Same /\ UNCHANGED <<files, cache, torn, paired>>

(* json.loads of a truncated entry is not caught.                          *)
CacheRaises ==
    /\ Asking
    /\ Consults /\ cache[JobKey] = Torn
    /\ torn' = command.force
    /\ End
    /\ Same /\ UNCHANGED <<files, cache, paired>>

Provides == Asking /\ ~Hit /\ ~(Consults /\ cache[JobKey] = Torn)

(* The provider returns a text: a valid one is cached, then used.          *)
Provided(text) ==
    LET asset == Made(Job, command.provider, text) IN
    /\ Provides
    /\ IF Valid(asset, Job)
       THEN /\ cache' = With(cache, JobKey, asset)
            /\ Add(asset)
       ELSE End /\ UNCHANGED cache
    /\ Same /\ UNCHANGED <<files, torn, paired>>

(* MockProvider and TemplateProvider render the template of the task;      *)
(* AIChatProvider sends it, and any text may be the answer.                *)
Render == command.name = "generate" /\ command.provider # "ai" /\ Asking
          /\ Provided(Job.task.wording)
Answer == command.name = "generate" /\ command.provider = "ai" /\ Asking
          /\ \E text \in {Job.task.wording, Blank} : Provided(text)

(* 429, 500, 502, 503, 504, no connection or a timeout.                    *)
RetryRequest ==
    /\ Provides /\ command.provider = "ai"
    /\ command.attempt < MaxRetries
    /\ command' = [command EXCEPT !.attempt = @ + 1]
    /\ Same /\ UNCHANGED <<files, cache, torn, paired>>

(* The same after the last retry, any other status, or an answer that is   *)
(* cut off or not of the expected form: AIProviderError ends the command.  *)
RequestFails ==
    /\ Provides /\ command.provider = "ai"
    /\ End
    /\ Same /\ UNCHANGED <<files, cache, torn, paired>>

Generated == command.name = "generate" /\ command.jobs = <<>>

WriteEvents ==
    /\ Generated /\ ~command.resolving
    /\ files' = [files EXCEPT
          !["event_plan"] = Resolve(command.events, command.pool)]
    /\ command' = [command EXCEPT !.resolving = TRUE]
    /\ paired' = None
    /\ Same /\ UNCHANGED <<cache, torn>>

WritePool ==
    /\ Generated /\ command.resolving
    /\ files' = [files EXCEPT !["semantic_pool"] =
          [scenario |-> command.scenario, assets |-> command.pool]]
    /\ paired' = command.force
    /\ End
    /\ Same /\ UNCHANGED <<cache, torn>>
-----------------------------------------------------------------------------
BeginRun(s, limit) ==
    /\ command = Idle /\ commands <= MaxBeforeRun
    /\ files["event_plan"] \notin {None, Torn}
    /\ IF s.kind = "export"
       THEN limit = None /\ StartExport(files["event_plan"], s)
       ELSE StartRun(files["event_plan"], s, limit)
    /\ UNCHANGED dirVars

Running == running \in {"write", "post"} /\ RunStep /\ UNCHANGED dirVars
Ran     == EndRun /\ UNCHANGED dirVars
-----------------------------------------------------------------------------
(* What a killed command leaves of the file it was writing.                *)
Cut(lines) == {Torn} \cup {SubSeq(lines, 1, n) : n \in 0..(Len(lines) - 1)}

KilledWith(file, left) ==
    /\ files' = [files EXCEPT ![file] = left]
    /\ paired' = None
    /\ End
    /\ Same /\ UNCHANGED <<cache, torn>>

(* Between two writes.                                                     *)
Killed ==
    /\ command # Idle
    /\ End
    /\ Same /\ UNCHANGED <<files, cache, torn, paired>>

KilledCompiling ==
    /\ command.name = "compile"
    /\ IF Writing = "event_plan"
       THEN \E left \in Cut(Attached(command.plan)) : KilledWith(Writing, left)
       ELSE /\ Writing # "ground_truth" \/ command.plan.truth
            /\ KilledWith(Writing, Torn)

KilledCaching ==
    /\ Provides
    /\ cache' = With(cache, JobKey, Torn)
    /\ End
    /\ Same /\ UNCHANGED <<files, torn, paired>>

KilledWriting ==
    /\ Generated
    /\ IF command.resolving THEN KilledWith("semantic_pool", Torn)
       ELSE \E left \in Cut(Resolve(command.events, command.pool)) :
                KilledWith("event_plan", left)

Compile ==
    \/ \E plan \in Plans, force \in BOOLEAN : BeginCompile(plan, force)
    \/ WriteFile
Generate ==
    \/ \E p \in Providers, force \in BOOLEAN : BeginGenerate(p, force)
    \/ TakeCached \/ CacheRaises \/ Render \/ Answer
    \/ RetryRequest \/ RequestFails
    \/ WriteEvents \/ WritePool
Run ==
    \/ \E s \in Sinks, limit \in Limits : BeginRun(s, limit)
    \/ Running \/ Ran
Kill == Killed \/ KilledCompiling \/ KilledCaching \/ KilledWriting

Next == Compile \/ Generate \/ Run \/ Kill

Spec == Init /\ [][Next]_vars
-----------------------------------------------------------------------------
Pool  == files["semantic_pool"].assets
Tasks == files["semantic_tasks"]

(* A generate has rewritten both the event plan and the pool, and neither  *)
(* has been written again; and no asset in it was found under the key of   *)
(* another.                                                                *)
Trusted == paired = TRUE \/ (paired = FALSE /\ KeysApart)

(* Once a generate has rewritten both the event plan and the pool, and as  *)
(* long as neither is written again, an event refers to each asset that    *)
(* the pool has for it, once, and to nothing else; their ids are distinct, *)
(* and there are as many for each task as it asks for an event of that     *)
(* type; commands that fail or are killed earlier do not change this.      *)
(* Without --force, it takes that cache keys do not coincide.              *)
RefsInPool ==
    Trusted =>
        /\ \A i, j \in DOMAIN Pool : Pool[i].id = Pool[j].id => i = j
        /\ \A e \in Range(files["event_plan"]) :
              /\ Range(e.refs) =
                    {a.id : a \in {b \in Range(Pool) : b.asset.event = e.id}}
              /\ \A i, j \in DOMAIN e.refs : e.refs[i] = e.refs[j] => i = j
              /\ \A t \in Range(Tasks) :
                    Cardinality({a \in Range(Pool) :
                        a.asset.task = t.id /\ a.asset.event = e.id})
                      = IF e.type \in t.validFor THEN t.count ELSE 0

(* What --force promises: "Force regeneration and ignore the cache".  The  *)
(* pool comes from the tasks as they are now, whatever was cached before,  *)
(* edited since, under whatever key, or left half written, and so does the *)
(* cache entry behind each asset, torn or not, when keys do not coincide;  *)
(* a torn entry fails no forced generate.  Without it, and with such keys, *)
(* the texts may be old, but each asset has the type of its task and is    *)
(* valid for its event.                                                    *)
ForcedIsFresh ==
    /\ torn # TRUE
    /\ Trusted =>
          \A a \in Range(Pool) : \E t \in Range(Tasks) :
              /\ a.asset.task = t.id /\ a.asset.type = t.type
              /\ a.asset.event # None =>
                    \E e \in Range(files["event_plan"]) :
                        e.id = a.asset.event /\ e.type \in t.validFor
              /\ paired = TRUE =>
                    /\ a.asset.text = t.wording
                    /\ KeysApart =>
                          cache[Key(a.asset.provider,
                                    files["semantic_pool"].scenario,
                                    t.id, a.asset.event)]
                             \in {a.asset, Torn}
=============================================================================
