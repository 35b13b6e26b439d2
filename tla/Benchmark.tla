------------------------------ MODULE Benchmark ------------------------------
(***************************************************************************)
(* benchmark validate and benchmark run, one after the other and over the  *)
(* same files: SuiteValidator of eventweave/evaluation/validator.py and    *)
(* run_benchmark of runner.py, with the loaders of io.py.                  *)
(*                                                                         *)
(* A file is None where there is none and Bad where it cannot be parsed.   *)
(*   suite        a sequence of scenarios [id, file, dir]: file is the id  *)
(*                in the scenario file, dir the directory of an explicit   *)
(*                ground_truth_path, or None                               *)
(*   plans        directory -> [truth, scenario, events], the files        *)
(*                ground_truth.json, scenario.json [id, jitter] and        *)
(*                event_plan.jsonl of a compiled plan, or None             *)
(*   outputs      agent -> scenario id -> [plain, suffixed]: the files     *)
(*                <id>.json and <id>_agent_output.json                     *)
(***************************************************************************)
EXTENDS Evaluation, Realism

CONSTANTS
    Bad,           \* a file that cannot be parsed
    Samples,       \* the directory of the sample outputs
    Benchmarks     \* the sets of files and options that are considered

(* A document holds lists of findings and stages, and finite sets of ids.  *)
Document(doc) ==
    /\ {"findings", "stages"} \subseteq DOMAIN doc
    /\ doc.findings \in Seq(Range(doc.findings))
    /\ doc.stages \in Seq(Range(doc.stages))
    /\ \A f \in Range(doc.findings) :
          IsFiniteSet(f.entities) /\ IsFiniteSet(f.evidence)
    /\ \A s \in Range(doc.stages) : IsFiniteSet(s.eventIds)

(* Agents are read from directories; every file that can be parsed is a    *)
(* document of its kind.                                                   *)
ASSUME BenchmarksAssumption ==
    /\ None \notin BOOLEAN
    /\ \A b \in Benchmarks :
          /\ b.minScore \in Int
          /\ b.suite \notin {None, Bad} => b.suite \in Seq(Range(b.suite))
          /\ Samples \in DOMAIN b.outputs
          /\ b.agents \in Seq(DOMAIN b.outputs)
          /\ \A dir \in DOMAIN b.plans :
                \/ b.plans[dir].truth \in {None, Bad}
                \/ Document(b.plans[dir].truth)
          /\ \A dir \in DOMAIN b.outputs : \A sid \in DOMAIN b.outputs[dir] :
                \A out \in {b.outputs[dir][sid].plain,
                            b.outputs[dir][sid].suffixed} :
                   out \in {None, Bad} \/ Document(out)

VARIABLES
    files,         \* [suite, plans, outputs, agents, gate, minScore]
    phase,         \* "validate", "run", or "raised": an exception
    at,            \* index of the scenario
    evaluating,    \* an Evaluator is at work on it
    failed,        \* the checks of the ValidationReport that failed
    passed,        \* ValidationReport.passed, once validate has returned
    agent,         \* run_benchmark: index of the agent directory
    reports,       \* per_scenario of that agent
    results,       \* agent_results: a sequence of aggregates
    ranking        \* of the Scorecard

benchVars == <<files, phase, at, evaluating, failed, passed, agent, reports,
               results, ranking>>
vars == <<evalVars, benchVars>>

NoFindings == [findings |-> <<>>, stages |-> <<>>]

BenchInit ==
    /\ files \in Benchmarks
    /\ phase = "validate" /\ at = 0 /\ evaluating = FALSE
    /\ failed = {} /\ passed = None
    /\ agent = 1 /\ reports = <<>> /\ results = <<>> /\ ranking = None
    /\ Init(NoFindings, NoFindings)

suite    == files.suite
Entry    == suite[at]
Readable(file) == file \notin {None, Bad}

(* An Evaluator is made for the scenario.                                  *)
Evaluate(gt, out) ==
    /\ truth' = WithStages(gt) /\ answer' = out
    /\ matched' = <<>> /\ stageMatched' = <<>> /\ metrics' = None
    /\ evaluating' = TRUE

Raise ==
    /\ phase' = "raised"
    /\ UNCHANGED <<evalVars, files, at, evaluating, failed, passed, agent,
                   reports, results, ranking>>

(* resolve_plan_dir; None stands for EvaluationIOError.                    *)
PlanDir(entry) == IF entry.dir # None THEN entry.dir
                  ELSE IF Readable(entry.file) THEN entry.file ELSE None
TruthOf(entry) ==
    LET dir == PlanDir(entry)
    IN  IF dir = None THEN None
        ELSE IF dir \notin DOMAIN files.plans THEN None
        ELSE IF files.plans[dir].truth = Bad THEN None
        ELSE files.plans[dir].truth
PlanOf(entry) == files.plans[PlanDir(entry)]

(* _discover_agent_output, followed by loading what it finds.              *)
OutputOf(dir, sid) ==
    LET found == IF sid \in DOMAIN files.outputs[dir]
                 THEN files.outputs[dir][sid]
                 ELSE [plain |-> None, suffixed |-> None]
    IN  IF found.plain # None THEN found.plain ELSE found.suffixed
-----------------------------------------------------------------------------
(* SuiteValidator.validate.                                                *)
Validating == phase = "validate" /\ ~evaluating
InScenario == Validating /\ at > 0 /\ at <= Len(suite)

Duplicates == \E i, j \in DOMAIN suite : i # j /\ suite[i].id = suite[j].id
LoadSuite ==
    /\ Validating
    /\ at = 0
    /\ IF Readable(suite)
       THEN /\ failed' = IF Duplicates THEN {"unique ids"} ELSE {}
            /\ at' = 1
            /\ UNCHANGED <<passed, phase>>
       ELSE /\ failed' = {"suite"}
            /\ passed' = FALSE
            /\ phase' = "run"
            /\ UNCHANGED at
    /\ UNCHANGED <<evalVars, files, evaluating, agent, reports, results,
                   ranking>>

(* Two expected findings with one type and stage, an absent stage being    *)
(* the same as an empty one.                                               *)
SameFinding(gt) ==
    \E i, j \in DOMAIN gt.findings :
       /\ i # j
       /\ gt.findings[i].type = gt.findings[j].type
       /\ gt.findings[i].stage = gt.findings[j].stage
EventIds(plan) == IF plan.events = None THEN {}
                  ELSE {e.id : e \in Range(plan.events)}

\* What is wrong with an entry, apart from its sample output.
PlanIssues(entry) ==
    LET gt   == TruthOf(entry)
        plan == PlanOf(entry)
        When(cond, issue) == IF cond THEN {issue} ELSE {}
    IN  When(gt.id # plan.scenario.id, "id match")
        \cup When(\E f \in Range(gt.findings) :
                     ~(f.evidence \subseteq EventIds(plan)), "evidence")
        \cup When(SameFinding(gt), "unique findings")
        \cup FailedGates(files.gate, One,
                         IF plan.events = None THEN <<>> ELSE plan.events,
                         plan.scenario.jitter)

Loadable(entry) == /\ Readable(PlanOf(entry).scenario)
                   /\ PlanOf(entry).events # Bad

Fail(issues) ==
    /\ failed' = failed \cup issues
    /\ UNCHANGED <<files, phase, passed, agent, reports, results, ranking>>

(* _validate_scenario, up to the evaluation of the sample output.          *)
ScenarioMissing ==
    /\ InScenario
    /\ Entry.file = None \/ TruthOf(Entry) = None
    /\ Fail({IF Entry.file = None THEN "exists" ELSE "compile"})
    /\ at' = at + 1
    /\ UNCHANGED <<evalVars, evaluating>>

(* load_event_plan and load_runtime_plan are outside the try block.        *)
ValidateRaises ==
    /\ InScenario
    /\ Entry.file # None /\ TruthOf(Entry) # None
    /\ ~Loadable(Entry)
    /\ Raise

\* The scenario has been loaded; its sample output is out.
Checking(out) ==
    /\ InScenario
    /\ Entry.file # None /\ TruthOf(Entry) # None
    /\ Loadable(Entry)
    /\ out = OutputOf(Samples, TruthOf(Entry).id)

SampleMissing ==
    /\ \E out \in {None, Bad} : Checking(out)
    /\ Fail(PlanIssues(Entry) \cup {"sample output"})
    /\ at' = at + 1
    /\ UNCHANGED <<evalVars, evaluating>>

SampleFound ==
    /\ InScenario
    /\ TruthOf(Entry) # None
    /\ LET out == OutputOf(Samples, TruthOf(Entry).id)
       IN  Readable(out) /\ Checking(out) /\ Evaluate(TruthOf(Entry), out)
    /\ Fail(PlanIssues(Entry))
    /\ UNCHANGED at

SampleScored ==
    /\ phase = "validate" /\ evaluating /\ metrics # None
    /\ Fail(IF Overall(metrics) >= files.minScore THEN {}
            ELSE {"sample score"})
    /\ at' = at + 1
    /\ evaluating' = FALSE
    /\ UNCHANGED evalVars

Validated ==
    /\ Validating
    /\ at > 0 /\ at > Len(suite)
    /\ passed' = (failed = {})
    /\ phase' = "run"
    /\ at' = 1
    /\ UNCHANGED <<evalVars, files, evaluating, failed, agent, reports,
                   results, ranking>>

Validate == \/ LoadSuite \/ ScenarioMissing \/ ValidateRaises
            \/ SampleMissing \/ SampleFound \/ SampleScored \/ Validated
-----------------------------------------------------------------------------
(* run_benchmark, over the agent directories in the order given.           *)
Running == /\ phase = "run" /\ ~evaluating
           /\ ranking = None /\ agent <= Len(files.agents)
AgentDir == files.agents[agent]

SuiteUnreadable ==
    phase = "run" /\ ~Readable(suite) /\ Raise

\* Mutated RunScenario: the output is looked up by the suite's own id.
RunScenarioById ==
    /\ Running
    /\ Readable(suite)
    /\ at \in DOMAIN suite
    /\ IF /\ TruthOf(Entry) # None
          /\ Readable(OutputOf(AgentDir, Entry.id))
       THEN /\ Evaluate(TruthOf(Entry), OutputOf(AgentDir, Entry.id))
            /\ UNCHANGED <<files, phase, at, failed, passed, agent, reports,
                           results, ranking>>
       ELSE Raise

(* A ground truth or an output that is missing or bad ends the run.        *)
RunScenario ==
    /\ Running
    /\ Readable(suite)
    /\ at \in DOMAIN suite
    /\ IF /\ TruthOf(Entry) # None
          /\ Readable(OutputOf(AgentDir, TruthOf(Entry).id))
       THEN /\ Evaluate(TruthOf(Entry),
                        OutputOf(AgentDir, TruthOf(Entry).id))
            /\ UNCHANGED <<files, phase, at, failed, passed, agent, reports,
                           results, ranking>>
       ELSE Raise

(* per_scenario is keyed by the suite's id: a repeated one overwrites.     *)
ScenarioRun ==
    /\ phase = "run" /\ evaluating /\ metrics # None
    /\ reports' = With(reports, Entry.id, metrics)
    /\ at' = at + 1
    /\ evaluating' = FALSE
    /\ UNCHANGED <<evalVars, files, phase, failed, passed, agent, results,
                   ranking>>

(* _aggregate_metrics, of the two scores by which agents are ranked.       *)
Aggregate ==
    IF DOMAIN reports = {} THEN [overall |-> 0, balanced |-> 0]
    ELSE [overall  |-> Mean([s \in DOMAIN reports |-> Overall(reports[s])]),
          balanced |-> Mean([s \in DOMAIN reports |-> Balanced(reports[s])])]
AgentRun ==
    /\ Running
    /\ Readable(suite)
    /\ at > Len(suite)
    /\ results' = Append(results, Aggregate)
    /\ reports' = <<>>
    /\ agent' = agent + 1
    /\ at' = 1
    /\ UNCHANGED <<evalVars, files, phase, evaluating, failed, passed,
                   ranking>>

(* _rank_agents: sorted() is stable, also with reverse=True.               *)
Better(i, j) ==
    LET a == results[i]
        b == results[j]
    IN  \/ a.balanced > b.balanced
        \/ a.balanced = b.balanced /\ a.overall > b.overall
        \/ a = b /\ i < j
Rank ==
    /\ phase = "run" /\ Readable(suite)
    /\ agent > Len(files.agents)
    /\ ranking = None
    /\ ranking' = Ranked(DOMAIN results,
                         {p \in (DOMAIN results) \X (DOMAIN results) :
                             Better(p[1], p[2])})
    /\ UNCHANGED <<evalVars, files, phase, at, evaluating, failed, passed,
                   agent, reports, results>>

Run == SuiteUnreadable \/ RunScenario \/ ScenarioRun \/ AgentRun \/ Rank
Evaluating == evaluating /\ EvaluateStep /\ UNCHANGED benchVars

Next == Validate \/ Run \/ Evaluating
Spec == BenchInit /\ [][Next]_vars
-----------------------------------------------------------------------------
(* What benchmark validate is for: a suite that passes it can be run on    *)
(* the sample outputs.  run_benchmark then raises nothing, ranks every     *)
(* agent, and gives the samples at least the score that was required; the  *)
(* ranking lists no agent before one with a better balanced score.         *)
ValidatedSuiteRuns ==
    /\ passed = TRUE /\ files.agents = <<Samples>> =>
          /\ phase # "raised"
          /\ ranking # None /\ suite # <<>> =>
                results[1].overall >= files.minScore
    /\ ranking # None =>
          /\ Len(ranking) = Len(files.agents)
          /\ \A i \in DOMAIN files.agents : i \in Range(ranking)
          /\ \A i, j \in DOMAIN ranking : i < j =>
                results[ranking[i]].balanced >= results[ranking[j]].balanced
=============================================================================
