---------------------------- MODULE MCBenchmark ----------------------------
(* Every ground truth and answer of up to three findings (two in an answer *)
(* with fewer stages), and suites with the faults that files may have.     *)
EXTENDS Benchmark

(* The types 1 and 2, stages 3 and 4, an entity 5, events 6 and 7; 8, 9    *)
(* and 10 are other spellings of 1, 3 and 5.                               *)
MCNames  == 1..10
MCNormal == [n \in MCNames |-> IF n < 8 THEN n
                               ELSE CASE n = 8 -> 1 [] n = 9 -> 3 [] OTHER -> 5]

F(type, stage, entities, evidence) == [type |-> type, stage |-> stage,
    entities |-> entities, evidence |-> evidence]
AnyStage == F(1, None, {5}, {6})
InThree  == F(1, 3, {5}, {6, 7})
InFour   == F(1, 4, {}, {7})
Other    == F(2, 3, {5}, {})
Spelled  == F(8, 9, {10}, {6})
UpTo(S, n) == UNION {[1..k -> S] : k \in 0..n}

GT(id, findings) == [id |-> id, findings |-> findings, stages |-> <<>>]
Answer(findings) == WithStages(GT("a", findings))
Event(id, noise, time) == [id |-> id, type |-> id, source |-> "s",
    noise |-> noise, key |-> ~noise, time |-> time]
Events == <<Event(6, FALSE, 0), Event(7, TRUE, 10), Event(11, TRUE, 70)>>
PlanFor(gt) == [truth |-> gt, events |-> Events,
                scenario |-> [id |-> gt.id, jitter |-> FALSE]]
Plain(out)    == [plain |-> out, suffixed |-> None]
Suffixed(out) == [plain |-> None, suffixed |-> out]
Scenario(id, file, dir) == [id |-> id, file |-> file, dir |-> dir]
NoGate == [noise |-> None, types |-> None, sources |-> None,
           burst |-> None, jitter |-> None]

Base == [suite |-> <<Scenario("x", "a", None)>>, agents |-> <<Samples>>,
         gate |-> NoGate, minScore |-> One,
         plans |-> "a" :> PlanFor(GT("a", <<InThree>>)),
         outputs |-> Samples :> ("a" :> Plain(Answer(<<InThree>>)))]

(* One scenario, any ground truth and any answer.                          *)
Score(gt, out) == [Base EXCEPT
    !.plans = "a" :> PlanFor(gt), !.outputs = Samples :> ("a" :> Plain(out))]
Truths  == UpTo({AnyStage, InThree, InFour, Other}, 2)
           \cup {<<AnyStage, InThree, InFour>>, <<InThree, AnyStage, Other>>,
                 <<AnyStage, Other, InThree>>, <<InFour, InThree, AnyStage>>}
Answers == UpTo({AnyStage, InThree, InFour, Other, Spelled}, 3)
Stages  == {<<>>, <<[stage |-> 4, eventIds |-> {7}],
                    [stage |-> 9, eventIds |-> {6}]>>}
Scores ==
    {Score(GT("a", t), Answer(a)) : t \in Truths, a \in Answers}
    \cup {Score([GT("a", t) EXCEPT !.stages = s],
                [Answer(a) EXCEPT !.stages = r]) :
             t \in UpTo({InThree, InFour}, 2), s \in Stages,
             a \in UpTo({InThree, Spelled}, 1), r \in Stages}

(* Two scenarios: one found by its file, one by an explicit path, whose    *)
(* ground truth has an id of its own.                                      *)
Two == [Base EXCEPT
    !.suite = <<Scenario("x", "a", None), Scenario("y", "c", "dir")>>,
    !.plans = ("a" :> PlanFor(GT("a", <<InThree>>)))
              @@ ("dir" :> PlanFor(GT("b", <<InFour, AnyStage>>))),
    !.outputs = (Samples :> (("a" :> Plain(Answer(<<InThree>>)))
                   @@ ("b" :> Suffixed(Answer(<<InFour, AnyStage>>)))
                   @@ ("y" :> Plain(Answer(<<>>)))))
                @@ ("agent" :> (("a" :> Plain(Answer(<<Spelled>>)))
                   @@ ("b" :> Plain(Answer(<<AnyStage, InFour>>)))))]
Gated(name, least) == [Two EXCEPT !.gate[name] = least]
Faults ==
    {Two, [Two EXCEPT !.agents = <<"agent", Samples>>],
     [Two EXCEPT !.agents = <<Samples, "agent">>, !.minScore = 0],
     [Two EXCEPT !.agents = <<Samples, Samples>>],
     [Two EXCEPT !.suite[2].id = "x"], [Two EXCEPT !.suite[1].file = None],
     [Two EXCEPT !.suite[1].file = Bad], [Two EXCEPT !.suite = Bad],
     [Two EXCEPT !.suite = <<>>], [Two EXCEPT !.suite[2].dir = "none"],
     [Two EXCEPT !.suite[2].file = Bad],
     [Two EXCEPT !.plans["a"].truth = None],
     [Two EXCEPT !.plans["a"].truth = Bad],
     [Two EXCEPT !.plans["a"].events = None],
     [Two EXCEPT !.plans["a"].events = Bad],
     [Two EXCEPT !.plans["dir"].scenario = None],
     [Two EXCEPT !.plans["dir"].scenario.id = "z"],
     [Two EXCEPT !.plans["dir"].truth.findings = <<InFour, InFour>>],
     [Two EXCEPT !.outputs[Samples]["b"].plain = Bad],
     [Two EXCEPT !.outputs[Samples]["b"].suffixed = None]}
    \cup {Gated("noise", n) : n \in {2 * One, 3 * One}}
    \cup {Gated("types", n) : n \in {3, 4}}
    \cup {Gated("sources", n) : n \in {1, 2}}
    \cup {Gated("burst", n) : n \in {3, 5}} \cup {Gated("jitter", TRUE)}

MCBenchmarks == Scores \cup Faults
=============================================================================
