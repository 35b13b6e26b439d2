----------------------------- MODULE Evaluation -----------------------------
(***************************************************************************)
(* Evaluator of eventweave/evaluation/evaluator.py: the findings and the   *)
(* timeline stages that an agent reports are matched against the expected  *)
(* ones, first fit in the order listed, and scored.                        *)
(*                                                                         *)
(* Types, stages, entities and event ids are strings, here numbers in the  *)
(* order of the strings; Normal maps each to its stripped, lower-case      *)
(* form.  A finding is [type, stage, entities, evidence] with a stage that *)
(* may be None, a timeline stage is [stage, eventIds]; the lists of ids    *)
(* are only ever used as sets.  A ratio is counted in units of 1/One.      *)
(***************************************************************************)
EXTENDS PyNone

CONSTANTS
    Names,         \* the strings
    Normal,        \* _normalize
    One            \* the ratio 1.0; a multiple of every denominator

ASSUME NamesAssumption ==
    /\ Names \subseteq Nat
    /\ Normal \in [Names -> Names]
    /\ One \in Nat \ {0}

VARIABLES
    truth,         \* the ground truth: [findings, stages], two sequences
    answer,        \* the agent output: [findings, stages]
    matched,       \* for each expected finding so far, the index of the
                   \* finding matched with it, or 0
    stageMatched,  \* the same for timeline stages
    metrics        \* of the EvaluationReport, None before

evalVars == <<truth, answer, matched, stageMatched, metrics>>

(* GroundTruth without expected_timeline_stages derives them from the      *)
(* stages of its findings.                                                 *)
WithStages(gt) ==
    LET Of(s)  == {f \in Range(gt.findings) : f.stage = s}
        stages == {f.stage : f \in Range(gt.findings)} \ {None}
        sorted == Ranked(stages, {p \in Names \X Names : p[1] < p[2]})
    IN  IF gt.stages # <<>> THEN gt
        ELSE [gt EXCEPT !.stages =
                [i \in DOMAIN sorted |->
                   [stage |-> sorted[i],
                    eventIds |-> UNION {f.evidence : f \in Of(sorted[i])}]]]

(* Evaluator(gt, out) is made.                                             *)
Init(gt, out) ==
    /\ truth = WithStages(gt)
    /\ answer = out
    /\ matched = <<>> /\ stageMatched = <<>>
    /\ metrics = None
-----------------------------------------------------------------------------
Fits(expected, candidate) ==
    /\ Normal[candidate.type] = Normal[expected.type]
    /\ expected.stage # None =>
          /\ candidate.stage # None
          /\ Normal[candidate.stage] = Normal[expected.stage]
FitsStage(expected, candidate) ==
    Normal[candidate.stage] = Normal[expected.stage]

(* The unconsumed candidates for the next expectation.                     *)
Open ==
    {c \in DOMAIN answer.findings :
        /\ c \notin Range(matched)
        /\ Fits(truth.findings[Len(matched) + 1], answer.findings[c])}
OpenStages ==
    {c \in DOMAIN answer.stages :
        /\ c \notin Range(stageMatched)
        /\ FitsStage(truth.stages[Len(stageMatched) + 1], answer.stages[c])}

InFindings == metrics = None /\ Len(matched) < Len(truth.findings)
InStages   == /\ metrics = None
              /\ Len(matched) = Len(truth.findings)
              /\ Len(stageMatched) < Len(truth.stages)

\* Mutated MatchFinding: a consumed candidate is not passed over.
MatchFindingAgain ==
    /\ InFindings
    /\ \E c \in DOMAIN answer.findings :
          LET fits == {d \in DOMAIN answer.findings :
                          Fits(truth.findings[Len(matched) + 1],
                               answer.findings[d])}
          IN  /\ c \in fits /\ \A d \in fits : c <= d
              /\ matched' = Append(matched, c)
    /\ UNCHANGED <<truth, answer, stageMatched, metrics>>

\* Mutated MatchFinding: the last candidate is taken, not the first.
MatchFindingLast ==
    /\ InFindings
    /\ \E c \in Open : /\ \A d \in Open : d <= c
                       /\ matched' = Append(matched, c)
    /\ UNCHANGED <<truth, answer, stageMatched, metrics>>

(* One expected finding of evaluate's loop, with and without a match.      *)
MatchFinding ==
    /\ InFindings
    /\ \E c \in Open : /\ \A d \in Open : c <= d
                       /\ matched' = Append(matched, c)
    /\ UNCHANGED <<truth, answer, stageMatched, metrics>>
MissFinding ==
    /\ InFindings
    /\ Open = {}
    /\ matched' = Append(matched, 0)
    /\ UNCHANGED <<truth, answer, stageMatched, metrics>>

(* One expected stage of _evaluate_timeline_stages.                        *)
MatchStage ==
    /\ InStages
    /\ \E c \in OpenStages : /\ \A d \in OpenStages : c <= d
                             /\ stageMatched' = Append(stageMatched, c)
    /\ UNCHANGED <<truth, answer, matched, metrics>>
MissStage ==
    /\ InStages
    /\ OpenStages = {}
    /\ stageMatched' = Append(stageMatched, 0)
    /\ UNCHANGED <<truth, answer, matched, metrics>>
-----------------------------------------------------------------------------
Normalized(S) == {Normal[x] : x \in S}
Ratio(n, of)  == (n * One) \div of
Common(expected, actual) ==
    Cardinality(Normalized(expected) \cap Normalized(actual))

Recall(expected, actual) ==
    IF expected = {} THEN One
    ELSE Ratio(Common(expected, actual), Cardinality(Normalized(expected)))
Precision(expected, actual) ==
    IF actual = {} THEN One
    ELSE Ratio(Common(expected, actual), Cardinality(Normalized(actual)))

Hits(m)     == {i \in DOMAIN m : m[i] # 0}
Mean(score) == IF DOMAIN score = {} THEN 0
               ELSE SumFunction(score) \div Cardinality(DOMAIN score)

(* The metrics of findings, for the matches m of a ground truth with an    *)
(* answer; the expectations with a stage are counted apart.                *)
Staged(gt) == {i \in DOMAIN gt.findings : gt.findings[i].stage # None}

FindingMetrics(gt, out, m) ==
    LET hits        == Hits(m)
        matches     == Cardinality(hits)
        staged      == Staged(gt)
        Expects(i)  == gt.findings[i]
        Reports(i)  == out.findings[m[i]]
    IN  IF gt.findings = <<>>
        THEN [findingTypeRecall |-> One, entityRecall |-> One,
              eventIdRecall |-> One, timelineStageAccuracy |-> One,
              findingTypePrecision |-> One, entityPrecision |-> One,
              eventIdPrecision |-> One]
        ELSE [findingTypeRecall |-> Ratio(matches, Len(gt.findings)),
              entityRecall |-> Mean([i \in hits |->
                 Recall(Expects(i).entities, Reports(i).entities)]),
              eventIdRecall |-> Mean([i \in hits |->
                 Recall(Expects(i).evidence, Reports(i).evidence)]),
              timelineStageAccuracy |->
                 IF staged = {} THEN One
                 ELSE Ratio(Cardinality(hits \cap staged),
                            Cardinality(staged)),
              findingTypePrecision |->
                 IF out.findings = <<>> THEN One
                 ELSE Ratio(matches, Len(out.findings)),
              entityPrecision |-> Mean([i \in hits |->
                 Precision(Expects(i).entities, Reports(i).entities)]),
              eventIdPrecision |-> Mean([i \in hits |->
                 Precision(Expects(i).evidence, Reports(i).evidence)])]

(* The recall of events counts missed stages as zero, their precision does *)
(* not count them.                                                         *)
StageMetrics(gt, out, m) ==
    LET hits    == Hits(m)
        matches == Cardinality(hits)
        All(r)  == [stageRecall |-> r, stagePrecision |-> r,
                    eventRecall |-> r, eventPrecision |-> r]
    IN  IF gt.stages = <<>>
        THEN All(IF out.stages = <<>> THEN One ELSE 0)
        ELSE [stageRecall |-> Ratio(matches, Len(gt.stages)),
              stagePrecision |-> IF out.stages = <<>> THEN 0
                                 ELSE Ratio(matches, Len(out.stages)),
              eventRecall |->
                 SumFunction([i \in hits |->
                    Recall(gt.stages[i].eventIds, out.stages[m[i]].eventIds)])
                 \div Len(gt.stages),
              eventPrecision |-> Mean([i \in hits |->
                 Precision(gt.stages[i].eventIds,
                           out.stages[m[i]].eventIds)])]

(* overall_score and balanced_score are means of four and of seven.        *)
Overall(m) ==
    (m.findingTypeRecall + m.entityRecall + m.eventIdRecall
     + m.timelineStageAccuracy) \div 4
Balanced(m) ==
    (m.findingTypeRecall + m.entityRecall + m.eventIdRecall
     + m.timelineStageAccuracy + m.findingTypePrecision
     + m.entityPrecision + m.eventIdPrecision) \div 7

Report ==
    /\ metrics = None
    /\ Len(matched) = Len(truth.findings)
    /\ Len(stageMatched) = Len(truth.stages)
    /\ metrics' = Updated(FindingMetrics(truth, answer, matched),
                          StageMetrics(truth, answer, stageMatched))
    /\ UNCHANGED <<truth, answer, matched, stageMatched>>

EvaluateStep == MatchFinding \/ MissFinding \/ MatchStage \/ MissStage \/ Report
-----------------------------------------------------------------------------
(* evaluate() takes no finding of the agent twice, and for each expected   *)
(* finding takes the first that fits and that no earlier expectation has   *)
(* taken: one is reported as missed only when all that fit were taken.     *)
(* In the report every expected finding is then matched or missed, and     *)
(* every finding of the agent matched with one expectation or extra.       *)
Expected(i) == truth.findings[i]
Reported(i) == answer.findings[matched[i]]
Earlier(i)  == {matched[k] : k \in 1..(i - 1)}
TakenOnce   == \A i, j \in DOMAIN matched :
                  matched[i] = matched[j] /\ matched[i] # 0 => i = j
TakenFits   == \A i \in DOMAIN matched :
                  matched[i] # 0 =>
                     /\ matched[i] \in DOMAIN answer.findings
                     /\ Fits(Expected(i), Reported(i))
FirstTaken  == \A i \in DOMAIN matched, c \in DOMAIN answer.findings :
                  /\ Fits(Expected(i), answer.findings[c])
                  /\ matched[i] = 0 \/ c < matched[i]
                  => c \in Earlier(i)
FirstFit    == TakenOnce /\ TakenFits /\ FirstTaken

(* What the scores promise.  An agent that reports exactly the ground      *)
(* truth, in its order, has the best score in every metric; no metric      *)
(* leaves the range 0..1; and the order in which findings are listed costs *)
(* at most half of the recall that the best matching would have had.       *)
BestMatching ==
    LET n     == Len(truth.findings)
        Sub(m) == Cardinality({i \in 1..n : m[i] # 0})
        all   == {m \in [1..n -> 0..Len(answer.findings)] :
                    \A i, j \in 1..n :
                       m[i] # 0 => /\ Fits(Expected(i), answer.findings[m[i]])
                                   /\ m[i] = m[j] => i = j}
    IN  CHOOSE k \in 0..n : /\ \E m \in all : Sub(m) = k
                            /\ \A m \in all : Sub(m) <= k
ScoresFair ==
    metrics # None =>
       /\ \A k \in DOMAIN metrics : metrics[k] \in 0..One
       /\ truth = answer => \A k \in DOMAIN metrics : metrics[k] = One
       /\ BestMatching <= 2 * Cardinality(Hits(matched))
=============================================================================
