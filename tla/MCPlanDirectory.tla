--------------------------- MODULE MCPlanDirectory ---------------------------
(* A scenario, an edit of it, and another scenario.                        *)
EXTENDS PlanDirectory

Task(id, type, wording, validFor, count) == [id |-> id, type |-> type,
    wording |-> wording, validFor |-> validFor, count |-> count]
Evt(id, type, time, attributes) ==
    [id |-> id, type |-> type, time |-> time, attributes |-> attributes]

(* The encoder needs f and d; the profile gets f from g, and g from h.     *)
MCMappings == <<<<"g", "h">>, <<"f", "g">>>>
Full   == {"f", "d"}
Mapped == {"h"}

(* The event plan is not in the order of time.                             *)
Written1 == [scenario |-> 11, version |-> 1, truth |-> TRUE,
    tasks  |-> <<Task(1, "reason", "why", {"A"}, 2),
                 Task(2, "note", "note", {}, 1)>>,
    events |-> <<Evt(2, "A", 5, Full), Evt(1, "B", 5, Mapped)>>]
(* Another wording, another type; and each event has become the other.     *)
Written2 == [scenario |-> 11, version |-> 2, truth |-> FALSE,
    tasks  |-> <<Task(1, "reason", "who", {"A", "B"}, 1),
                 Task(2, "remark", "note", {}, 1)>>,
    events |-> <<Evt(2, "B", 3, Mapped), Evt(1, "A", 4, {})>>]
(* A template that renders to white space.                                 *)
Written3 == [scenario |-> 13, version |-> 3, truth |-> FALSE,
    tasks  |-> <<Task(1, "reason", "why", {"B"}, 1),
                 Task(2, "note", Blank, {"A"}, 1)>>,
    events |-> <<Evt(2, "A", 0, Full), Evt(1, "B", 9, Full)>>]
MCPlans == {Written1, Written2, Written3}

(* 11 is refund_flow and 13 refund-flow, whose events have the same ids.   *)
MCWords == 11 :> <<11, 12>> @@ 13 :> <<13>> @@ 1 :> <<1>> @@ 2 :> <<2>>

Sink(kind, encode) ==
    [kind |-> kind, encode |-> encode, enrich |-> FALSE, skip |-> FALSE]
Export(encode, enrich, skip) == [kind |-> "export", encode |-> encode,
    enrich |-> enrich, skip |-> skip]
MCSinks == {Sink("http", TRUE), Sink("http", FALSE), Sink("file", TRUE),
            Sink("stdout", FALSE), Sink("null", FALSE),
            Export(FALSE, FALSE, FALSE)}
           \cup {Export(TRUE, enrich, skip) : enrich, skip \in BOOLEAN}
MCLimits == {None, 0, 1}
===============================================================================
