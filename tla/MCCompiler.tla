----------------------------- MODULE MCCompiler -----------------------------
(* Eleven scenarios, each for one difficulty, over two packs directories:  *)
(* one with a cycle, and one in which a transitive dependency is missing.  *)
EXTENDS Compiler

MCTypes == {"user", "device", "ticket"}
MCEntityOf == ("user.login" :> "user") @@ ("user.act" :> "user")
              @@ ("device.ping" :> "device")

S(kind, arg) ==
    CASE kind = "ref"   -> [kind |-> "ref", step |-> arg, role |-> "subject"]
      [] kind = "plain" -> [kind |-> "plain", name |-> arg]
      [] kind = "flow"  -> [kind |-> "flow"]
      [] OTHER          -> [kind |-> kind, type |-> arg]
R(role, kind, arg) == [role |-> role, spec |-> S(kind, arg)]

Step == [id |-> None, event |-> "user.login", at |-> None, after |-> None,
         delay |-> None, certain |-> TRUE, jitter |-> None,
         refs |-> <<>>, amount |-> None, semantic |-> FALSE]
Template(key, count) ==
    [key |-> key, count |-> count, type |-> None, fields |-> {}]
RuleOf(kind, event, other, scope) ==
    [id |-> <<kind, event, other>>, kind |-> kind, event |-> event,
     other |-> other, scope |-> scope, values |-> {}]
Base == [domain |-> "main", duration |-> 2, forEach |-> "user",
         entities |-> <<Template("user", 1), Template("device", 1)>>,
         timeline |-> <<>>, tasks |-> <<>>, rules |-> <<>>,
         noise |-> None, jitter |-> None, realism |-> None]

Login == [Step EXCEPT !.refs = <<R("subject", "flow", None)>>, !.amount = 2]
Act == [Step EXCEPT !.event = "user.act", !.after = "user.login",
                    !.delay = <<0, 1>>, !.amount = 1]
JitterBy(m, preserve) == [enabled |-> TRUE, max |-> m, preserve |-> preserve]
NoiseBy(halves, event, role, spec) ==
    [enabled |-> TRUE, halves |-> halves,
     events |-> <<[event |-> event, role |-> role, spec |-> spec]>>]

Rules1 == <<RuleOf("event_after", "user.act", "user.login", "subject"),
            RuleOf("event_before", "user.login", "user.act", "global"),
            RuleOf("field_lte_ref", "user.act", "user.login", None),
            RuleOf("bare", None, None, None)>>

(* Two flows, an optional step that makes a ticket and refers back.        *)
Flows == [Base EXCEPT
    !.entities = <<Template("user", 2), Template("device", 2)>>,
    !.timeline = <<Login,
        [Act EXCEPT !.certain = FALSE, !.semantic = TRUE,
           !.refs = <<R("subject", "ref", "user.login"),
                      R("ticket", "new", "ticket"),
                      R("device", "entity", "device")>>]>>,
    !.tasks = <<[id |-> <<"summary">>, validFor |-> {}]>>,
    !.rules = Rules1]
(* Three steps of one flow in order-preserving jitter.                     *)
Preserved == [Base EXCEPT
    !.timeline = <<Login, [Act EXCEPT !.id = "first"],
                   [Act EXCEPT !.id = "second", !.after = "first"]>>,
    !.rules = <<RuleOf("event_after", "user.act", "user.login", None)>>,
    !.jitter = JitterBy(2, TRUE)]
(* Two flows and a noise group, whose members are kept apart as well.      *)
Crowd == [Base EXCEPT
    !.entities = <<Template("user", 2), Template("device", 1)>>,
    !.timeline = <<Login, [Act EXCEPT !.jitter = 1]>>,
    !.noise = NoiseBy(1, "device.ping", "device", S("entity", "device")),
    !.jitter = JitterBy(1, TRUE), !.duration = 1]
(* One flow with jitter that does not preserve order, and step jitter.     *)
Shuffled == [Base EXCEPT
    !.timeline = <<[Login EXCEPT !.at = 1],
                   [Act EXCEPT !.jitter = 1, !.amount = Text],
                   [Act EXCEPT !.event = "device.ping", !.at = 0,
                               !.jitter = 1]>>,
    !.rules = Rules1, !.jitter = JitterBy(1, FALSE)]
(* Noise of two events for three halves, around a plan with $new.          *)
Noisy == [Base EXCEPT
    !.timeline = <<[Login EXCEPT !.refs = <<R("ticket", "new", "ticket")>>]>>,
    !.noise = NoiseBy(3, "device.ping", "device", S("entity", "device")),
    !.realism = [profile |-> [pack |-> None, id |-> "calm"],
                 noise |-> None, jitter |-> JitterBy(1, TRUE)]]
(* An inferred primary type, and references that do not resolve.           *)
Inferred == [Base EXCEPT
    !.forEach = None,
    !.timeline = <<[Login EXCEPT !.refs = <<R("a", "entity", "ticket"),
                       R("b", "ref", "nowhere"), R("c", "plain", "device"),
                       R("d", "plain", "other")>>]>>,
    !.noise = NoiseBy(2, "user.act", "x", S("flow", None)),
    !.realism = [profile |-> [pack |-> "base", id |-> "calm"],
                 noise |-> None, jitter |-> None],
    !.rules = <<RuleOf("required_entity_ref", "user.login", "a", None),
                RuleOf("field_range", "user.login", None, None)>>]
(* A step that may make another entity of the primary type.                *)
Feeding == [Base EXCEPT
    !.timeline = <<[Login EXCEPT !.certain = FALSE,
                       !.refs = <<R("friend", "new", "user")>>]>>]
(* A plan without issues, whose rule jitter may break.                     *)
Clean == [Base EXCEPT
    !.timeline = <<Login, [Act EXCEPT !.amount = None, !.delay = <<1, 1>>]>>,
    !.rules = <<RuleOf("event_after", "user.act", "user.login", None)>>,
    !.jitter = JitterBy(1, FALSE)]
(* A rule type that does not exist, a profile that does not exist.         *)
Unknown == [Base EXCEPT
    !.timeline = <<Login>>,
    !.rules = <<RuleOf("unknown", "user.act", None, None)>>]
NoProfile == [Base EXCEPT
    !.realism = [profile |-> [pack |-> None, id |-> "wild"],
                 noise |-> None, jitter |-> None]]

(* A delay with its ends swapped, and a step that cannot be compiled.      *)
Swapped == [Base EXCEPT
    !.timeline = <<Login, [Act EXCEPT !.delay = <<1, 0>>],
                   [Act EXCEPT !.certain = FALSE, !.id = "last",
                               !.delay = Unreadable]>>]

MCScenarios == {Flows, Preserved, Crowd, Shuffled, Noisy, Inferred, Feeding,
                Clean, Unknown, NoProfile, Swapped}
-----------------------------------------------------------------------------
Event(fields, refs) == [fields |-> fields, refs |-> refs]
Empty == [x \in {} |-> x]
Pack(deps) == [named |-> TRUE, deps |-> deps, hasEntities |-> TRUE,
               entities |-> Empty, events |-> Empty, rules |-> <<>>,
               profiles |-> Empty, encoders |-> {}, typed |-> TRUE,
               rulesListed |-> TRUE]

Main == [Pack(<<"base", "extra">>) EXCEPT
    !.entities = ("user" :> {}) @@ ("ticket" :> {"title"}),
    !.events = ("user.login" :> Event({"amount"}, "subject" :> "user"))
               @@ ("user.act" :> Event({"amount"}, Empty)),
    !.encoders = {[known |-> TRUE, events |-> {"user.login"}]}]
BasePack == [Pack(<<"main">>) EXCEPT
    !.entities = "device" :> {},
    !.events = "device.ping" :> Event({}, "device" :> "device"),
    !.profiles = "calm" :> [noise |-> None, jitter |-> JitterBy(2, FALSE)]]
Extra == [Pack(<<"base">>) EXCEPT
    !.events = "user.act" :> Event({}, Empty),
    !.rules = <<RuleOf("field_required", "user.login", None, None)>>]

MCPackIds == {"main", "base", "extra", "deep"}
Disk(main, base, extra, deep) ==
    ("main" :> main) @@ ("base" :> base) @@ ("extra" :> extra)
    @@ ("deep" :> deep)
MCDisks ==
    {Disk(Main, BasePack, Extra, Pack(<<>>)),
     Disk(Main, BasePack, [Extra EXCEPT !.deps = <<"base", "deep">>], None)}
=============================================================================
