-------------------------------- MODULE Packs --------------------------------
(***************************************************************************)
(* The pack registry of eventweave/compiler/pack_loader.py, and the two    *)
(* users of it that only read: the resolution of a realism profile         *)
(* (realism_resolver.py) and the merging of schemas (schema_validator.py). *)
(*                                                                         *)
(* A pack on disk is a record of what its files declare:                   *)
(*   named       pack.yaml has a name and a version                        *)
(*   deps        depends_on, a sequence of pack ids                        *)
(*   hasEntities the entities directory exists                             *)
(*   entities    entity type -> the set of its required fields             *)
(*   events      event type -> [fields, refs]: the required fields, and    *)
(*               the entity type that each role must refer to              *)
(*   rules       a sequence of rules (module Rules)                        *)
(*   profiles    profile id -> [noise, jitter]                             *)
(*   encoders    a set of [known, events]                                  *)
(*   typed       no schema declares a type that differs from its key       *)
(*   rulesListed rules.yaml is absent, or has a list under "rules"         *)
(* and None stands for a pack that load() does not accept: its directory   *)
(* or pack.yaml is missing, or a file cannot be parsed, realism profiles   *)
(* that do not validate included.                                          *)
(***************************************************************************)
EXTENDS PyNone

CONSTANTS
    PackIds        \* the names a pack directory may have

VARIABLES
    disk,          \* the packs directory: PackIds -> pack or None
    stack,         \* load_with_dependencies: what is still to be visited
    loaded         \* its result, a dictionary: pack ids in insertion order

packVars == <<disk, stack, loaded>>

Visited == Range(loaded)

\* The pack that the loop takes from the stack next.
Current == Last(stack)

SkipVisited ==
    /\ stack # <<>>
    /\ Current \in Visited
    /\ stack' = Front(stack)
    /\ UNCHANGED <<disk, loaded>>

\* Mutated LoadPack: what has been visited is not remembered.
LoadPackUnmarked ==
    /\ stack # <<>>
    /\ disk[Current] # None
    /\ loaded' = IF Current \in Visited THEN loaded
                 ELSE Append(loaded, Current)
    /\ stack' = Front(stack) \o disk[Current].deps
    /\ UNCHANGED disk

\* Mutated LoadPack: the dependencies of dependencies are not followed.
LoadPackDirectOnly ==
    /\ stack # <<>>
    /\ Current \notin Visited
    /\ disk[Current] # None
    /\ loaded' = Append(loaded, Current)
    /\ stack' = Front(stack)
                 \o IF loaded = <<>>
                    THEN Only(disk[Current].deps, PackIds \ {Current})
                    ELSE <<>>
    /\ UNCHANGED disk

LoadPack ==
    /\ stack # <<>>
    /\ Current \notin Visited
    /\ disk[Current] # None
    /\ loaded' = Append(loaded, Current)
    /\ stack' = Front(stack)
                 \o Only(disk[Current].deps,
                         PackIds \ (Visited \cup {Current}))
    /\ UNCHANGED disk

(* load() raises PackLoadError.                                            *)
PackMissing == stack # <<>> /\ Current \notin Visited /\ disk[Current] = None
-----------------------------------------------------------------------------
(* Dictionaries merged with dict.update, in the order packs were loaded.   *)
Merged(Part(_)) ==
    FoldLeft(LAMBDA acc, p : Part(disk[p]) @@ acc, <<>>, loaded)

EventSchemas  == Merged(LAMBDA pack : pack.events)
EntitySchemas == Merged(LAMBDA pack : pack.entities)
PackRules     == FlattenSeq([i \in DOMAIN loaded |-> disk[loaded[i]].rules])

(* _lookup_profile.  A reference names a profile and perhaps a pack;       *)
(* without a pack, or with the scenario's own, the dependencies are        *)
(* searched as well, in the order they were loaded.  None: CompileError.   *)
Profile(ref, domain) ==
    LET pack    == IF ref.pack = None THEN domain ELSE ref.pack
        Has(p)  == ref.id \in DOMAIN disk[p].profiles
        holders == Only(loaded, {p \in Visited : Has(p)})
    IN  IF disk[pack] = None THEN None
        ELSE IF Has(pack) THEN disk[pack].profiles[ref.id]
        ELSE IF pack = domain /\ holders # <<>>
             THEN disk[Head(holders)].profiles[ref.id]
        ELSE None

(* What depends_on reaches from a pack: the least closed set.              *)
Reachable(p) ==
    LET Closed(S) == \A q \in S : disk[q] # None =>
                                      Range(disk[q].deps) \subseteq S
    IN  {q \in PackIds : \A S \in SUBSET PackIds :
                             p \in S /\ Closed(S) => q \in S}

(* The fatal issues that validate_pack reports, except those of compiling  *)
(* the pack's examples.  When a dependency cannot be loaded, the schemas   *)
(* of the pack alone are inspected.                                        *)
PackErrors(p) ==
    IF disk[p] = None THEN {"cannot be loaded"}
    ELSE LET pack  == disk[p]
             known == UNION {DOMAIN disk[q].entities :
                                q \in IF \E r \in Reachable(p) : disk[r] = None
                                      THEN {p} ELSE Reachable(p)}
             When(cond, issue) == IF cond THEN {issue} ELSE {}
         IN  When(~pack.named, "unnamed")
             \cup When(\E d \in Range(pack.deps) : disk[d] = None,
                       "dependency not found")
             \cup When(~pack.hasEntities, "no entities directory")
             \cup When(~pack.rulesListed, "no list of rules")
             \cup When(\E q \in Reachable(p) : disk[q] = None,
                       "dependency schemas")
             \cup When(~pack.typed, "schema type mismatch")
             \cup When(\E t \in DOMAIN pack.events :
                           ~(Range(pack.events[t].refs) \subseteq known),
                       "unknown entity type")
             \cup When(\E c \in pack.encoders :
                           ~c.known \/ ~(c.events \subseteq DOMAIN pack.events),
                       "encoder")
=============================================================================
