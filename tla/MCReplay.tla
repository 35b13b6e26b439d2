------------------------------ MODULE MCReplay ------------------------------
(* Three events of which two share their time, so that sorting permutes     *)
(* them; direct and pooled sinks, with and without a limit on failures, a   *)
(* limit on events, and pacing; a pool of two workers and a queue of one.   *)
EXTENDS Replay

CONSTANTS e1, e2, e3

MCEvents == {e1, e2, e3}
MCTime == (e1 :> 2) @@ (e2 :> 1) @@ (e3 :> 1)
MCId   == (e1 :> 1) @@ (e2 :> 3) @@ (e3 :> 2)

MCConfigs ==
    {c \in [pooled : BOOLEAN, limit : {0, 2}, maxFailures : {0, 1, 2},
            paced : BOOLEAN] :
        c.limit = 2 => c.maxFailures = 0 /\ ~c.paced}
=============================================================================
