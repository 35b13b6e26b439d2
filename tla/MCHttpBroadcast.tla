--------------------------- MODULE MCHttpBroadcast ---------------------------
(* Two connections, three events, a replay buffer and channels that are     *)
(* full with fewer events than the plan has.                                *)
EXTENDS HttpBroadcast
=============================================================================
