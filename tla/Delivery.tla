----------------------------- MODULE Delivery -----------------------------
(***************************************************************************)
(* What one replay of an event plan promises, whatever sink it writes to   *)
(* and however the sink is wrapped: events are offered one at a time in    *)
(* plan order, none twice and none before an earlier one that is left out; *)
(* an offer is turned down or taken; and when the replay is over, every    *)
(* event that was taken has been written.                                  *)
(***************************************************************************)
EXTENDS Integers, Sequences

CONSTANTS
    Events,
    Before(_, _)   \* the order in which a plan demands its events

VARIABLES
    order,         \* the events to replay, in their order
    offered,       \* how many of them have been offered
    status,        \* what became of each event
    over           \* the replay has returned to its caller

vars == <<order, offered, status, over>>

Init ==
    /\ order = <<>>
    /\ offered = 0
    /\ status = [e \in Events |-> "waiting"]
    /\ over = FALSE

(* The plan is loaded, never out of order, and as a whole or cut short at  *)
(* its end: whatever comes before an event of it is in it as well.         *)
Load ==
    /\ ~over
    /\ order = <<>>
    /\ \A i, j \in DOMAIN order' : i < j => Before(order'[i], order'[j])
    /\ \A i \in DOMAIN order', e \in Events :
          Before(e, order'[i]) => \E j \in DOMAIN order' : order'[j] = e
    /\ UNCHANGED <<offered, status, over>>

(* The next event is offered.                                              *)
Offer ==
    /\ ~over
    /\ offered < Len(order)
    /\ offered' = offered + 1
    /\ status[order[offered']] = "waiting"
    /\ \E verdict \in {"taken", "refused", "written"} :
           status' = [status EXCEPT ![order[offered']] = verdict]
    /\ UNCHANGED <<order, over>>

(* An event that was taken is refused after all, or written.               *)
Settle(e) ==
    /\ ~over
    /\ status[e] = "taken"
    /\ \E verdict \in {"refused", "written"} :
           status' = [status EXCEPT ![e] = verdict]
    /\ UNCHANGED <<order, offered, over>>

(* The replay may stop early, but never with an event in its hands.        *)
Stop ==
    /\ \A e \in Events : status[e] # "taken"
    /\ over' = TRUE
    /\ UNCHANGED <<order, offered, status>>

Next == Load \/ Offer \/ Stop \/ \E e \in Events : Settle(e)

Spec == Init /\ [][Next]_vars
=============================================================================
