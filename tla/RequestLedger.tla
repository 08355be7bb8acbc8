--------------------------- MODULE RequestLedger ---------------------------
(***************************************************************************)
(* What the plugin's front end promises of each analysis request, without  *)
(* queues, threads or batches: it is refused, or it waits and is taken up  *)
(* when fewer than Limit others are under way, and then it becomes a job   *)
(* or a reported failure, once and never both.  At shutdown what waits is  *)
(* taken up whatever the limit.  Admission implements it.                  *)
(***************************************************************************)
EXTENDS Naturals, FiniteSets

CONSTANTS
    Requests,
    Limit          \* how many may be under way; 0 is no limit

VARIABLES
    status,        \* what has become of each request
    stopping       \* the shutdown has begun

Statuses == {"new", "refused", "waiting", "inflight", "job", "over", "failed"}

Having(S) == {r \in Requests : status[r] \in S}
Becomes(S, s) == status' = [r \in Requests |-> IF r \in S THEN s ELSE status[r]]

Room == Limit > 0 => Cardinality(Having({"inflight", "job"})) < Limit

Init == status = [r \in Requests |-> "new"] /\ stopping = FALSE

Refuse(r) == status[r] = "new" /\ Becomes({r}, "refused")
Enqueue(r) == status[r] = "new" /\ Becomes({r}, "waiting")
TakeUp(r) ==
    /\ status[r] \in {"new", "waiting"}
    /\ Room \/ stopping
    /\ Becomes({r}, "inflight")
Submit(S) == S # {} /\ S \subseteq Having({"inflight"}) /\ Becomes(S, "job")
Fail(S) == S # {} /\ S \subseteq Having({"inflight"}) /\ Becomes(S, "failed")
Close(r) == status[r] = "job" /\ Becomes({r}, "over")
Stop == ~stopping /\ stopping' = TRUE /\ UNCHANGED status

Next ==
    \/ /\ \/ \E r \in Requests : Refuse(r) \/ Enqueue(r) \/ TakeUp(r) \/ Close(r)
          \/ \E S \in SUBSET Requests : Submit(S) \/ Fail(S)
       /\ UNCHANGED stopping
    \/ Stop

Spec == Init /\ [][Next]_<<status, stopping>>
=============================================================================
