------------------------------ MODULE Delivery ------------------------------
(***************************************************************************)
(* What the outbox promises about each message, without rows, tokens,      *)
(* leases, batches or workers.  A message is sent on a permit: accepting   *)
(* the message issues one permit and only an operator, who has seen that   *)
(* the chat does not have the message, issues another.  A permit may be    *)
(* used late, even after the message was settled without it.               *)
(***************************************************************************)
EXTENDS Naturals

CONSTANT Messages

VARIABLES
    status,   \* "absent", "open", "unknown", "delivered" or "dead"
    copies,   \* copies of the message in the chat
    permits   \* sends that may still happen

vars == <<status, copies, permits>>

Init ==
    /\ status = [m \in Messages |-> "absent"]
    /\ copies = [m \in Messages |-> 0]
    /\ permits = [m \in Messages |-> 0]

Becomes(m, s, c, p) ==
    status'[m] = s /\ copies'[m] = c /\ permits'[m] = p

Accept(m) ==
    status[m] = "absent" /\ Becomes(m, "open", 0, 1)

Reach(m) ==
    permits[m] > 0 /\ Becomes(m, status[m], copies[m] + 1, permits[m] - 1)

(* Nothing is called delivered that reached nobody. *)
Decide(m) ==
    /\ status[m] \in {"open", "unknown"}
    /\ \E s \in {"unknown", "delivered", "dead"} :
           /\ s = "delivered" => copies[m] > 0
           /\ Becomes(m, s, copies[m], permits[m])

Reissue(m) ==
    /\ status[m] = "unknown" /\ copies[m] = 0
    /\ Becomes(m, "open", 0, permits[m] + 1)

Same(m) == Becomes(m, status[m], copies[m], permits[m])

(* One poll may expire the leases of several messages at once. *)
Next ==
    \A m \in Messages : Accept(m) \/ Reach(m) \/ Decide(m) \/ Reissue(m) \/ Same(m)

Spec == Init /\ [][Next]_vars
=============================================================================
