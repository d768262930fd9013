--------------------------- MODULE OrderLifecycle ---------------------------
(***************************************************************************)
(* What the worker promises about an order it can read: whatever runs      *)
(* beside it, it moves the order one step at a time along the order's      *)
(* state machine, and only along the steps time and payment can decide.    *)
(* A client may replace an order's blob at any moment; the order is then   *)
(* the client's, and the worker never takes it back.                       *)
(***************************************************************************)
CONSTANTS Orders, States

VARIABLE status    \* of each order: absent, client, or the state the worker sees

WorkerMoves == {<<"pending", "funded">>, <<"pending", "cancelled">>,
                <<"funded", "disputed">>, <<"disputed", "refunded">>}

Init == status = [o \in Orders |-> "absent"]

Appear(o) ==
    /\ status[o] = "absent"
    /\ \E s \in States \cup {"client"} : status' = [status EXCEPT ![o] = s]

Move(o) ==
    \E m \in WorkerMoves :
        /\ status[o] = m[1]
        /\ status' = [status EXCEPT ![o] = m[2]]

ClientReplaces(o) ==
    /\ status[o] # "absent"
    /\ status' = [status EXCEPT ![o] = "client"]

Next == \E o \in Orders : Appear(o) \/ Move(o) \/ ClientReplaces(o)

Spec == Init /\ [][Next]_status
=============================================================================
