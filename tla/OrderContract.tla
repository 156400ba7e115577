--------------------------- MODULE OrderContract ---------------------------
(***************************************************************************)
(* What a robot promises fleet control about the order it reports: which   *)
(* changes of orderId, orderUpdateId and the actionStates a sequence of    *)
(* state messages can show.  It says nothing of when anything happens.     *)
(***************************************************************************)
EXTENDS Naturals

CONSTANTS
    OrderIds,   \* ids of orders fleet control sends
    NoId,       \* no order
    Actions,    \* ids of the actions that orders carry
    Named       \* those fleet control may put into the actionId of a trigger

VARIABLES
    id, upd,    \* orderId and orderUpdateId
    left,       \* the robot is driving or has nodes or edges left
    status      \* the status of each action; "absent": it is not in actionStates

vars == <<id, upd, left, status>>

Unfinished == {"WAITING", "RUNNING", "PAUSED"}

Busy == left \/ \E a \in Actions : status[a] \in Unfinished

\* The steps an action can take while its order goes on.  A tick may start an
\* action and end it at once.  FINISHED and FAILED are final; RETRIABLE is left by
\* retry and skipRetry.  A trigger that names an action finishes it at any point.
Steps == {
    <<"WAITING", "RUNNING">>, <<"WAITING", "FINISHED">>, <<"WAITING", "FAILED">>,
    <<"RUNNING", "PAUSED">>, <<"RUNNING", "RETRIABLE">>, <<"RUNNING", "FINISHED">>,
    <<"RUNNING", "FAILED">>, <<"PAUSED", "RUNNING">>, <<"RETRIABLE", "WAITING">>,
    <<"RETRIABLE", "FAILED">>}

Legal(a, from, to) ==
    \/ from = to
    \/ <<from, to>> \in Steps
    \/ a \in Named /\ from # "absent" /\ to = "FINISHED"

Init ==
    /\ id = NoId /\ upd = 0
    /\ left = FALSE
    /\ status = [a \in Actions |-> "absent"]

\* Another order is taken on only by a robot that is not busy.
Start ==
    /\ ~Busy
    /\ id' \in OrderIds \ {id}
    /\ upd' \in Nat
    /\ left' \in BOOLEAN
    /\ \A a \in Actions : status'[a] \in {"absent", "WAITING", "FAILED"}

\* An update has a higher orderUpdateId, and adds actions without touching the old ones.
Extend ==
    /\ id # NoId /\ id' = id
    /\ upd' > upd
    /\ left' \in BOOLEAN
    /\ \A a \in Actions :
         status'[a] \in IF status[a] = "absent" THEN {"absent", "WAITING", "FAILED"} ELSE {status[a]}

\* The robot works on its order: the route never comes back once it is done.
Work ==
    /\ id # NoId
    /\ UNCHANGED <<id, upd>>
    /\ left' => left
    /\ \A a \in Actions : Legal(a, status[a], status'[a])

\* The order is cancelled or dropped for hibernation, and its actions with it, whatever
\* their status: no FAILED tells fleet control of those that had not ended.
Withdraw ==
    /\ id' = NoId /\ upd' = 0
    /\ left' = FALSE
    /\ \A a \in Actions : status'[a] = "absent"

Next == Start \/ Extend \/ Work \/ Withdraw

Spec == Init /\ [][Next]_vars
=============================================================================
