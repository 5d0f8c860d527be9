--------------------------- MODULE BroadcastChannel ---------------------------
(***************************************************************************)
(* What the broadcast agent promises: one sequence of accepted messages,   *)
(* of which every user receives a prefix, in order, nothing lost and       *)
(* nothing twice; and between the notice that the chat is paused and the   *)
(* notice that it is resumed, a user receives none.                        *)
(***************************************************************************)
EXTENDS Naturals, Sequences

CONSTANTS User, Message

VARIABLES
    accepted,   \* the messages taken, in order
    received,   \* what each user got, in order
    notice      \* the last notice each user got

vars == <<accepted, received, notice>>

Init ==
    /\ accepted = <<>>
    /\ received = [u \in User |-> <<>>]
    /\ notice = [u \in User |-> "resumed"]

Accept(m) ==
    /\ accepted' = Append(accepted, m)
    /\ UNCHANGED <<received, notice>>

Deliver(u) ==
    /\ notice[u] = "resumed"
    /\ Len(received[u]) < Len(accepted)
    /\ received' = [received EXCEPT ![u] = Append(@, accepted[Len(@) + 1])]
    /\ UNCHANGED <<accepted, notice>>

Notify(u, what) ==
    /\ notice' = [notice EXCEPT ![u] = what]
    /\ UNCHANGED <<accepted, received>>

Next ==
    \/ \E m \in Message : Accept(m)
    \/ \E u \in User : Deliver(u) \/ \E what \in {"paused", "resumed"} : Notify(u, what)

Spec == Init /\ [][Next]_vars
=============================================================================
