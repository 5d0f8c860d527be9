----------------------------- MODULE UserDirectory -----------------------------
(***************************************************************************)
(* What user.c promises its callers, with no list, mutex or memory: a set  *)
(* of sockets in use.  create_User enters a socket that is not there,      *)
(* remove_User takes one out, and a complete ITERATE_OVER_USERS addresses  *)
(* the whole set as it is at one moment.                                   *)
(***************************************************************************)
CONSTANTS Sock

VARIABLES
    entries,    \* sockets that have a User
    audience    \* the sockets the last complete iteration addressed

vars == <<entries, audience>>

Init == entries = {} /\ audience = {}

Enter(s) ==
    /\ s \notin entries
    /\ entries' = entries \cup {s}
    /\ UNCHANGED audience

Leave(s) ==
    /\ s \in entries
    /\ entries' = entries \ {s}
    /\ UNCHANGED audience

Announce ==
    /\ audience' = entries
    /\ UNCHANGED entries

Next ==
    \/ \E s \in Sock : Enter(s) \/ Leave(s)
    \/ Announce

Spec == Init /\ [][Next]_vars
=============================================================================
