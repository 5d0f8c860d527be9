------------------------------- MODULE UserList -------------------------------
(***************************************************************************)
(* user.c as its callers see it: threads that call create_User,            *)
(* remove_User, is_name_free, login_User, logout_user, user_should_shutdown *)
(* and the macro ITERATE_OVER_USERS, in any order and at the same time.    *)
(*                                                                         *)
(* userLock is one pthread mutex.  A walk over the list takes one step per *)
(* User, with the mutex held, and every gap the code leaves between two    *)
(* critical sections (find and insert, find and unlink, the read of        *)
(* userFront and the walk of is_name_free) is a gap between two actions.   *)
(* The body of a critical section that does not loop is one action.        *)
(*                                                                         *)
(* Reading or writing a freed User is undefined: the model records it in   *)
(* fault and stops there.                                                  *)
(***************************************************************************)
EXTENDS UserNodes

CONSTANTS
    Thread,     \* threads that call user.c
    Exclusive,  \* whether calls about one socket are kept from overlapping
    Logins,     \* logins: [buf, size] arguments of login_User
    Lookups,    \* names is_name_free is asked about
    MaxCreate   \* bound: no create_User starts after this many Users

ASSUME UserListAssumption ==
    /\ NULL \notin Thread
    /\ Exclusive \in BOOLEAN
    /\ Logins \subseteq [buf : NameBuffer, size : 0..NameCap]
    /\ Lookups \subseteq NameBuffer
    /\ MaxCreate \in Nat
    /\ NULL \notin Sock

VARIABLES
    userLock,   \* the thread that holds the mutex, or NULL
    pc,         \* where each thread is
    onSock,     \* the socket a call is about
    asked,      \* the name is_name_free was given, or the login's arguments
    cursor,     \* locPointer, target
    seen,       \* history: the Users the current iteration has passed
    audience,   \* history: the sockets the last full iteration passed
    fault       \* history: a freed User was touched

callVars == <<userLock, pc, onSock, asked, cursor>>
vars == <<nodeVars, callVars, seen, audience, fault>>

\* Inside: the mutex is held.  The other labels are the gaps.
Inside == {"create_walk", "remove_walk", "name_walk", "iterate"}
Gap == {"create_find", "create_insert", "remove_find", "remove_unlink",
        "name_lock", "login", "iterate_lock"}

TypeOK ==
    /\ NodeTypeOK
    /\ userLock \in Thread \cup {NULL}
    /\ pc \in [Thread -> {"idle"} \cup Inside \cup Gap]
    /\ onSock \in [Thread -> Sock \cup {NULL}]
    /\ asked \in [Thread -> {NULL} \cup Lookups \cup Logins]
    /\ cursor \in [Thread -> Pointer]
    /\ seen \subseteq Node
    /\ audience \subseteq Sock \cup {NULL}
    /\ fault \in BOOLEAN

Init ==
    /\ NodeInit
    /\ userLock = NULL
    /\ pc = [t \in Thread |-> "idle"]
    /\ onSock = [t \in Thread |-> NULL]
    /\ asked = [t \in Thread |-> NULL]
    /\ cursor = [t \in Thread |-> NULL]
    /\ seen = {} /\ audience = {}
    /\ fault = FALSE

-----------------------------------------------------------------------------
(* Moves of a thread between labels.                                       *)

At(t, label) == pc[t] = label /\ ~ fault

Goto(t, label) == pc' = [pc EXCEPT ![t] = label]

Lock(t) == userLock = NULL /\ userLock' = t
Unlock(t) == userLock = t /\ userLock' = NULL

\* The call returns: its locals go out of scope.
Return(t) ==
    /\ Goto(t, "idle")
    /\ onSock' = [onSock EXCEPT ![t] = NULL]
    /\ asked' = [asked EXCEPT ![t] = NULL]
    /\ cursor' = [cursor EXCEPT ![t] = NULL]

Histories == <<seen, audience, fault>>

\* A step that reads through the cursor of t, or writes through it, when
\* the User it points to has been freed.
Fault(t, label) ==
    /\ At(t, label)
    /\ cursor[t] \in Node \ alloc
    /\ fault' = TRUE
    /\ UNCHANGED <<nodeVars, callVars, seen, audience>>

Live(t) == cursor[t] \in alloc

\* Whether a caller may start a call about socket s.
MayCall(s) == Exclusive => \A u \in Thread : onSock[u] # s

\* The Users a caller may hold a pointer to: any it was ever given, or,
\* when its calls are exclusive, one that is still there.
Held(n) ==
    /\ birth[n] > 0
    /\ Exclusive => n \in alloc /\ MayCall(sock[n])

-----------------------------------------------------------------------------
(* f_find_User, called by create_User and remove_User.                     *)

FindLock(t, from, to) ==
    /\ At(t, from)
    /\ Lock(t)
    /\ cursor' = [cursor EXCEPT ![t] = userFront]
    /\ Goto(t, to)
    /\ UNCHANGED <<nodeVars, onSock, asked, Histories>>

FindNext(t, at) ==
    /\ At(t, at)
    /\ Live(t) /\ sock[cursor[t]] # onSock[t]
    /\ cursor' = [cursor EXCEPT ![t] = next[cursor[t]]]
    /\ UNCHANGED <<nodeVars, userLock, pc, onSock, asked, Histories>>

Found(t) == Live(t) /\ sock[cursor[t]] = onSock[t]

-----------------------------------------------------------------------------
(* create_User                                                             *)

CreateCall(t, s) ==
    /\ At(t, "idle") /\ MayCall(s) /\ clock < MaxCreate
    /\ Goto(t, "create_find")
    /\ onSock' = [onSock EXCEPT ![t] = s]
    /\ UNCHANGED <<nodeVars, userLock, asked, cursor, Histories>>

\* "Socked already in use": NULL.
CreateRefused(t) ==
    /\ At(t, "create_walk") /\ Found(t)
    /\ Unlock(t) /\ Return(t)
    /\ UNCHANGED <<nodeVars, Histories>>

CreateAbsent(t) ==
    /\ At(t, "create_walk") /\ cursor[t] = NULL
    /\ Unlock(t) /\ Goto(t, "create_insert")
    /\ UNCHANGED <<nodeVars, onSock, asked, cursor, Histories>>

InsertUnlocked(t, n) ==     \* slip: the mutex is not taken
    /\ At(t, "create_insert")
    /\ AppendUser(n, onSock[t])
    /\ Return(t)
    /\ UNCHANGED <<userLock, Histories>>

CreateInsert(t, n) ==
    /\ At(t, "create_insert") /\ userLock = NULL
    /\ AppendUser(n, onSock[t])
    /\ Return(t)
    /\ UNCHANGED <<userLock, Histories>>

\* malloc fails: the function returns NULL and keeps the mutex.
CreateNoMemory(t) ==
    /\ At(t, "create_insert")
    /\ alloc = Node
    /\ Lock(t) /\ Return(t)
    /\ UNCHANGED <<nodeVars, Histories>>

-----------------------------------------------------------------------------
(* remove_User                                                             *)

RemoveCall(t, s) ==
    /\ At(t, "idle") /\ MayCall(s)
    /\ Goto(t, "remove_find")
    /\ onSock' = [onSock EXCEPT ![t] = s]
    /\ UNCHANGED <<nodeVars, userLock, asked, cursor, Histories>>

AbsentKeepsLock(t) ==     \* slip: an early return without unlock
    /\ At(t, "remove_walk") /\ cursor[t] = NULL
    /\ Return(t)
    /\ UNCHANGED <<nodeVars, userLock, Histories>>

\* "User NOT found": FALSE.
RemoveAbsent(t) ==
    /\ At(t, "remove_walk") /\ cursor[t] = NULL
    /\ Unlock(t) /\ Return(t)
    /\ UNCHANGED <<nodeVars, Histories>>

RemoveFirst(t) ==     \* slip: the walk stops at the first User
    /\ At(t, "remove_walk") /\ Live(t)
    /\ Unlock(t) /\ Goto(t, "remove_unlink")
    /\ UNCHANGED <<nodeVars, onSock, asked, cursor, Histories>>

RemoveFound(t) ==
    /\ At(t, "remove_walk") /\ Found(t)
    /\ Unlock(t) /\ Goto(t, "remove_unlink")
    /\ UNCHANGED <<nodeVars, onSock, asked, cursor, Histories>>

UnlinkUnlocked(t) ==     \* slip: the mutex is not taken
    /\ At(t, "remove_unlink")
    /\ UnlinkUser(cursor[t])
    /\ Return(t)
    /\ UNCHANGED <<userLock, Histories>>

RemoveUnlink(t) ==
    /\ At(t, "remove_unlink") /\ userLock = NULL
    /\ UnlinkUser(cursor[t])
    /\ Return(t)
    /\ UNCHANGED <<userLock, Histories>>

-----------------------------------------------------------------------------
(* is_name_free                                                            *)

\* userFront is read before the mutex is taken; an empty list answers TRUE.
NameCall(t, buf) ==
    /\ At(t, "idle")
    /\ userFront # NULL
    /\ Goto(t, "name_lock")
    /\ asked' = [asked EXCEPT ![t] = buf]
    /\ cursor' = [cursor EXCEPT ![t] = userFront]
    /\ UNCHANGED <<nodeVars, userLock, onSock, Histories>>

NameLock(t) ==
    /\ At(t, "name_lock")
    /\ Lock(t) /\ Goto(t, "name_walk")
    /\ UNCHANGED <<nodeVars, onSock, asked, cursor, Histories>>

NameTaken(t) == Live(t) /\ SameString(asked[t], name[cursor[t]]) /\ logged_in[cursor[t]]

NameNext(t) ==
    /\ At(t, "name_walk") /\ Live(t) /\ ~ NameTaken(t)
    /\ cursor' = [cursor EXCEPT ![t] = next[cursor[t]]]
    /\ UNCHANGED <<nodeVars, userLock, pc, onSock, asked, Histories>>

\* FALSE at the first match, TRUE at the end of the list.
NameReturn(t) ==
    /\ At(t, "name_walk")
    /\ NameTaken(t) \/ cursor[t] = NULL
    /\ Unlock(t) /\ Return(t)
    /\ UNCHANGED <<nodeVars, Histories>>

-----------------------------------------------------------------------------
(* login_User, logout_user, user_should_shutdown                           *)

LoginCall(t, n, l) ==
    /\ At(t, "idle") /\ Held(n)
    /\ Goto(t, "login")
    /\ onSock' = [onSock EXCEPT ![t] = sock[n]]
    /\ asked' = [asked EXCEPT ![t] = l]
    /\ cursor' = [cursor EXCEPT ![t] = n]
    /\ UNCHANGED <<nodeVars, userLock, Histories>>

Login(t) ==
    /\ At(t, "login") /\ userLock = NULL /\ Live(t)
    /\ SetLogin(cursor[t], asked[t].buf, asked[t].size)
    /\ Return(t)
    /\ UNCHANGED <<links, should_shutdown, userLock, Histories>>

\* One write, without the mutex.
Logout(t, n) ==
    /\ At(t, "idle") /\ Held(n) /\ n \in alloc
    /\ logged_in' = [logged_in EXCEPT ![n] = FALSE]
    /\ UNCHANGED <<links, name, name_length, should_shutdown, callVars, Histories>>

ShouldShutdown(t, n) ==
    /\ At(t, "idle") /\ Held(n) /\ n \in alloc
    /\ should_shutdown' = [should_shutdown EXCEPT ![n] = TRUE]
    /\ UNCHANGED <<links, identity, callVars, Histories>>

\* Either of them through a pointer to a freed User.
WriteFreed(t, n) ==
    /\ At(t, "idle") /\ Held(n) /\ n \notin alloc
    /\ fault' = TRUE
    /\ UNCHANGED <<nodeVars, callVars, seen, audience>>

-----------------------------------------------------------------------------
(* ITERATE_OVER_USERS(LoopCommand)                                         *)

IterateCall(t) ==
    /\ At(t, "idle")
    /\ Goto(t, "iterate_lock")
    /\ UNCHANGED <<nodeVars, userLock, onSock, asked, cursor, Histories>>

IterateLock(t) ==
    /\ At(t, "iterate_lock")
    /\ Lock(t)
    /\ cursor' = [cursor EXCEPT ![t] = userFront]
    /\ seen' = {}
    /\ Goto(t, "iterate")
    /\ UNCHANGED <<nodeVars, onSock, asked, audience, fault>>

\* LoopCommand on one User, then iterate_User.
IterateNext(t) ==
    /\ At(t, "iterate") /\ Live(t)
    /\ seen' = seen \cup {cursor[t]}
    /\ cursor' = [cursor EXCEPT ![t] = next[cursor[t]]]
    /\ UNCHANGED <<nodeVars, userLock, pc, onSock, asked, audience, fault>>

\* The LoopCommand of the kick marks its target and breaks out of the loop.
IterateBreak(t) ==
    /\ At(t, "iterate") /\ Live(t)
    /\ should_shutdown' = [should_shutdown EXCEPT ![cursor[t]] = TRUE]
    /\ seen' = {}
    /\ Unlock(t) /\ Return(t)
    /\ UNCHANGED <<links, identity, audience, fault>>

IterateEnd(t) ==
    /\ At(t, "iterate") /\ cursor[t] = NULL
    /\ audience' = {sock[n] : n \in seen}
    /\ seen' = {}
    /\ Unlock(t) /\ Return(t)
    /\ UNCHANGED <<nodeVars, fault>>

-----------------------------------------------------------------------------
Touch(t) ==
    \E label \in Inside \cup {"remove_unlink", "login"} :
        /\ label \in {"remove_unlink", "login"} => userLock = NULL
        /\ Fault(t, label)

\* What a thread does while it holds the mutex.
HoldStep(t) ==
    \/ FindNext(t, "create_walk") \/ CreateRefused(t) \/ CreateAbsent(t)
    \/ FindNext(t, "remove_walk") \/ RemoveAbsent(t) \/ RemoveFound(t)
    \/ NameNext(t) \/ NameReturn(t)
    \/ IterateNext(t) \/ IterateBreak(t) \/ IterateEnd(t)

\* What it does to get the mutex.
EnterStep(t) ==
    \/ FindLock(t, "create_find", "create_walk") \/ CreateNoMemory(t)
    \/ \E n \in Node : CreateInsert(t, n)
    \/ FindLock(t, "remove_find", "remove_walk") \/ RemoveUnlink(t)
    \/ NameLock(t) \/ Login(t) \/ IterateLock(t)

CallStep(t) ==
    \/ \E s \in Sock : CreateCall(t, s) \/ RemoveCall(t, s)
    \/ \E buf \in Lookups : NameCall(t, buf)
    \/ \E n \in Node : \/ \E l \in Logins : LoginCall(t, n, l)
                       \/ Logout(t, n) \/ ShouldShutdown(t, n) \/ WriteFreed(t, n)
    \/ IterateCall(t)

Next == \E t \in Thread : CallStep(t) \/ EnterStep(t) \/ HoldStep(t) \/ Touch(t)

\* A thread that holds the mutex runs on: it blocks on nothing.
Fairness == \A t \in Thread : WF_vars(HoldStep(t) \/ Touch(t))

Spec == Init /\ [][Next]_vars
FairSpec == Spec /\ Fairness

-----------------------------------------------------------------------------
(* Properties.                                                             *)

\* The walks that start at userFront with the mutex held.
Walking(t) == pc[t] \in {"create_walk", "remove_walk", "iterate"}
Passed(t) == {m \in alloc : cursor[t] = NULL \/ Older(m, cursor[t])}

\* No walk that f_find_User or ITERATE_OVER_USERS makes can meet a freed User:
\* whoever else calls user.c, the mutex keeps the list as it was when the walk
\* took userFront.
WalkersOnList == \A t \in Thread : Walking(t) => userLock = t /\ cursor[t] \in alloc \cup {NULL}

\* ITERATE_OVER_USERS has run its body once on every User older than the one it
\* is at and on no other, so a loop that does not break reaches every User of
\* the list: nobody misses a broadcast because of a concurrent create or remove.
IterationComplete == \A t \in Thread : pc[t] = "iterate" => seen = Passed(t)

\* f_find_User answers NULL only when no User of the list has the socket.
FindComplete ==
    \A t \in Thread : pc[t] \in {"create_walk", "remove_walk"} =>
        \A m \in Passed(t) : sock[m] # onSock[t]

\* A call that has returned without releasing the mutex is a create_User whose
\* malloc failed; every other return path of user.c unlocks.
LeakOnlyWithoutMemory == \A t \in Thread : userLock = t /\ pc[t] = "idle" => alloc = Node

\* create_User keeps sockets unique ("socket unique") across the gap between
\* its search and its insertion, as long as calls about one socket do not overlap.
UniqueSockets == \A m, n \in alloc : sock[m] = sock[n] => m = n

\* The pointer remove_User unlinks and frees, found in an earlier critical
\* section, still is the live User of the socket it was asked to remove.
UnlinksItsOwn ==
    \A t \in Thread : pc[t] = "remove_unlink" =>
        cursor[t] \in alloc /\ sock[cursor[t]] = onSock[t]

\* No call of user.c touches a freed User.
NoFault == ~ fault

\* Every walk comes to the end of the list and gives the mutex back, if the
\* undefined step that is_name_free can take does not cut it short.
WalkEnds == \A t \in Thread : pc[t] \in Inside ~> (userLock # t \/ fault)

\* What user.c promises: a set of sockets, entered and left one at a time, that
\* an iteration sees as it is at one moment.
Directory == INSTANCE UserDirectory WITH entries <- {sock[n] : n \in alloc}
ImplementsDirectory == Directory!Spec
=============================================================================
