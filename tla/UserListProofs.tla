---------------------------- MODULE UserListProofs ----------------------------
(***************************************************************************)
(* Theorems about UserList, for every number of threads, cells, sockets    *)
(* and names.  The lemmas about the list itself are in UserNodesProofs.     *)
(***************************************************************************)
EXTENDS UserList, UserNodesProofs

-----------------------------------------------------------------------------
(* Type correctness.  The arguments of a call have the type its label needs. *)

ArgsOK == \A t \in Thread :
    /\ pc[t] \in {"create_find", "create_walk", "create_insert",
                  "remove_find", "remove_walk", "remove_unlink"} => onSock[t] \in Sock
    /\ pc[t] = "login" => asked[t] \in Logins /\ cursor[t] \in Node

TypeInv == TypeOK /\ ArgsOK

\* The server starts with no User, no call and the mutex free.
LEMMA TypeInit == Init => TypeInv
<1> SUFFICES ASSUME Init PROVE TypeInv
  OBVIOUS
<1>1. EmptyName \in NameBuffer
  BY NameAssumption DEF EmptyName, NameBuffer
<1>2. NodeTypeOK
  BY <1>1, NameAssumption DEF Init, NodeInit, NodeTypeOK, Pointer
<1>3. TypeOK
  BY <1>2 DEF Init, TypeOK, Pointer, Inside, Gap
<1>4. ArgsOK
  BY DEF Init, ArgsOK
<1> QED
  BY <1>3, <1>4 DEF TypeInv

\* A step of Next keeps the types, whichever call of user.c it belongs to.
LEMMA TypeStep == TypeInv /\ [Next]_vars => TypeInv'
<1> SUFFICES ASSUME TypeInv, [Next]_vars PROVE TypeInv'
  OBVIOUS
<1> USE DEF TypeInv, TypeOK, ArgsOK
<1> DEFINE Kept == UNCHANGED nodeVars
           Calls == /\ userLock' \in Thread \cup {NULL}
                    /\ pc' \in [Thread -> {"idle"} \cup Inside \cup Gap]
                    /\ onSock' \in [Thread -> Sock \cup {NULL}]
                    /\ asked' \in [Thread -> {NULL} \cup Lookups \cup Logins]
                    /\ cursor' \in [Thread -> Pointer]
           Quiet == seen' \subseteq Node /\ audience' \subseteq Sock \cup {NULL} /\ fault' \in BOOLEAN
<1>0. Kept => NodeTypeOK'
  BY DEF NodeTypeOK, nodeVars, links, identity
<1>1. ASSUME UNCHANGED vars PROVE TypeInv'
  BY <1>0, <1>1 DEF vars, nodeVars, links, identity, callVars, NodeTypeOK
<1>2. ASSUME NEW t \in Thread, CallStep(t) PROVE TypeInv'
  <2>1. ASSUME NEW s \in Sock, CreateCall(t, s) \/ RemoveCall(t, s) PROVE TypeInv'
    BY <1>0, <2>1 DEF CreateCall, RemoveCall, At, Goto, Histories, Inside, Gap
  <2>2. ASSUME NEW buf \in Lookups, NameCall(t, buf) PROVE TypeInv'
    BY <1>0, <2>2 DEF NameCall, At, Goto, Histories, Inside, Gap, NodeTypeOK
  <2>3. ASSUME NEW n \in Node, NEW l \in Logins, LoginCall(t, n, l) PROVE TypeInv'
    BY <1>0, <2>3 DEF LoginCall, At, Goto, Histories, Inside, Gap, NodeTypeOK, Pointer
  <2>4. ASSUME NEW n \in Node, Logout(t, n) \/ ShouldShutdown(t, n) PROVE TypeInv'
    <3>1. NodeTypeOK'
      BY <2>4 DEF Logout, ShouldShutdown, NodeTypeOK, links, identity
    <3> QED
      BY <2>4, <3>1 DEF Logout, ShouldShutdown, callVars, Histories
  <2>5. ASSUME NEW n \in Node, WriteFreed(t, n) PROVE TypeInv'
    BY <1>0, <2>5 DEF WriteFreed, callVars
  <2>6. ASSUME IterateCall(t) PROVE TypeInv'
    BY <1>0, <2>6 DEF IterateCall, At, Goto, Histories, Inside, Gap
  <2> QED
    BY <1>2, <2>1, <2>2, <2>3, <2>4, <2>5, <2>6 DEF CallStep
<1>3. ASSUME NEW t \in Thread, EnterStep(t) PROVE TypeInv'
  <2>1. ASSUME NEW from \in {"create_find", "remove_find"},
               NEW to \in {"create_walk", "remove_walk"},
               from = "create_find" => to = "create_walk", FindLock(t, from, to)
        PROVE  TypeInv'
    BY <1>0, <2>1 DEF FindLock, At, Lock, Goto, Histories, Inside, Gap, NodeTypeOK
  <2>2. ASSUME CreateNoMemory(t) PROVE TypeInv'
    BY <1>0, <2>2 DEF CreateNoMemory, At, Lock, Return, Goto, Histories, Inside, Gap, Pointer
  <2>3. ASSUME NEW n \in Node, CreateInsert(t, n) PROVE TypeInv'
    <3>1. NodeTypeOK'
      BY <2>3, AppendType DEF CreateInsert, At
    <3> QED
      BY <2>3, <3>1 DEF CreateInsert, Return, Goto, Histories, Inside, Gap, Pointer
  <2>4. ASSUME RemoveUnlink(t) PROVE TypeInv'
    <3>1. NodeTypeOK'
      BY <2>4, UnlinkType DEF RemoveUnlink
    <3> QED
      BY <2>4, <3>1 DEF RemoveUnlink, Return, Goto, Histories, Inside, Gap, Pointer
  <2>5. ASSUME NameLock(t) \/ IterateLock(t) PROVE TypeInv'
    BY <1>0, <2>5 DEF NameLock, IterateLock, At, Lock, Goto, Histories, Inside, Gap, NodeTypeOK
  <2>6. ASSUME Login(t) PROVE TypeInv'
    <3>1. /\ cursor[t] \in Node /\ asked[t].buf \in NameBuffer /\ asked[t].size \in 0..NameCap
      BY <2>6, UserListAssumption DEF Login, At
    <3>2. StrNCpy(name[cursor[t]], asked[t].buf, asked[t].size) \in NameBuffer
      BY <3>1, StrNCpyType DEF NodeTypeOK
    <3>3. NodeTypeOK'
      BY <2>6, <3>1, <3>2 DEF Login, SetLogin, NodeTypeOK, links
    <3> QED
      BY <2>6, <3>3 DEF Login, Return, Goto, Histories, Inside, Gap, Pointer
  <2> QED
    BY <1>3, <2>1, <2>2, <2>3, <2>4, <2>5, <2>6 DEF EnterStep
<1>4. ASSUME NEW t \in Thread, HoldStep(t) PROVE TypeInv'
  <2>1. ASSUME NEW at \in Inside, FindNext(t, at) PROVE TypeInv'
    BY <1>0, <2>1 DEF FindNext, At, Inside, Live, Histories, NodeTypeOK
  <2>2. ASSUME CreateRefused(t) \/ RemoveAbsent(t) \/ NameReturn(t) PROVE TypeInv'
    BY <1>0, <2>2 DEF CreateRefused, RemoveAbsent, NameReturn, Unlock, Return, Goto, Histories,
                      Inside, Gap, Pointer
  <2>3. ASSUME CreateAbsent(t) \/ RemoveFound(t) PROVE TypeInv'
    BY <1>0, <2>3 DEF CreateAbsent, RemoveFound, At, Unlock, Goto, Histories, Inside, Gap
  <2>4. ASSUME NameNext(t) PROVE TypeInv'
    BY <1>0, <2>4 DEF NameNext, Live, Histories, NodeTypeOK, At
  <2>5. ASSUME IterateNext(t) PROVE TypeInv'
    BY <1>0, <2>5 DEF IterateNext, Live, At, NodeTypeOK
  <2>6. ASSUME IterateBreak(t) PROVE TypeInv'
    <3>1. NodeTypeOK'
      BY <2>6 DEF IterateBreak, NodeTypeOK, links, identity
    <3> QED
      BY <2>6, <3>1 DEF IterateBreak, Unlock, Return, Goto, Inside, Gap, Pointer
  <2>7. ASSUME IterateEnd(t) PROVE TypeInv'
    <3>1. audience' \subseteq Sock \cup {NULL}
      BY <2>7 DEF IterateEnd, NodeTypeOK
    <3> QED
      BY <1>0, <2>7, <3>1 DEF IterateEnd, Unlock, Return, Goto, Inside, Gap, Pointer
  <2> QED
    BY <1>4, <2>1, <2>2, <2>3, <2>4, <2>5, <2>6, <2>7 DEF HoldStep, Inside
<1>5. ASSUME NEW t \in Thread, Touch(t) PROVE TypeInv'
  BY <1>0, <1>5 DEF Touch, Fault, callVars
<1> QED
  BY <1>1, <1>2, <1>3, <1>4, <1>5 DEF Next

\* Every variable of the user list keeps its type: in particular userFront,
\* userBack and the links of user.c never hold anything but a cell or null.
THEOREM TypeCorrect == Spec => []TypeOK
<1>1. Init => TypeInv
  BY TypeInit
<1>2. TypeInv /\ [Next]_vars => TypeInv'
  BY TypeStep
<1>3. TypeInv => TypeOK
  BY DEF TypeInv
<1> QED
  BY <1>1, <1>2, <1>3, PTL DEF Spec
-----------------------------------------------------------------------------
(* The list stays whole and every walk sees all of it.                     *)
(*                                                                         *)
(* While a thread is inside a critical section it is the holder of the     *)
(* mutex, so only its own steps move; while nobody holds it nobody walks.  *)
(* What a walk has passed is exactly what is older than its cursor, and    *)
(* next leads to the User created next.                                    *)

\* The mutex has a holder exactly while a call is inside, or it has leaked.
HolderOK == \A t \in Thread :
    /\ pc[t] \in Inside => userLock = t
    /\ userLock = t => pc[t] \in Inside \/ alloc = Node

WalksOK == WalkersOnList /\ IterationComplete /\ FindComplete

ListInv == TypeInv /\ ListOK /\ HolderOK /\ WalksOK

\* A step that leaves the links, the mutex and the history of iterations alone
\* and moves no thread that is inside disturbs no walk.
LEMMA QuietStep ==
    ASSUME ListInv, UNCHANGED <<links, userLock, seen>>,
           \A u \in Thread :
              \/ pc'[u] \notin Inside /\ pc[u] \notin Inside
              \/ pc'[u] = pc[u] /\ cursor'[u] = cursor[u] /\ onSock'[u] = onSock[u]
    PROVE  ListOK' /\ HolderOK' /\ WalksOK'
<1> USE DEF ListInv, links
<1>1. ListOK'
  BY DEF ListOK, HeadsOK, LinksOK, BirthsOK, Older
<1>2. HolderOK'
  BY DEF HolderOK, Inside
<1>3. WalkersOnList'
  BY DEF WalksOK, WalkersOnList, Walking, Inside
<1>4. IterationComplete'
  BY DEF WalksOK, IterationComplete, Passed, Older, Inside
<1>5. FindComplete'
  BY DEF WalksOK, FindComplete, Passed, Older, Inside
<1> QED
  BY <1>1, <1>2, <1>3, <1>4, <1>5 DEF WalksOK

\* A step of the thread that holds the mutex, or of one that takes it, which
\* leaves the links alone: only its own walk is to be looked at.
LEMMA OwnStep ==
    ASSUME ListInv, UNCHANGED links, NEW t \in Thread,
           userLock \in {NULL, t}, userLock' \in {NULL, t},
           pc'[t] \in Inside <=> userLock' = t,
           \A u \in Thread \ {t} : pc'[u] = pc[u],
           Walking(t)' => (cursor[t] \in alloc \cup {NULL})',
           (pc[t] = "iterate" => seen = Passed(t))',
           (pc[t] \in {"create_walk", "remove_walk"} =>
               \A m \in Passed(t) : sock[m] # onSock[t])'
    PROVE  ListOK' /\ HolderOK' /\ WalksOK'
<1> USE DEF ListInv, links
<1>1. ListOK'
  BY DEF ListOK, HeadsOK, LinksOK, BirthsOK, Older
<1>2. \A u \in Thread \ {t} : pc[u] \notin Inside /\ pc'[u] \notin Inside
  BY UserListAssumption DEF HolderOK
<1>3. HolderOK'
  BY <1>2, UserListAssumption DEF HolderOK
<1>4. WalkersOnList'
  BY <1>2 DEF WalkersOnList, Walking, Inside
<1>5. IterationComplete'
  BY <1>2 DEF IterationComplete, Inside
<1>6. FindComplete'
  BY <1>2 DEF FindComplete, Inside
<1> QED
  BY <1>1, <1>3, <1>4, <1>5, <1>6 DEF WalksOK

\* A critical section that does not loop: nobody is inside before or after.
LEMMA NobodyInside ==
    ASSUME ListInv, ListOK', NEW t \in Thread, pc'[t] = "idle",
           userLock = NULL, UNCHANGED userLock,
           \A u \in Thread \ {t} : pc'[u] = pc[u]
    PROVE  ListOK' /\ HolderOK' /\ WalksOK'
<1>1. \A u \in Thread : pc'[u] \notin Inside /\ userLock' # u
  BY UserListAssumption DEF ListInv, HolderOK, Inside
<1> QED
  BY <1>1 DEF HolderOK, WalksOK, WalkersOnList, IterationComplete, FindComplete, Walking, Inside
\* Every step of user.c's callers keeps the list whole and every walk complete.
LEMMA ListStep == ListInv /\ [Next]_vars => ListInv'
<1> SUFFICES ASSUME ListInv, [Next]_vars PROVE ListOK' /\ HolderOK' /\ WalksOK'
  BY TypeStep DEF ListInv
<1> DEFINE Kept == ListOK' /\ HolderOK' /\ WalksOK'
<1>0. ListTypeOK /\ pc \in [Thread -> {"idle"} \cup Inside \cup Gap]
      /\ cursor \in [Thread -> Pointer] /\ onSock \in [Thread -> Sock \cup {NULL}]
  BY DEF ListInv, TypeInv, TypeOK, NodeTypeOK, ListTypeOK
<1>1. ASSUME UNCHANGED vars PROVE Kept
  BY <1>1, QuietStep DEF vars, nodeVars, callVars
<1>2. ASSUME NEW t \in Thread, CallStep(t) PROVE Kept
  <2>1. /\ UNCHANGED <<links, userLock, seen>>
        /\ pc[t] = "idle"
        /\ pc'[t] \in {"idle", "create_find", "remove_find", "name_lock", "login", "iterate_lock"}
        /\ \A u \in Thread \ {t} : pc'[u] = pc[u] /\ cursor'[u] = cursor[u] /\ onSock'[u] = onSock[u]
    BY <1>0, <1>2 DEF CallStep, CreateCall, RemoveCall, NameCall, LoginCall, Logout, ShouldShutdown,
              WriteFreed, IterateCall, At, Goto, Histories, nodeVars, callVars
  <2> QED
    BY <2>1, QuietStep DEF Inside
<1>3. ASSUME NEW t \in Thread, EnterStep(t) PROVE Kept
  <2>1. CASE FindLock(t, "create_find", "create_walk") \/ FindLock(t, "remove_find", "remove_walk")
    <3>1. /\ UNCHANGED links /\ userLock = NULL /\ userLock' = t
          /\ pc'[t] \in {"create_walk", "remove_walk"} /\ cursor'[t] = userFront
          /\ \A u \in Thread \ {t} : pc'[u] = pc[u]
      BY <1>0, <2>1 DEF FindLock, Lock, Goto, nodeVars
    <3>2. Passed(t)' = {}
      BY <3>1, FrontPassesNobody DEF Passed, Older, links, ListInv
    <3>3. (cursor[t] \in alloc \cup {NULL})'
      BY <3>1 DEF ListInv, ListOK, HeadsOK, links
    <3> QED
      BY <3>1, <3>2, <3>3, OwnStep DEF Inside
  <2>2. CASE CreateNoMemory(t)
    <3>1. /\ UNCHANGED links /\ userLock = NULL /\ userLock' = t /\ alloc = Node
          /\ pc'[t] = "idle" /\ \A u \in Thread \ {t} : pc'[u] = pc[u]
      BY <1>0, <2>2 DEF CreateNoMemory, Lock, Return, Goto, nodeVars
    <3>2. \A u \in Thread : pc'[u] \notin Inside
      BY <3>1, UserListAssumption DEF ListInv, HolderOK, Inside
    <3>3. ListOK'
      BY <3>1 DEF ListInv, ListOK, HeadsOK, LinksOK, BirthsOK, Older, links
    <3> QED
      BY <3>1, <3>2, <3>3 DEF HolderOK, WalksOK, WalkersOnList, IterationComplete, FindComplete,
                              Walking, Inside, links
  <2>3. ASSUME NEW n \in Node, CreateInsert(t, n) PROVE Kept
    <3>1. ListOK'
      BY <1>0, <2>3, AppendKeepsList DEF CreateInsert, ListInv
    <3> QED
      BY <1>0, <2>3, <3>1, NobodyInside DEF CreateInsert, Return, Goto
  <2>4. CASE RemoveUnlink(t)
    <3>1. ListOK'
      BY <1>0, <2>4, UnlinkKeepsList DEF RemoveUnlink, ListInv
    <3> QED
      BY <1>0, <2>4, <3>1, NobodyInside DEF RemoveUnlink, Return, Goto
  <2>5. CASE NameLock(t)
    BY <1>0, <2>5, OwnStep DEF NameLock, Lock, Goto, nodeVars, Walking, Inside
  <2>6. CASE Login(t)
    <3>1. ListOK'
      BY <2>6 DEF Login, links, ListInv, ListOK, HeadsOK, LinksOK, BirthsOK, Older
    <3> QED
      BY <1>0, <2>6, <3>1, NobodyInside DEF Login, Return, Goto
  <2>7. CASE IterateLock(t)
    <3>1. /\ UNCHANGED links /\ userLock = NULL /\ userLock' = t
          /\ pc'[t] = "iterate" /\ cursor'[t] = userFront /\ seen' = {}
          /\ \A u \in Thread \ {t} : pc'[u] = pc[u]
      BY <1>0, <2>7 DEF IterateLock, Lock, Goto, nodeVars
    <3>2. Passed(t)' = {}
      BY <3>1, FrontPassesNobody DEF Passed, Older, links, ListInv
    <3>3. (cursor[t] \in alloc \cup {NULL})'
      BY <3>1 DEF ListInv, ListOK, HeadsOK, links
    <3> QED
      BY <3>1, <3>2, <3>3, OwnStep DEF Inside
  <2> QED
    BY <1>3, <2>1, <2>2, <2>3, <2>4, <2>5, <2>6, <2>7 DEF EnterStep
<1>4. ASSUME NEW t \in Thread, HoldStep(t) PROVE Kept
  <2>1. ASSUME NEW at \in {"create_walk", "remove_walk"}, FindNext(t, at) PROVE Kept
    <3>1. /\ UNCHANGED <<links, userLock>> /\ pc[t] = at /\ pc' = pc /\ onSock' = onSock
          /\ cursor[t] \in alloc /\ cursor'[t] = next[cursor[t]] /\ sock[cursor[t]] # onSock[t]
      BY <1>0, <2>1 DEF FindNext, At, Live, nodeVars
    <3>2. /\ (cursor[t] \in alloc \cup {NULL})'
          /\ Passed(t)' = Passed(t) \cup {cursor[t]}
      BY <1>0, <3>1, NextPassesOne DEF Passed, Older, links, ListInv
    <3>3. userLock = t /\ \A m \in Passed(t) : sock[m] # onSock[t]
      BY <3>1 DEF ListInv, HolderOK, Inside, WalksOK, FindComplete
    <3>4. \A m \in Passed(t)' : sock'[m] # onSock'[t]
      BY <3>1, <3>2, <3>3 DEF links
    <3> QED
      BY <3>1, <3>2, <3>3, <3>4, OwnStep DEF Inside
  <2>2. CASE \/ CreateRefused(t) \/ RemoveAbsent(t) \/ NameReturn(t)
             \/ CreateAbsent(t) \/ RemoveFound(t) \/ IterateBreak(t) \/ IterateEnd(t)
    <3>1. /\ UNCHANGED links /\ userLock = t /\ userLock' = NULL
          /\ pc'[t] \in {"idle", "create_insert", "remove_unlink"}
          /\ \A u \in Thread \ {t} : pc'[u] = pc[u]
      BY <1>0, <2>2 DEF CreateRefused, RemoveAbsent, NameReturn, CreateAbsent, RemoveFound,
                        IterateBreak, IterateEnd, Unlock, Return, Goto, nodeVars
    <3> QED
      BY <3>1, OwnStep, UserListAssumption DEF Walking, Inside
  <2>3. CASE NameNext(t)
    <3>1. /\ UNCHANGED <<links, userLock>> /\ pc[t] = "name_walk" /\ pc' = pc
      BY <2>3 DEF NameNext, At, nodeVars
    <3>2. userLock = t
      BY <3>1 DEF ListInv, HolderOK, Inside
    <3> QED
      BY <3>1, <3>2, OwnStep DEF Walking, Inside
  <2>4. CASE IterateNext(t)
    <3>1. /\ UNCHANGED <<links, userLock>> /\ pc[t] = "iterate" /\ pc' = pc
          /\ cursor[t] \in alloc /\ cursor'[t] = next[cursor[t]]
          /\ seen' = seen \cup {cursor[t]}
      BY <1>0, <2>4 DEF IterateNext, At, Live, nodeVars
    <3>2. /\ (cursor[t] \in alloc \cup {NULL})'
          /\ Passed(t)' = Passed(t) \cup {cursor[t]}
      BY <1>0, <3>1, NextPassesOne DEF Passed, Older, links, ListInv
    <3>3. userLock = t /\ seen = Passed(t)
      BY <3>1 DEF ListInv, HolderOK, Inside, WalksOK, IterationComplete
    <3> QED
      BY <3>1, <3>2, <3>3, OwnStep DEF Inside
  <2> QED
    BY <1>4, <2>1, <2>2, <2>3, <2>4 DEF HoldStep
<1>5. ASSUME NEW t \in Thread, Touch(t) PROVE Kept
  BY <1>5, QuietStep DEF Touch, Fault, nodeVars, callVars
<1> QED
  BY <1>1, <1>2, <1>3, <1>4, <1>5 DEF Next

LEMMA ListInitially == Init => ListInv
<1> SUFFICES ASSUME Init PROVE ListInv
  OBVIOUS
<1>1. ListOK
  BY DEF Init, NodeInit, ListOK, HeadsOK, LinksOK, BirthsOK
<1>2. HolderOK /\ WalksOK
  BY UserListAssumption DEF Init, HolderOK, WalksOK, WalkersOnList, IterationComplete, FindComplete,
                            Walking, Inside
<1> QED
  BY <1>1, <1>2, TypeInit DEF ListInv

\* The invariant the theorems about user.c below are read off.
LEMMA ListAlways == Spec => []ListInv
  BY ListInitially, ListStep, PTL DEF Spec

\* Whatever threads call user.c, in whatever order, and up to the first touch of
\* a freed User: the doubly linked list is whole at every step.
THEOREM ListIntegrity == Spec => []ListOK
  BY ListAlways, PTL DEF ListInv

\* No iteration of user.c meets a freed User, and one that does not break runs its
\* body exactly once on each User (user.h, ITERATE_OVER_USERS).
THEOREM WalksComplete == Spec => [](WalkersOnList /\ IterationComplete)
  BY ListAlways, PTL DEF ListInv, WalksOK

\* A search for a socket or a name that finds nothing has missed nothing: what it
\* looked for was nowhere on the list while it held the mutex.
THEOREM SearchesComplete == Spec => []FindComplete
  BY ListAlways, PTL DEF ListInv, WalksOK

\* A call that returned still holding the mutex is a create_User whose malloc failed.
THEOREM MutexLeak == Spec => []LeakOnlyWithoutMemory
<1>1. ListInv => LeakOnlyWithoutMemory
  BY DEF ListInv, HolderOK, LeakOnlyWithoutMemory, Inside
<1> QED
  BY <1>1, ListAlways, PTL
-----------------------------------------------------------------------------
(* Callers that keep the calls about one socket apart.                     *)
(*                                                                         *)
(* What a thread learnt in an earlier critical section (the socket is free, *)
(* this is its User) can only be spoilt by a call about the same socket.   *)

OneCallPerSocket == \A t, u \in Thread : onSock[t] # NULL /\ onSock[t] = onSock[u] => t = u

LearntOK == \A t \in Thread :
    /\ pc[t] = "create_insert" => \A n \in alloc : sock[n] # onSock[t]
    /\ pc[t] \in {"remove_unlink", "login"} => cursor[t] \in alloc /\ sock[cursor[t]] = onSock[t]
    /\ pc[t] = "login" => onSock[t] \in Sock

OwnedInv ==
    /\ \A n \in alloc : sock[n] \in Sock
    /\ UniqueSockets
    /\ OneCallPerSocket
    /\ LearntOK
    /\ Lookups = {} => ~ fault /\ \A t \in Thread : pc[t] \notin {"name_lock", "name_walk"}

\* Steps that start a call: the new call is alone on its socket.
LEMMA OwnedCall ==
    ASSUME Exclusive, ListInv, OwnedInv, NEW t \in Thread, CallStep(t)
    PROVE  OwnedInv'
<1> USE DEF OwnedInv
<1>0. /\ pc \in [Thread -> {"idle"} \cup Inside \cup Gap] /\ cursor \in [Thread -> Pointer]
      /\ onSock \in [Thread -> Sock \cup {NULL}] /\ NULL \notin Sock
  BY UserListAssumption DEF ListInv, TypeInv, TypeOK
<1>1. UNCHANGED links
  BY DEF CallStep, CreateCall, RemoveCall, NameCall, LoginCall, Logout, ShouldShutdown, WriteFreed,
         IterateCall, nodeVars
<1>2. (\A n \in alloc : sock[n] \in Sock)' /\ UniqueSockets'
  BY <1>1 DEF links, UniqueSockets
<1>3. ASSUME NEW s \in Sock, CreateCall(t, s) \/ RemoveCall(t, s) PROVE OwnedInv'
  <2>1. /\ pc'[t] \in {"create_find", "remove_find"} /\ onSock' = [onSock EXCEPT ![t] = s]
        /\ \A u \in Thread \ {t} : pc'[u] = pc[u]
        /\ cursor' = cursor /\ fault' = fault /\ \A u \in Thread : onSock[u] # s
    BY <1>0, <1>3 DEF CreateCall, RemoveCall, Goto, MayCall, Histories
  <2>2. OneCallPerSocket'
    BY <1>0, <2>1 DEF OneCallPerSocket
  <2>3. LearntOK'
    BY <1>0, <1>1, <2>1 DEF LearntOK, links
  <2> QED
    BY <1>2, <2>1, <2>2, <2>3
<1>4. ASSUME NEW n \in Node, NEW l \in Logins, LoginCall(t, n, l) PROVE OwnedInv'
  <2>1. /\ n \in alloc /\ \A u \in Thread : onSock[u] # sock[n]
        /\ pc'[t] = "login" /\ onSock' = [onSock EXCEPT ![t] = sock[n]]
        /\ \A u \in Thread \ {t} : pc'[u] = pc[u]
        /\ cursor' = [cursor EXCEPT ![t] = n] /\ fault' = fault
    BY <1>0, <1>4 DEF LoginCall, Goto, Held, MayCall, Histories
  <2>2. OneCallPerSocket'
    BY <1>0, <2>1 DEF OneCallPerSocket
  <2>3. LearntOK'
    BY <1>0, <1>1, <2>1 DEF LearntOK, links
  <2> QED
    BY <1>2, <2>1, <2>2, <2>3
<1>5. ASSUME NEW buf \in Lookups, NameCall(t, buf) PROVE OwnedInv'
  <2>1. /\ pc'[t] = "name_lock" /\ onSock' = onSock /\ Lookups # {}
        /\ \A u \in Thread \ {t} : pc'[u] = pc[u] /\ cursor'[u] = cursor[u]
    BY <1>0, <1>5 DEF NameCall, Goto
  <2> QED
    BY <1>1, <1>2, <2>1 DEF OneCallPerSocket, LearntOK, links
<1>6. ASSUME NEW n \in Node, Logout(t, n) \/ ShouldShutdown(t, n) PROVE OwnedInv'
  <2>1. UNCHANGED <<callVars, fault>>
    BY <1>6 DEF Logout, ShouldShutdown, Histories
  <2> QED
    BY <1>1, <1>2, <2>1 DEF callVars, OneCallPerSocket, LearntOK, links
<1>7. ASSUME NEW n \in Node PROVE ~ WriteFreed(t, n)
  BY DEF WriteFreed, Held
<1>8. ASSUME IterateCall(t) PROVE OwnedInv'
  <2>1. /\ pc'[t] = "iterate_lock" /\ onSock' = onSock /\ cursor' = cursor /\ fault' = fault
        /\ \A u \in Thread \ {t} : pc'[u] = pc[u]
    BY <1>0, <1>8 DEF IterateCall, Goto, Histories
  <2> QED
    BY <1>1, <1>2, <2>1 DEF OneCallPerSocket, LearntOK, links
<1> QED
  BY <1>3, <1>4, <1>5, <1>6, <1>7, <1>8 DEF CallStep
\* A return gives the socket up and changes nothing another call has learnt.
LEMMA OwnedReturn ==
    ASSUME ListInv, OwnedInv, UNCHANGED <<links, fault>>, NEW t \in Thread, Return(t)
    PROVE  OwnedInv'
<1>1. /\ pc'[t] = "idle" /\ onSock'[t] = NULL
      /\ \A u \in Thread \ {t} : pc'[u] = pc[u] /\ cursor'[u] = cursor[u] /\ onSock'[u] = onSock[u]
  BY DEF Return, Goto, ListInv, TypeInv, TypeOK
<1> QED
  BY <1>1, UserListAssumption DEF OwnedInv, UniqueSockets, OneCallPerSocket, LearntOK, links

\* A move inside a call: only what the mover itself has learnt is to be looked at.
LEMMA OwnedMove ==
    ASSUME ListInv, OwnedInv, UNCHANGED <<links, onSock, fault>>, NEW t \in Thread,
           \A u \in Thread \ {t} : pc'[u] = pc[u] /\ cursor'[u] = cursor[u],
           pc'[t] # "login",
           pc'[t] = "create_insert" => \A n \in alloc : sock[n] # onSock[t],
           pc'[t] = "remove_unlink" => cursor'[t] \in alloc /\ sock[cursor'[t]] = onSock[t],
           pc'[t] \in {"name_lock", "name_walk"} => pc[t] \in {"name_lock", "name_walk"}
    PROVE  OwnedInv'
  BY DEF OwnedInv, UniqueSockets, OneCallPerSocket, LearntOK, links

\* Steps that take the mutex: an insertion is of a socket nobody else is busy
\* with, a removal is of the caller's own User.
LEMMA OwnedEnter ==
    ASSUME ListInv, OwnedInv, NEW t \in Thread, EnterStep(t)
    PROVE  OwnedInv'
<1>0. /\ pc \in [Thread -> {"idle"} \cup Inside \cup Gap] /\ cursor \in [Thread -> Pointer]
      /\ onSock \in [Thread -> Sock \cup {NULL}] /\ NULL \notin Sock
      /\ sock \in [Node -> Sock \cup {NULL}] /\ alloc \subseteq Node
  BY UserListAssumption DEF ListInv, TypeInv, TypeOK, NodeTypeOK
<1>1. CASE FindLock(t, "create_find", "create_walk") \/ FindLock(t, "remove_find", "remove_walk")
    BY <1>0, <1>1, OwnedMove DEF FindLock, Goto, Histories, nodeVars
<1>2. CASE CreateNoMemory(t) \/ Login(t)
  BY <1>2, OwnedReturn DEF CreateNoMemory, Login, Histories, nodeVars
<1>3. ASSUME NEW n \in Node, CreateInsert(t, n) PROVE OwnedInv'
  <2>1. /\ alloc' = alloc \cup {n} /\ n \notin alloc /\ fault' = fault
        /\ sock'[n] = onSock[t] /\ \A m \in alloc : sock'[m] = sock[m]
        /\ pc[t] = "create_insert" /\ pc'[t] = "idle" /\ onSock'[t] = NULL
        /\ \A u \in Thread \ {t} : pc'[u] = pc[u] /\ cursor'[u] = cursor[u] /\ onSock'[u] = onSock[u]
    BY <1>0, <1>3 DEF CreateInsert, AppendUser, At, Return, Goto, Histories
  <2>2. onSock[t] \in Sock /\ \A m \in alloc : sock[m] # onSock[t]
    BY <2>1 DEF ListInv, TypeInv, ArgsOK, OwnedInv, LearntOK
  <2>3. (\A m \in alloc : sock[m] \in Sock)' /\ UniqueSockets'
    BY <2>1, <2>2 DEF OwnedInv, UniqueSockets
  <2>4. OneCallPerSocket'
    BY <1>0, <2>1 DEF OwnedInv, OneCallPerSocket
  <2>5. \A u \in Thread \ {t} : onSock[u] # onSock[t]
    BY <1>0, <2>2 DEF OwnedInv, OneCallPerSocket
  <2>6. LearntOK'
    BY <2>1, <2>5 DEF OwnedInv, LearntOK
  <2> QED
    BY <2>1, <2>3, <2>4, <2>6 DEF OwnedInv
<1>4. CASE RemoveUnlink(t)
  <2>1. /\ alloc' = alloc \ {cursor[t]} /\ fault' = fault
        /\ \A m \in alloc' : sock'[m] = sock[m]
        /\ pc[t] = "remove_unlink" /\ pc'[t] = "idle" /\ onSock'[t] = NULL
        /\ \A u \in Thread \ {t} : pc'[u] = pc[u] /\ cursor'[u] = cursor[u] /\ onSock'[u] = onSock[u]
    BY <1>0, <1>4 DEF RemoveUnlink, UnlinkUser, FreeUser, At, Return, Goto, Histories
  <2>2. onSock[t] \in Sock /\ cursor[t] \in alloc /\ sock[cursor[t]] = onSock[t]
    BY <2>1 DEF ListInv, TypeInv, ArgsOK, OwnedInv, LearntOK
  <2>3. (\A m \in alloc : sock[m] \in Sock)' /\ UniqueSockets'
    BY <2>1 DEF OwnedInv, UniqueSockets
  <2>4. OneCallPerSocket'
    BY <1>0, <2>1 DEF OwnedInv, OneCallPerSocket
  <2>5. \A u \in Thread \ {t} : onSock[u] # onSock[t]
    BY <1>0, <2>2 DEF OwnedInv, OneCallPerSocket
  <2>6. LearntOK'
    BY <2>1, <2>2, <2>5 DEF OwnedInv, LearntOK
  <2> QED
    BY <2>1, <2>3, <2>4, <2>6 DEF OwnedInv
<1>5. CASE NameLock(t)
  BY <1>0, <1>5, OwnedMove DEF NameLock, At, Goto, Histories, nodeVars
<1>6. CASE IterateLock(t)
  BY <1>0, <1>6, OwnedMove DEF IterateLock, Goto, nodeVars
<1> QED
  BY <1>1, <1>2, <1>3, <1>4, <1>5, <1>6 DEF EnterStep

\* Steps with the mutex held: the two answers of f_find_User are what is learnt.
LEMMA OwnedHold ==
    ASSUME ListInv, OwnedInv, NEW t \in Thread, HoldStep(t)
    PROVE  OwnedInv'
<1>0. /\ pc \in [Thread -> {"idle"} \cup Inside \cup Gap] /\ cursor \in [Thread -> Pointer]
      /\ NULL \notin alloc
  BY NodeAssumption DEF ListInv, TypeInv, TypeOK, NodeTypeOK
<1>1. ASSUME NEW at \in {"create_walk", "remove_walk"}, FindNext(t, at) PROVE OwnedInv'
  BY <1>0, <1>1, OwnedMove DEF FindNext, At, Histories, nodeVars
<1>2. CASE NameNext(t)
  BY <1>0, <1>2, OwnedMove DEF NameNext, At, Histories, nodeVars
<1>3. CASE IterateNext(t)
  BY <1>0, <1>3, OwnedMove DEF IterateNext, At, nodeVars
<1>4. CASE CreateRefused(t) \/ RemoveAbsent(t) \/ NameReturn(t) \/ IterateBreak(t) \/ IterateEnd(t)
  BY <1>4, OwnedReturn DEF CreateRefused, RemoveAbsent, NameReturn, IterateBreak, IterateEnd,
                           Histories, nodeVars
<1>5. CASE CreateAbsent(t)
  <2>1. \A n \in alloc : sock[n] # onSock[t]
    BY <1>5 DEF CreateAbsent, At, ListInv, WalksOK, FindComplete, Passed
  <2> QED
    BY <1>0, <1>5, <2>1, OwnedMove DEF CreateAbsent, Goto, Histories, nodeVars
<1>6. CASE RemoveFound(t)
  BY <1>0, <1>6, OwnedMove DEF RemoveFound, Found, Live, Goto, Histories, nodeVars
<1> QED
  BY <1>1, <1>2, <1>3, <1>4, <1>5, <1>6 DEF HoldStep

\* The only freed User such callers can touch is the one is_name_free starts at.
LEMMA OwnedTouch ==
    ASSUME ListInv, OwnedInv, NEW t \in Thread, Touch(t)
    PROVE  OwnedInv'
<1>1. PICK label \in Inside \cup {"remove_unlink", "login"} : Fault(t, label)
  BY DEF Touch
<1>2. label = "name_walk"
  BY <1>1, NodeAssumption DEF Fault, At, Inside, ListInv, WalksOK, WalkersOnList, Walking, OwnedInv, LearntOK,
              TypeInv, TypeOK, NodeTypeOK
<1> QED
  BY <1>1, <1>2 DEF Fault, At, nodeVars, callVars, links, OwnedInv, UniqueSockets, OneCallPerSocket,
                    LearntOK

\* Every step of such callers.
LEMMA OwnedStep ==
    ASSUME Exclusive
    PROVE  ListInv /\ OwnedInv /\ [Next]_vars => OwnedInv'
<1> SUFFICES ASSUME ListInv, OwnedInv, [Next]_vars PROVE OwnedInv'
  OBVIOUS
<1>1. ASSUME UNCHANGED vars PROVE OwnedInv'
  BY <1>1 DEF vars, nodeVars, callVars, links, OwnedInv, UniqueSockets, OneCallPerSocket, LearntOK
<1> QED
  BY <1>1, OwnedCall, OwnedEnter, OwnedHold, OwnedTouch DEF Next

\* The invariant of disciplined callers holds in every state.
LEMMA OwnedAlways ==
    ASSUME Exclusive
    PROVE  Spec => []OwnedInv
<1>1. Init => OwnedInv
  BY UserListAssumption DEF Init, NodeInit, OwnedInv, UniqueSockets, OneCallPerSocket, LearntOK
<1>2. ListInv /\ OwnedInv /\ [Next]_vars => OwnedInv'
  BY OwnedStep
<1> QED
  BY <1>1, <1>2, ListAlways, PTL DEF Spec

\* With calls about one socket kept apart, sockets are unique on the list, and what
\* remove_User frees is the User it was asked for, although its search and its
\* removal are two critical sections (user.c:61-94).
THEOREM ExclusiveCallsAreSafe ==
    ASSUME Exclusive
    PROVE  Spec => [](UniqueSockets /\ UnlinksItsOwn)
<1>1. OwnedInv => UniqueSockets /\ UnlinksItsOwn
  BY DEF OwnedInv, LearntOK, UnlinksItsOwn
<1> QED
  BY <1>1, OwnedAlways, PTL

\* If besides is_name_free is not called, which reads userFront before it locks
\* (user.c:140), no freed User is ever touched.
THEOREM NothingFreedIsTouched ==
    ASSUME Exclusive, Lookups = {}
    PROVE  Spec => []NoFault
<1>1. OwnedInv => NoFault
  BY DEF OwnedInv, NoFault
<1> QED
  BY <1>1, OwnedAlways, PTL
-----------------------------------------------------------------------------
(* user.c implements a directory of sockets.                               *)

\* An insertion enters a socket, an unlink leaves one, the end of an iteration
\* addresses everybody, and no other step is seen.
LEMMA DirectoryStep ==
    ASSUME ListInv, OwnedInv, [Next]_vars
    PROVE  [Directory!Next]_(Directory!vars)
<1> DEFINE entries == {sock[n] : n \in alloc}
<1> USE DEF Directory!vars, Directory!Next
<1>0. /\ sock \in [Node -> Sock \cup {NULL}] /\ alloc \subseteq Node
      /\ \A n \in alloc : sock[n] \in Sock
  BY DEF ListInv, TypeInv, TypeOK, NodeTypeOK, OwnedInv
<1>1. ASSUME UNCHANGED <<links, audience>> PROVE UNCHANGED Directory!vars
  BY <1>1 DEF links
<1>2. CASE UNCHANGED vars
  BY <1>1, <1>2 DEF vars, nodeVars
<1>3. ASSUME NEW t \in Thread, CallStep(t) PROVE UNCHANGED Directory!vars
  BY <1>1, <1>3 DEF CallStep, CreateCall, RemoveCall, NameCall, LoginCall, Logout, ShouldShutdown,
                    WriteFreed, IterateCall, nodeVars, Histories
<1>4. ASSUME NEW t \in Thread, EnterStep(t) PROVE [Directory!Next]_(Directory!vars)
  <2>1. ASSUME NEW n \in Node, CreateInsert(t, n) PROVE \E s \in Sock : Directory!Enter(s)
    <3>1. /\ alloc' = alloc \cup {n} /\ n \notin alloc /\ audience' = audience
          /\ sock'[n] = onSock[t] /\ \A m \in alloc : sock'[m] = sock[m]
      BY <1>0, <2>1 DEF CreateInsert, AppendUser, Histories
    <3>2. onSock[t] \in Sock /\ \A m \in alloc : sock[m] # onSock[t]
      BY <2>1 DEF CreateInsert, At, ListInv, TypeInv, ArgsOK, OwnedInv, LearntOK
    <3>3. onSock[t] \notin entries /\ entries' = entries \cup {onSock[t]}
      BY <3>1, <3>2
    <3> QED
      BY <3>1, <3>2, <3>3 DEF Directory!Enter
  <2>2. CASE RemoveUnlink(t)
    <3>1. /\ alloc' = alloc \ {cursor[t]} /\ audience' = audience
          /\ \A m \in alloc' : sock'[m] = sock[m]
      BY <1>0, <2>2 DEF RemoveUnlink, UnlinkUser, FreeUser, Histories
    <3>2. /\ onSock[t] \in Sock /\ cursor[t] \in alloc /\ sock[cursor[t]] = onSock[t]
          /\ \A m \in alloc : sock[m] = onSock[t] => m = cursor[t]
      BY <2>2 DEF RemoveUnlink, At, ListInv, TypeInv, ArgsOK, OwnedInv, LearntOK, UniqueSockets
    <3>3. onSock[t] \in entries /\ entries' = entries \ {onSock[t]}
      BY <3>1, <3>2
    <3> QED
      BY <3>1, <3>2, <3>3 DEF Directory!Leave
  <2>3. CASE \/ FindLock(t, "create_find", "create_walk") \/ CreateNoMemory(t)
             \/ FindLock(t, "remove_find", "remove_walk") \/ NameLock(t) \/ Login(t) \/ IterateLock(t)
    BY <1>1, <2>3 DEF FindLock, CreateNoMemory, NameLock, Login, IterateLock, nodeVars, Histories
  <2> QED
    BY <1>4, <2>1, <2>2, <2>3 DEF EnterStep
<1>5. ASSUME NEW t \in Thread, HoldStep(t) PROVE [Directory!Next]_(Directory!vars)
  <2>1. CASE IterateEnd(t)
    <3>1. seen = alloc
      BY <2>1 DEF IterateEnd, At, ListInv, WalksOK, IterationComplete, Passed
    <3> QED
      BY <2>1, <3>1 DEF IterateEnd, Directory!Announce, nodeVars, links
  <2>2. CASE ~ IterateEnd(t)
    BY <1>1, <1>5, <2>2 DEF HoldStep, FindNext, CreateRefused, CreateAbsent, RemoveAbsent, RemoveFound,
                            NameNext, NameReturn, IterateNext, IterateBreak, nodeVars, Histories
  <2> QED
    BY <2>1, <2>2
<1>6. ASSUME NEW t \in Thread, Touch(t) PROVE UNCHANGED Directory!vars
  BY <1>1, <1>6 DEF Touch, Fault, nodeVars
<1> QED
  BY <1>2, <1>3, <1>4, <1>5, <1>6 DEF Next

\* To callers that keep the calls about one socket apart, user.c is a set of
\* sockets: an iteration that runs to its end addresses the whole set of one
\* moment, however creates and removes overlap with it.
THEOREM ListImplementsDirectory ==
    ASSUME Exclusive
    PROVE  Spec => ImplementsDirectory
<1>1. Init => Directory!Init /\ OwnedInv
  BY UserListAssumption DEF Init, NodeInit, OwnedInv, UniqueSockets, OneCallPerSocket, LearntOK, Directory!Init
<1>2. ListInv /\ OwnedInv /\ [Next]_vars => OwnedInv'
  BY OwnedStep
<1>3. ListInv /\ OwnedInv /\ [Next]_vars => [Directory!Next]_(Directory!vars)
  BY DirectoryStep
<1> QED
  BY <1>1, <1>2, <1>3, ListAlways, PTL DEF Spec, ImplementsDirectory, Directory!Spec
=============================================================================
