------------------------------ MODULE UserNodes ------------------------------
(***************************************************************************)
(* The doubly linked list of users of src/src/user.c: the User structure   *)
(* (user.h), the list heads userFront and userBack, and the updates the    *)
(* functions of user.c make to them inside their critical sections.  The   *)
(* module has no next-state relation of its own: UserList adds the mutex   *)
(* and the threads that call these operations.                             *)
(*                                                                         *)
(* A User is a cell of the heap: Node is the set of cells malloc can hand  *)
(* out, alloc the ones it has handed out and not got back.  The contents   *)
(* of a freed cell are never read by a model step: touching one is the     *)
(* undefined step UserList stops at.                                       *)
(***************************************************************************)
EXTENDS Integers

CONSTANTS
    Node,       \* cells malloc can hand out for a User
    Sock,       \* socket descriptors
    Char,       \* characters of a name
    NUL,        \* the character that ends a C string
    NameCap,    \* characters a name buffer holds (NET_NAME_LEN in the code)
    NULL        \* the null pointer

ASSUME NodeAssumption == NULL \notin Node
ASSUME NameAssumption == NameCap \in Nat /\ NUL \notin Char

VARIABLES
    alloc,              \* cells handed out by malloc and not yet freed
    next, prev,         \* the two links of a User
    sock,               \* User.sock
    name,               \* User.name
    name_length,        \* User.name_length
    logged_in,          \* User.logged_in
    should_shutdown,    \* User.should_shutdown
    userFront, userBack,
    birth,              \* history: when the cell was last handed out
    clock               \* history: number of Users created so far

links == <<alloc, next, prev, sock, userFront, userBack, birth, clock>>
identity == <<name, name_length, logged_in>>
nodeVars == <<links, identity, should_shutdown>>

Pointer == Node \cup {NULL}
NameBuffer == [1..NameCap -> Char \cup {NUL}]
EmptyName == [i \in 1..NameCap |-> NUL]

NodeTypeOK ==
    /\ alloc \subseteq Node
    /\ next \in [Node -> Pointer] /\ prev \in [Node -> Pointer]
    /\ sock \in [Node -> Sock \cup {NULL}]
    /\ name \in [Node -> NameBuffer]
    /\ name_length \in [Node -> 0..NameCap]
    /\ logged_in \in [Node -> BOOLEAN]
    /\ should_shutdown \in [Node -> BOOLEAN]
    /\ userFront \in Pointer /\ userBack \in Pointer
    /\ birth \in [Node -> Nat] /\ clock \in Nat

NodeInit ==
    /\ alloc = {}
    /\ next = [n \in Node |-> NULL] /\ prev = [n \in Node |-> NULL]
    /\ sock = [n \in Node |-> NULL]
    /\ name = [n \in Node |-> EmptyName]
    /\ name_length = [n \in Node |-> 0]
    /\ logged_in = [n \in Node |-> FALSE]
    /\ should_shutdown = [n \in Node |-> FALSE]
    /\ userFront = NULL /\ userBack = NULL
    /\ birth = [n \in Node |-> 0] /\ clock = 0

-----------------------------------------------------------------------------
(* Updates of the list.  A definition marked "slip" is no part of the      *)
(* model: it stands in for the next one when a run is repeated to see      *)
(* that its property can fail.                                             *)

\* memset of a new User, or the fields of a freed one forgotten.
ClearIdentity(n) ==
    /\ name' = [name EXCEPT ![n] = EmptyName]
    /\ name_length' = [name_length EXCEPT ![n] = 0]
    /\ logged_in' = [logged_in EXCEPT ![n] = FALSE]
    /\ should_shutdown' = [should_shutdown EXCEPT ![n] = FALSE]

LinkBackwardsOnly(n) ==     \* slip: userBack->next is not set
    /\ userFront' = IF userFront = NULL THEN n ELSE userFront
    /\ prev' = [prev EXCEPT ![n] = userBack]
    /\ next' = [next EXCEPT ![n] = NULL]

\* create_User: the new cell becomes the only element or follows userBack.
LinkAtEnd(n) ==
    IF userFront = NULL
    THEN /\ userFront' = n
         /\ prev' = [prev EXCEPT ![n] = NULL]
         /\ next' = [next EXCEPT ![n] = NULL]
    ELSE /\ userFront' = userFront
         /\ prev' = [prev EXCEPT ![n] = userBack]
         /\ next' = [next EXCEPT ![n] = NULL, ![userBack] = n]

AppendUser(n, s) ==
    /\ n \in Node \ alloc
    /\ LinkAtEnd(n)
    /\ userBack' = n
    /\ alloc' = alloc \cup {n}
    /\ sock' = [sock EXCEPT ![n] = s]
    /\ ClearIdentity(n)
    /\ clock' = clock + 1
    /\ birth' = [birth EXCEPT ![n] = clock + 1]

\* remove_User tells its four cases apart by comparing pointers.
UnlinkOnly(p) ==
    /\ userFront = userBack
    /\ userFront' = NULL /\ userBack' = NULL
    /\ next' = [next EXCEPT ![p] = NULL]
    /\ prev' = [prev EXCEPT ![p] = NULL]

UnlinkFirstOneWay(p) ==     \* slip: the new front keeps its prev
    /\ userFront # userBack /\ p = userFront
    /\ userFront' = next[userFront]
    /\ prev' = [prev EXCEPT ![p] = NULL]
    /\ next' = [next EXCEPT ![p] = NULL]
    /\ UNCHANGED userBack

UnlinkFirst(p) ==
    /\ userFront # userBack /\ p = userFront
    /\ userFront' = next[userFront]
    /\ prev' = [prev EXCEPT ![next[userFront]] = NULL, ![p] = NULL]
    /\ next' = [next EXCEPT ![p] = NULL]
    /\ UNCHANGED userBack

UnlinkLast(p) ==
    /\ userFront # userBack /\ p # userFront /\ p = userBack
    /\ userBack' = prev[userBack]
    /\ next' = [next EXCEPT ![prev[userBack]] = NULL, ![p] = NULL]
    /\ prev' = [prev EXCEPT ![p] = NULL]
    /\ UNCHANGED userFront

UnlinkMiddle(p) ==
    /\ userFront # userBack /\ p # userFront /\ p # userBack
    /\ next' = [next EXCEPT ![prev[p]] = next[p], ![p] = NULL]
    /\ prev' = [prev EXCEPT ![next[p]] = prev[p], ![p] = NULL]
    /\ UNCHANGED <<userFront, userBack>>

\* free: the cell leaves alloc, and its fields are forgotten.
FreeUser(p) ==
    /\ alloc' = alloc \ {p}
    /\ sock' = [sock EXCEPT ![p] = NULL]
    /\ ClearIdentity(p)
    /\ UNCHANGED <<birth, clock>>

UnlinkUser(p) ==
    /\ p \in alloc
    /\ UnlinkOnly(p) \/ UnlinkFirst(p) \/ UnlinkLast(p) \/ UnlinkMiddle(p)
    /\ FreeUser(p)

-----------------------------------------------------------------------------
(* Names.                                                                  *)

\* strncpy(dst, src, size): the characters of src up to its NUL, then NULs
\* up to size; what dst holds after size stays.
StrNCpy(dst, src, size) ==
    [i \in 1..NameCap |->
        IF i > size THEN dst[i]
        ELSE IF \E j \in 1..i : src[j] = NUL THEN NUL ELSE src[i]]

\* strcmp(a, b) == 0
SameString(a, b) ==
    \A i \in 1..NameCap : (\A j \in 1..(i - 1) : a[j] # NUL) => a[i] = b[i]

SetLoginCountingNUL(n, buf, size) ==     \* slip: the length counts the NUL
    /\ name' = [name EXCEPT ![n] = StrNCpy(name[n], buf, size)]
    /\ logged_in' = [logged_in EXCEPT ![n] = TRUE]
    /\ name_length' = [name_length EXCEPT ![n] = size + 1]

\* login_User
SetLogin(n, buf, size) ==
    /\ name' = [name EXCEPT ![n] = StrNCpy(name[n], buf, size)]
    /\ logged_in' = [logged_in EXCEPT ![n] = TRUE]
    /\ name_length' = [name_length EXCEPT ![n] = size]

-----------------------------------------------------------------------------
(* Integrity of the list.                                                  *)

\* The order of the list is the order of creation.
Older(m, n) == birth[m] < birth[n]

\* The heads are the oldest and the youngest live User, or both null.
HeadsOK ==
    /\ alloc = {} <=> userFront = NULL
    /\ alloc = {} <=> userBack = NULL
    /\ alloc # {} => userFront \in alloc /\ userBack \in alloc
    /\ \A n \in alloc : ~ Older(n, userFront) /\ ~ Older(userBack, n)

\* next leads to the User created next among the live ones, prev is its
\* inverse, and only the heads have a null link.
LinksOK ==
    /\ \A n \in alloc : next[n] \in alloc \cup {NULL} /\ prev[n] \in alloc \cup {NULL}
    /\ \A n \in alloc : next[n] = NULL <=> n = userBack
    /\ \A n \in alloc : prev[n] = NULL <=> n = userFront
    /\ \A n \in alloc : next[n] # NULL =>
          /\ prev[next[n]] = n
          /\ Older(n, next[n])
          /\ \A m \in alloc : Older(n, m) => ~ Older(m, next[n])
    /\ \A n \in alloc : prev[n] # NULL => next[prev[n]] = n

\* No two live Users were created at the same moment, nor in the future.
BirthsOK ==
    /\ \A m, n \in alloc : birth[m] = birth[n] => m = n
    /\ \A n \in alloc : birth[n] \in 1..clock

\* A list that satisfies it has every live User on it exactly once, in
\* order of creation, in both directions, and nothing freed.
ListOK == HeadsOK /\ LinksOK /\ BirthsOK
=============================================================================
