-------------------------------- MODULE Roster --------------------------------
(***************************************************************************)
(* What the users are told of each other.  clientthread.c logs a user in,  *)
(* puts its UserAdded on the broadcast queue and tells it directly of the  *)
(* users that were there; when a client is gone it sends the UserRemoved   *)
(* directly.  The agent takes the UserAdded off the queue some time later. *)
(*                                                                         *)
(* A client stands for its connection, the thread that serves it and the   *)
(* User that thread creates.  The mutex of the user list makes every loop  *)
(* over the users one step.  The check for room and the mq_send of          *)
(* broadcast_message are one step here, as are the creation of a User and   *)
(* the assignment of self, and the closing of the descriptor and the       *)
(* removal of the User: BroadcastAgent and ClientThread take them apart.    *)
(* msg_length is like self: every recv that returns writes the one          *)
(* *msg_length, and login_User is given what is in it by then.             *)
(*                                                                         *)
(* A thread whose self was removed, or that would copy a length beyond the  *)
(* buffers, stops; ClientThread has those faults.                          *)
(***************************************************************************)
EXTENDS Naturals, Sequences, FiniteSets

CONSTANTS
    Client,         \* the connections
    NameCap,        \* the longest name (NET_NAME_LEN)
    Character, NUL, \* what a name is made of, and what ends a string
    Name,           \* the names clients log in with
    QueueMax,       \* attr.mq_maxmsg
    NULL,           \* no User, no length of a name
    MaxHeaders      \* bound: headers received

\* A buffer; the string in its first n characters; and the buffers that hold
\* nothing behind their string.
Field == [1..NameCap -> Character \cup {NUL}]
Cut(f, n) == [i \in 1..NameCap |-> IF i > n \/ (\E j \in 1..i : f[j] = NUL) THEN NUL ELSE f[i]]
String(f) == Cut(f, NameCap)
Text == {f \in Field : String(f) = f}
Empty == [i \in 1..NameCap |-> NUL]

Length == 0..NameCap
Fits(f, n) == Cut(f, n) = f

ASSUME RosterAssumption ==
    /\ NULL \notin Client /\ NULL \notin Nat
    /\ NameCap \in Nat /\ NUL \notin Character
    /\ Name \subseteq Text
    /\ QueueMax \in Nat \ {0} /\ MaxHeaders \in Nat

VARIABLES
    self,           \* the one variable of clientthread.c
    msg_length,     \* *msg_length less the 5 before a name, if a name can have that length
    users,          \* the Users on the list
    name,           \* the field name of each
    name_length,
    logged_in,
    pc,             \* where each thread is
    login_name,     \* the string of the login each thread is in
    queue,          \* the names in the UserAdded of broadcast_queue
    view,           \* whom each client has been told of, and not told gone
    headers,        \* history: headers received so far
    crossed,        \* history: a thread has worked on another one's User
    overwritten,    \* history: a header came between another thread's check and its use
    dropped,        \* history: Users on the list whose UserAdded found the queue full
    renamed,        \* history: Users on the list that logged in again
    stale           \* history: names given up, or removed before they were added

userVars == <<self, msg_length, users, name, name_length, logged_in>>
histories == <<headers, crossed, overwritten, dropped, renamed, stale>>
vars == <<userVars, pc, login_name, queue, view, histories>>

Label == {"away", "loop", "read", "set", "add", "inform", "farewell", "remove", "gone"}

TypeOK ==
    /\ self \in Client \cup {NULL}
    /\ msg_length \in Length \cup {NULL}
    /\ users \subseteq Client
    /\ name \in [Client -> Field]
    /\ name_length \in [Client -> Length]
    /\ logged_in \in [Client -> BOOLEAN]
    /\ pc \in [Client -> Label]
    /\ login_name \in [Client -> Name \cup {Empty}]
    /\ queue \in Seq(Text) /\ Len(queue) <= QueueMax
    /\ view \in [Client -> SUBSET Text]
    /\ headers \in 0..MaxHeaders
    /\ crossed \in BOOLEAN /\ overwritten \in BOOLEAN
    /\ dropped \subseteq Client /\ renamed \subseteq Client
    /\ stale \subseteq Text

Init ==
    /\ self = NULL /\ msg_length = NULL /\ users = {}
    /\ name = [c \in Client |-> Empty]
    /\ name_length = [c \in Client |-> 0]
    /\ logged_in = [c \in Client |-> FALSE]
    /\ pc = [c \in Client |-> "away"]
    /\ login_name = [c \in Client |-> Empty]
    /\ queue = <<>>
    /\ view = [c \in Client |-> {}]
    /\ headers = 0 /\ crossed = FALSE /\ overwritten = FALSE
    /\ dropped = {} /\ renamed = {} /\ stale = {}

LoggedIn == {c \in users : logged_in[c]}

\* The name as it is sent: the string in name_length characters of it.
Announced(c) == Cut(name[c], name_length[c])

Goto(t, label) == pc' = [pc EXCEPT ![t] = label]

\* A step of thread t that uses self.
Using(t, label) ==
    /\ pc[t] = label
    /\ self \in users
    /\ crossed' = (crossed \/ self # t)

-----------------------------------------------------------------------------
(* A definition marked "slip" is no part of the model: it stands in for    *)
(* the next one when a run is repeated to see that its property can fail.  *)

\* A connection is accepted; its thread creates the User, sets self and makes a
\* msg_length of 0, which is no length of a name.
Connect(t) ==
    /\ pc[t] = "away"
    /\ users' = users \cup {t} /\ self' = t /\ msg_length' = NULL
    /\ Goto(t, "loop")
    /\ UNCHANGED <<name, name_length, logged_in, login_name, queue, view, histories>>

\* A header has come for t: *msg_length is overwritten for every thread.
Header(t, n) ==
    /\ Using(t, "loop")
    /\ headers < MaxHeaders /\ headers' = headers + 1
    /\ msg_length' = n
    /\ overwritten' = (overwritten \/ \E u \in Client : pc[u] = "set")
    /\ UNCHANGED <<self, users, name, name_length, logged_in, login_name, queue, view,
                   dropped, renamed, stale>>

\* network_Receive finds a login ...
Receive(t, n) == n # 0 /\ Header(t, n) /\ Goto(t, "read")

\* ... or anything else, which has any length: it matters while some thread has
\* yet to read the length of its name.
Chat(t, n) ==
    /\ Header(t, n)
    /\ \E u \in Client : pc[u] \in {"read", "set"}
    /\ UNCHANGED pc

\* "Name already taken", or a character that is forbidden.
Refuse(t) ==
    /\ Using(t, "read")
    /\ Goto(t, "loop")
    /\ UNCHANGED <<userVars, login_name, queue, view, headers, overwritten, dropped, renamed, stale>>

LoginUnchecked(t, nm) ==     \* slip: is_name_free is not asked
    /\ Using(t, "read")
    /\ msg_length # NULL /\ Fits(nm, msg_length)
    /\ login_name' = [login_name EXCEPT ![t] = nm]
    /\ Goto(t, "set")
    /\ UNCHANGED <<userVars, queue, view, headers, overwritten, dropped, renamed, stale>>

\* login_name gets at most *msg_length - 5 characters; is_name_free.
Login(t, nm) ==
    /\ Using(t, "read")
    /\ msg_length # NULL /\ Fits(nm, msg_length)
    /\ \A c \in LoggedIn : String(name[c]) # nm
    /\ login_name' = [login_name EXCEPT ![t] = nm]
    /\ Goto(t, "set")
    /\ UNCHANGED <<userVars, queue, view, headers, overwritten, dropped, renamed, stale>>

\* strncpy of a string without anything behind it: what dst holds after size stays.
StrNCpy(dst, src, size) == [i \in 1..NameCap |-> IF i <= size THEN src[i] ELSE dst[i]]

\* login_User, with *msg_length read again.
SetLogin(t) ==
    /\ Using(t, "set")
    /\ msg_length # NULL
    /\ name' = [name EXCEPT ![self] = StrNCpy(@, login_name[t], msg_length)]
    /\ name_length' = [name_length EXCEPT ![self] = msg_length]
    /\ logged_in' = [logged_in EXCEPT ![self] = TRUE]
    /\ IF name_length[self] # 0
       THEN renamed' = renamed \cup {self} /\ stale' = stale \cup {Announced(self)}
       ELSE UNCHANGED <<renamed, stale>>
    /\ Goto(t, "add")
    /\ UNCHANGED <<self, msg_length, users, login_name, queue, view, headers, overwritten, dropped>>

AddAlways(t) ==     \* slip: the limit of the queue is not looked at
    /\ Using(t, "add")
    /\ queue' = Append(queue, Announced(self))
    /\ Goto(t, "inform")
    /\ UNCHANGED <<userVars, login_name, view, headers, overwritten, dropped, renamed, stale>>

\* build_User_Added, broadcast_message: a full queue drops it, and nobody looks.
Add(t) ==
    /\ Using(t, "add")
    /\ IF Len(queue) < QueueMax
       THEN queue' = Append(queue, Announced(self)) /\ UNCHANGED dropped
       ELSE dropped' = dropped \cup {self} /\ UNCHANGED queue
    /\ Goto(t, "inform")
    /\ UNCHANGED <<userVars, login_name, view, headers, overwritten, renamed, stale>>

InformMissing(t) ==     \* slip: the newcomer is not told of the others
    /\ Using(t, "inform")
    /\ login_name' = [login_name EXCEPT ![t] = Empty]
    /\ Goto(t, "loop")
    /\ UNCHANGED <<userVars, queue, view, headers, overwritten, dropped, renamed, stale>>

\* "Inform about old Users"
Inform(t) ==
    /\ Using(t, "inform")
    /\ view' = [view EXCEPT ![self] = @ \cup {Announced(c) : c \in LoggedIn \ {self}}]
    /\ login_name' = [login_name EXCEPT ![t] = Empty]
    /\ Goto(t, "loop")
    /\ UNCHANGED <<userVars, queue, headers, overwritten, dropped, renamed, stale>>

\* The client has hung up or was kicked: logout_user.
Leave(t) ==
    /\ Using(t, "loop")
    /\ logged_in' = [logged_in EXCEPT ![self] = FALSE]
    /\ Goto(t, "farewell")
    /\ UNCHANGED <<self, msg_length, users, name, name_length, login_name, queue, view,
                   headers, overwritten, dropped, renamed, stale>>

\* build_User_Removed, sent to the others, unless self never logged in.
Farewell(t) ==
    /\ Using(t, "farewell")
    /\ view' = IF name_length[self] = 0 THEN view
               ELSE [c \in Client |-> IF c \in LoggedIn \ {self}
                                      THEN view[c] \ {Announced(self)} ELSE view[c]]
    /\ stale' = IF \E i \in DOMAIN queue : queue[i] = Announced(self)
                THEN stale \cup {Announced(self)} ELSE stale
    /\ Goto(t, "remove")
    /\ UNCHANGED <<userVars, login_name, queue, headers, overwritten, dropped, renamed>>

\* close, remove_User; the thread ends, self keeps its value.
Remove(t) ==
    /\ Using(t, "remove")
    /\ users' = users \ {self}
    /\ name' = [name EXCEPT ![self] = Empty]
    /\ name_length' = [name_length EXCEPT ![self] = 0]
    /\ logged_in' = [logged_in EXCEPT ![self] = FALSE]
    /\ view' = [view EXCEPT ![self] = {}]
    /\ dropped' = dropped \ {self} /\ renamed' = renamed \ {self}
    /\ Goto(t, "gone")
    /\ UNCHANGED <<self, msg_length, login_name, queue, headers, overwritten, stale>>

\* The agent sends the oldest UserAdded to everybody who is logged in.
Dispatch ==
    /\ queue # <<>>
    /\ queue' = Tail(queue)
    /\ view' = [c \in Client |-> IF c \in LoggedIn THEN view[c] \cup {Head(queue)} ELSE view[c]]
    /\ UNCHANGED <<userVars, pc, login_name, histories>>

Next ==
    \/ Dispatch
    \/ \E t \in Client :
          \/ Connect(t)
          \/ \E n \in Length : Receive(t, n)
          \/ \E n \in Length \cup {NULL} : Chat(t, n)
          \/ (\E nm \in Name : Login(t, nm)) \/ Refuse(t)
          \/ SetLogin(t) \/ Add(t) \/ Inform(t)
          \/ Leave(t) \/ Farewell(t) \/ Remove(t)

Spec == Init /\ [][Next]_vars

-----------------------------------------------------------------------------
(* Properties.                                                             *)

\* "Name already taken": two users are known by one name only if the header of
\* another message came between the check of a name and its use, whose length
\* login_User then took for the name's, or one of them logged in a second time and
\* kept the tail of its first name.
UniqueNames ==
    ~ overwritten =>
       \A c, d \in LoggedIn :
          c # d /\ Announced(c) = Announced(d) => {c, d} \cap renamed # {}

\* Everything that was announced has been sent.
Settled == queue = <<>> /\ \A t \in Client : pc[t] \in {"away", "loop", "read", "gone"}

\* Everybody has been told of everybody else, unless the queue was full, or the
\* other one logged in again: then a third one can have had its name, and left.
NobodyMissing ==
    \A c, d \in LoggedIn : c # d => Announced(d) \in view[c] \/ d \in dropped \cup renamed

\* Nobody is listed who is not there, unless its UserRemoved overtook its UserAdded
\* or it changed its name.
NobodyTooMany ==
    \A c \in LoggedIn : view[c] \subseteq {Announced(d) : d \in LoggedIn} \cup stale

\* As long as each thread works on its own User, the users agree on who is there
\* once everything has been sent.
ViewsAgree == Settled /\ ~ crossed => NobodyMissing /\ NobodyTooMany
=============================================================================
