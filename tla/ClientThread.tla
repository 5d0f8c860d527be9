----------------------------- MODULE ClientThread -----------------------------
(***************************************************************************)
(* The server's life with its clients: connectionhandler.c accepts a       *)
(* connection and starts a thread for it, clientthread.c runs that thread  *)
(* until its client is gone, user.c keeps the list.                        *)
(*                                                                         *)
(* self, connection_status, msg and disconnect_reason of clientthread.c    *)
(* are variables of the process, so every thread reads and writes the same *)
(* ones.  One action is what a thread does between two points where the    *)
(* other threads can change one of them under its feet: the reads of self  *)
(* are where the code reads it.                                            *)
(*                                                                         *)
(* The critical sections of user.c are single actions here; UserList shows *)
(* that its walks see the list as of one moment.  What a message does in   *)
(* the broadcast queue, and /pause and /resume, are in BroadcastAgent.     *)
(*                                                                         *)
(* A malloc may return NULL: create_User then returns NULL with userLock   *)
(* still held, and the buffers are used unchecked.  A use of a freed User  *)
(* or buffer, or of a null pointer, is undefined: fault is set and the     *)
(* model stops there.                                                      *)
(***************************************************************************)
EXTENDS UserNodes, FiniteSets

CONSTANTS
    Thread,         \* threads pthread_create can start at a time
    Client,         \* the programs that connect
    AdminName,      \* the admin's name
    Forbidden,      \* characters f_Name_has_forbidden_char refuses
    Inputs,         \* what clients may send
    MaxAccepts      \* bound: connections accepted

VARIABLES
    self, connection_status, disconnect_reason,
    msg,            \* the thread whose malloc made the buffer msg points to
    bufs,           \* the threads whose buffer has not been freed
    length_from,    \* the thread whose header *msg_length holds the length of, or NULL
    leaked,         \* whether userLock was left locked
    conn,           \* the client at the other end of each descriptor, or NULL
    client,         \* what each client does
    pc, mine,       \* where each thread is, the socket it was started with
    waits,          \* the client whose connection a recv of the thread waits on
    input,          \* the name in the thread's message, with its kind, or NULL
    found,          \* the result of create_User, locPointer of remove_User
    accepts,        \* history: connections accepted
    serves,         \* history: the client each thread was started for
    kicked,         \* history: clients an admin has kicked
    overlap,        \* history: a connection was accepted while a thread was there
    starved,        \* history: a malloc has returned NULL
    fault           \* history: undefined behaviour was reached

Name == [1..NameCap -> Char]

\* ValidationCode with what the message carries: a login name, a name to kick.
\* "message" stands for every other message, "invalid" for the negative codes.
Input ==
    [kind : {"login", "kick"}, name : Name] \cup
    [kind : {"message", "invalid"}, name : {EmptyName}]

ASSUME ClientAssumption ==
    /\ NULL \notin Thread /\ NULL \notin Client
    /\ Sock \subseteq Nat
    /\ MaxAccepts \in Nat
    /\ AdminName \in [1..NameCap -> Char]
    /\ Forbidden \subseteq Char
    /\ Inputs \subseteq Input

globals == <<self, connection_status, disconnect_reason, msg, bufs, length_from>>
network == <<conn, client>>
locals == <<mine, waits, input, found>>
sessions == <<accepts, serves, kicked, overlap>>
histories == <<sessions, leaked, starved>>
vars == <<nodeVars, globals, network, pc, locals, histories, fault>>

Label ==
    {"none", "create_find", "create_insert", "assign", "setup", "loop", "recv",
     "receive", "login", "login_set", "notice", "message", "kick", "invalid",
     "leave", "close", "remove_find", "remove_unlink", "free"}

TypeOK ==
    /\ NodeTypeOK
    /\ self \in Pointer
    /\ connection_status \in -1..3
    /\ disconnect_reason \in {"error", "closed", "kicked"}
    /\ msg \in Thread \cup {NULL} /\ bufs \subseteq Thread
    /\ length_from \in Thread \cup {NULL}
    /\ leaked \in BOOLEAN
    /\ conn \in [Sock -> Client \cup {NULL}]
    /\ client \in [Client -> {"away", "connected", "closed"}]
    /\ pc \in [Thread -> Label]
    /\ mine \in [Thread -> Sock \cup {NULL}]
    /\ waits \in [Thread -> Client \cup {NULL}]
    /\ input \in [Thread -> Inputs \cup {NULL}]
    /\ found \in [Thread -> Pointer]
    /\ accepts \in 0..MaxAccepts
    /\ serves \in [Thread -> Client \cup {NULL}]
    /\ kicked \subseteq Client
    /\ overlap \in BOOLEAN /\ starved \in BOOLEAN
    /\ fault \in BOOLEAN

Init ==
    /\ NodeInit
    /\ self = NULL /\ connection_status = 0 /\ disconnect_reason = "error"
    /\ msg = NULL /\ bufs = {} /\ length_from = NULL
    /\ leaked = FALSE
    /\ conn = [s \in Sock |-> NULL]
    /\ client = [c \in Client |-> "away"]
    /\ pc = [t \in Thread |-> "none"]
    /\ mine = [t \in Thread |-> NULL]
    /\ waits = [t \in Thread |-> NULL]
    /\ input = [t \in Thread |-> NULL]
    /\ found = [t \in Thread |-> NULL]
    /\ accepts = 0
    /\ serves = [t \in Thread |-> NULL]
    /\ kicked = {}
    /\ overlap = FALSE /\ starved = FALSE
    /\ fault = FALSE

At(t, label) == pc[t] = label /\ ~ fault
Goto(t, label) == pc' = [pc EXCEPT ![t] = label]

SelfLive == self \in alloc
MsgLive == msg \in bufs

\* n is where a walk that stops at the first User of S stops.
IsFirst(n, S) == n \in S /\ \A m \in S : birth[n] <= birth[m]
WithSock(s) == {n \in alloc : sock[n] = s}
LoggedInAs(nm) == {n \in alloc : logged_in[n] /\ SameString(name[n], nm)}

-----------------------------------------------------------------------------
(* connection_handler and the clients                                      *)

\* accept gives the lowest free descriptor.
FreeSock == {s \in Sock : conn[s] = NULL}

Accept(c, t) ==
    /\ At(t, "none") /\ client[c] = "away"
    /\ accepts < MaxAccepts
    /\ \E s \in FreeSock :
          /\ \A r \in FreeSock : s <= r
          /\ conn' = [conn EXCEPT ![s] = c]
          /\ mine' = [mine EXCEPT ![t] = s]
    /\ client' = [client EXCEPT ![c] = "connected"]
    /\ Goto(t, "create_find")
    /\ accepts' = accepts + 1
    /\ serves' = [serves EXCEPT ![t] = c]
    /\ kicked' = kicked \ {c}
    /\ overlap' = (overlap \/ \E u \in Thread : pc[u] # "none")
    /\ UNCHANGED <<nodeVars, globals, waits, input, found, leaked, starved, fault>>

\* pthread_create fails: the descriptor is closed again, and the client finds its
\* connection closed.
AcceptNoThread(c) ==
    /\ ~ fault /\ client[c] = "away"
    /\ accepts < MaxAccepts /\ FreeSock # {}
    /\ client' = [client EXCEPT ![c] = "closed"]
    /\ accepts' = accepts + 1
    /\ UNCHANGED <<nodeVars, globals, conn, pc, locals, serves, kicked, overlap,
                   leaked, starved, fault>>

\* The server has read what the client sent, and the client has closed its end:
\* recv on the connection returns 0 from now on.
HangUp(c) ==
    /\ ~ fault
    /\ client[c] = "connected"
    /\ client' = [client EXCEPT ![c] = "closed"]
    /\ UNCHANGED <<nodeVars, globals, conn, pc, locals, histories, fault>>

\* The client program is ready for another connection once the server holds
\* none of its descriptors and no recv waits on the old connection.
Return(c) ==
    /\ ~ fault
    /\ client[c] = "closed"
    /\ \A s \in Sock : conn[s] # c
    /\ \A t \in Thread : waits[t] # c
    /\ client' = [client EXCEPT ![c] = "away"]
    /\ UNCHANGED <<nodeVars, globals, conn, pc, locals, histories, fault>>

-----------------------------------------------------------------------------
(* client_Thread: before the loop.  A definition marked "slip" is no part   *)
(* of the model: it stands in for the next one when a run is repeated to   *)
(* see that its property can fail.                                         *)

\* create_User: f_find_User, then, in a second critical section, the new User.
\* The first half of each critical section is pthread_mutex_lock: with userLock
\* left locked by somebody who is gone, nobody gets past it.
CreateFind(t) ==
    /\ At(t, "create_find") /\ ~ leaked
    /\ found' = [found EXCEPT ![t] = NULL]
    /\ Goto(t, IF WithSock(mine[t]) = {} THEN "create_insert" ELSE "assign")
    /\ UNCHANGED <<nodeVars, globals, network, mine, waits, input, histories, fault>>

CreateInsert(t, n) ==
    /\ At(t, "create_insert") /\ ~ leaked
    /\ AppendUser(n, mine[t])
    /\ found' = [found EXCEPT ![t] = n]
    /\ Goto(t, "assign")
    /\ UNCHANGED <<globals, network, mine, waits, input, histories, fault>>

\* malloc of the User returns NULL: so does create_User, without unlocking.
CreateFails(t) ==
    /\ At(t, "create_insert") /\ ~ leaked
    /\ found' = [found EXCEPT ![t] = NULL]
    /\ leaked' = TRUE /\ starved' = TRUE
    /\ Goto(t, "assign")
    /\ UNCHANGED <<nodeVars, globals, network, mine, waits, input, sessions, fault>>

AssignNothing(t) ==     \* slip: the User create_User returns is dropped
    /\ At(t, "assign")
    /\ Goto(t, "setup")
    /\ UNCHANGED <<nodeVars, globals, network, locals, histories, fault>>

AssignSelf(t) ==
    /\ At(t, "assign")
    /\ self' = found[t]
    /\ found' = [found EXCEPT ![t] = NULL]
    /\ Goto(t, "setup")
    /\ UNCHANGED <<nodeVars, connection_status, disconnect_reason, msg, bufs, length_from,
                   network, mine, waits, input, histories, fault>>

\* malloc of msg and msg_length, which live and die together; *msg_length is 0.
SetUp(t) ==
    /\ At(t, "setup")
    /\ msg' = t /\ bufs' = bufs \cup {t} /\ length_from' = NULL
    /\ disconnect_reason' = "error"
    /\ Goto(t, "loop")
    /\ UNCHANGED <<nodeVars, self, connection_status, network, locals, histories, fault>>

\* One of the two mallocs returns NULL, and memset writes there.
SetUpFails(t) ==
    /\ At(t, "setup")
    /\ fault' = TRUE /\ starved' = TRUE
    /\ UNCHANGED <<nodeVars, globals, network, pc, locals, sessions, leaked>>

-----------------------------------------------------------------------------
(* client_Thread: the loop                                                 *)

\* memset of msg; recv is called with self->sock, and keeps waiting on that
\* connection whatever self becomes.
EnterRecv(t) ==
    /\ At(t, "loop") /\ MsgLive /\ SelfLive
    /\ conn[sock[self]] # NULL
    /\ waits' = [waits EXCEPT ![t] = conn[sock[self]]]
    /\ Goto(t, "recv")
    /\ UNCHANGED <<nodeVars, globals, network, mine, input, found, histories, fault>>

\* recv on a descriptor that is closed: -1.
RecvFails(t) ==
    /\ At(t, "loop") /\ MsgLive /\ SelfLive
    /\ conn[sock[self]] = NULL
    /\ connection_status' = -1
    /\ Goto(t, "leave")
    /\ UNCHANGED <<nodeVars, self, disconnect_reason, msg, bufs, length_from, network,
                   locals, histories, fault>>

RecvClosed(t) ==
    /\ At(t, "recv") /\ client[waits[t]] = "closed"
    /\ connection_status' = 0
    /\ Goto(t, "leave")
    /\ UNCHANGED <<nodeVars, self, disconnect_reason, msg, bufs, length_from, network,
                   locals, histories, fault>>

\* A header has come, or the first bytes of one.  *msg_length is this thread's now.
RecvHeader(t) ==
    /\ At(t, "recv") /\ client[waits[t]] = "connected"
    /\ connection_status' \in 1..3
    /\ length_from' = t
    /\ Goto(t, "receive")
    /\ UNCHANGED <<nodeVars, self, disconnect_reason, msg, bufs, network, locals,
                   histories, fault>>

\* network_Receive(self->sock, msg), and the switch on its result.  A client may
\* send anything, and with a foreign self the bytes are a foreign client's.  A read
\* of a descriptor that was closed in the meantime leaves an empty text, which the
\* function lets pass as a message, or is refused.
Receive(t, in) ==
    /\ At(t, "receive") /\ MsgLive /\ SelfLive
    /\ conn[sock[self]] = NULL => in.kind \in {"message", "invalid"}
    /\ input' = [input EXCEPT ![t] = IF in.kind \in {"login", "kick"} THEN in ELSE NULL]
    /\ waits' = [waits EXCEPT ![t] = NULL]
    /\ Goto(t, in.kind)
    /\ UNCHANGED <<nodeVars, globals, network, mine, found, histories, fault>>

\* The name the message carried is not needed any more.
Forget(t) == input' = [input EXCEPT ![t] = NULL]

f_Name_has_forbidden_char(buf) == \E i \in 1..NameCap : buf[i] \in Forbidden

\* The name must be free and have no forbidden character; the response is sent.
LoginCheck(t) ==
    /\ At(t, "login") /\ MsgLive /\ SelfLive /\ ~ leaked
    /\ LET accepted == /\ LoggedInAs(input[t].name) = {}
                       /\ ~ f_Name_has_forbidden_char(input[t].name)
       IN  IF accepted
           THEN Goto(t, "login_set") /\ UNCHANGED input
           ELSE Goto(t, "loop") /\ Forget(t)
    /\ UNCHANGED <<nodeVars, globals, network, mine, waits, found, histories, fault>>

\* login_User with the size read anew from *msg_length, which is another's when
\* another thread has received in between (Roster follows the values).
LoginSet(t) ==
    /\ At(t, "login_set") /\ SelfLive /\ MsgLive /\ ~ leaked
    /\ length_from # NULL
    /\ \E size \in 0..NameCap :
          /\ length_from = t => size = NameCap
          /\ SetLogin(self, input[t].name, size)
    /\ Goto(t, "notice") /\ Forget(t)
    /\ UNCHANGED <<links, should_shutdown, globals, network, mine, waits, found,
                   histories, fault>>

\* A walk over the users that sends each of them something: who is new and who is
\* there, after a login; that the server is paused or resumed.
Notice(t) ==
    /\ At(t, "notice") /\ MsgLive /\ SelfLive /\ ~ leaked
    /\ Goto(t, "loop")
    /\ UNCHANGED <<nodeVars, globals, network, locals, histories, fault>>

\* Whoever self is must have the admin's name; the target's socket is closed.
IsAdmin == SameString(name[self], AdminName)

\* A text, or a command other than /kick; the admin's /pause and /resume walk.
Message(t) ==
    /\ At(t, "message") /\ MsgLive /\ SelfLive
    /\ Goto(t, "loop") \/ (IsAdmin /\ Goto(t, "notice"))
    /\ UNCHANGED <<nodeVars, globals, network, locals, histories, fault>>

Kick(t) ==
    /\ At(t, "kick") /\ MsgLive /\ SelfLive
    /\ IsAdmin /\ ~ leaked
    /\ \E target \in alloc :
          /\ IsFirst(target, LoggedInAs(input[t].name))
          /\ conn' = [conn EXCEPT ![sock[target]] = NULL]
          /\ should_shutdown' = [should_shutdown EXCEPT ![target] = TRUE]
          /\ kicked' = kicked \cup ({conn[sock[target]]} \ {NULL})
    /\ Goto(t, "loop") /\ Forget(t)
    /\ UNCHANGED <<links, identity, globals, client, mine, waits, found, accepts, serves,
                   overlap, leaked, starved, fault>>

KickRefused(t) ==
    /\ At(t, "kick") /\ MsgLive /\ SelfLive
    /\ ~ IsAdmin \/ (LoggedInAs(input[t].name) = {} /\ ~ leaked)
    /\ Goto(t, "loop") /\ Forget(t)
    /\ UNCHANGED <<nodeVars, globals, network, mine, waits, found, histories, fault>>

\* A message that network_Receive refuses marks the User; the loop goes on.
Invalid(t) ==
    /\ At(t, "invalid") /\ SelfLive
    /\ should_shutdown' = [should_shutdown EXCEPT ![self] = TRUE]
    /\ Goto(t, "loop")
    /\ UNCHANGED <<links, identity, globals, network, locals, histories, fault>>

-----------------------------------------------------------------------------
(* client_Thread: after the loop                                           *)

CS_Closed_Connection == 2

\* logout_user, the reason, and the UserRemoved for the others if self has a name.
Leave(t) ==
    /\ At(t, "leave") /\ SelfLive /\ MsgLive
    /\ name_length[self] # 0 => ~ leaked
    /\ logged_in' = [logged_in EXCEPT ![self] = FALSE]
    /\ disconnect_reason' =
          IF connection_status = CS_Closed_Connection THEN "closed"
          ELSE IF should_shutdown[self] THEN "kicked" ELSE disconnect_reason
    /\ waits' = [waits EXCEPT ![t] = NULL]
    /\ Goto(t, "close")
    /\ UNCHANGED <<links, name, name_length, should_shutdown, self, connection_status,
                   msg, bufs, length_from, network, mine, input, found, histories, fault>>

CloseMissing(t) ==     \* slip: the descriptor stays open
    /\ At(t, "close") /\ SelfLive
    /\ Goto(t, "remove_find")
    /\ UNCHANGED <<nodeVars, globals, network, locals, histories, fault>>

CloseSock(t) ==
    /\ At(t, "close") /\ SelfLive
    /\ conn' = [conn EXCEPT ![sock[self]] = NULL]
    /\ Goto(t, "remove_find")
    /\ UNCHANGED <<nodeVars, globals, client, locals, histories, fault>>

\* remove_User: f_find_User, then, in a second critical section, the removal.
RemoveFind(t) ==
    /\ At(t, "remove_find") /\ SelfLive /\ ~ leaked
    /\ \E n \in alloc :
          /\ IsFirst(n, WithSock(sock[self]))
          /\ found' = [found EXCEPT ![t] = n]
    /\ Goto(t, "remove_unlink")
    /\ UNCHANGED <<nodeVars, globals, network, mine, waits, input, histories, fault>>

RemoveUnlink(t) ==
    /\ At(t, "remove_unlink") /\ found[t] \in alloc /\ ~ leaked
    /\ UnlinkUser(found[t])
    /\ found' = [found EXCEPT ![t] = NULL]
    /\ Goto(t, "free")
    /\ UNCHANGED <<globals, network, mine, waits, input, histories, fault>>

\* free of msg and msg_length; the thread ends.  self keeps its value.
Free(t) ==
    /\ At(t, "free") /\ MsgLive
    /\ bufs' = bufs \ {msg}
    /\ Goto(t, "none")
    /\ mine' = [mine EXCEPT ![t] = NULL]
    /\ serves' = [serves EXCEPT ![t] = NULL]
    /\ UNCHANGED <<nodeVars, self, connection_status, disconnect_reason, msg, length_from,
                   network, waits, input, found, accepts, kicked, overlap, leaked, starved,
                   fault>>

-----------------------------------------------------------------------------
\* The next step of t needs something that is gone.
NeedsSelf == {"loop", "receive", "login", "login_set", "notice", "message", "kick",
              "invalid", "leave", "close", "remove_find"}
NeedsMsg == {"loop", "receive", "login", "login_set", "notice", "message", "kick",
             "leave", "free"}

\* A length that is not this thread's may be beyond every buffer.
Fault(t) ==
    /\ ~ fault
    /\ \/ pc[t] \in NeedsSelf /\ ~ SelfLive
       \/ pc[t] \in NeedsMsg /\ ~ MsgLive
       \/ pc[t] = "login_set" /\ length_from # t
       \/ pc[t] = "remove_unlink" /\ found[t] \notin alloc
    /\ fault' = TRUE
    /\ UNCHANGED <<nodeVars, globals, network, pc, locals, histories>>

\* What a thread does without waiting for its client to send.
Run(t) ==
    \/ CreateFind(t) \/ (\E n \in Node : CreateInsert(t, n)) \/ CreateFails(t)
    \/ AssignSelf(t) \/ SetUp(t) \/ SetUpFails(t)
    \/ EnterRecv(t) \/ RecvFails(t) \/ RecvClosed(t)
    \/ (\E in \in Inputs : Receive(t, in))
    \/ LoginCheck(t) \/ LoginSet(t) \/ Notice(t)
    \/ Message(t) \/ Kick(t) \/ KickRefused(t) \/ Invalid(t)
    \/ Leave(t) \/ CloseSock(t) \/ RemoveFind(t) \/ RemoveUnlink(t) \/ Free(t)
    \/ Fault(t)

Next ==
    \/ \E c \in Client :
          HangUp(c) \/ Return(c) \/ AcceptNoThread(c) \/ \E t \in Thread : Accept(c, t)
    \/ \E t \in Thread : Run(t) \/ RecvHeader(t)

\* A thread that can go on does; no client has to do anything.
Fairness == \A t \in Thread : WF_vars(Run(t))

Spec == Init /\ [][Next]_vars

-----------------------------------------------------------------------------
(* Properties.                                                             *)


\* A thread uses a freed User or buffer, or a null pointer, only after two threads
\* have been there at the same time, or after a malloc has failed.
NoFault == fault => overlap \/ starved

\* When the last thread of a server whose clients came one after the other has
\* ended, it has left nothing behind: no User on the list, no open descriptor, no
\* buffer.
IdleServerIsEmpty ==
    ~ overlap /\ ~ starved /\ (\A t \in Thread : pc[t] = "none") =>
        alloc = {} /\ bufs = {} /\ \A s \in Sock : conn[s] = NULL

\* "Kick a user from the chat": a thread that waits on the connection of a client
\* the admin kicks comes to its end, unless a step is undefined or userLock was left
\* locked.  It is false: close(target->sock) wakes no recv, and the connection lives
\* until the client sends something or closes its end.
Ended(t) == pc[t] = "none" \/ fault \/ leaked
KickEnds == \A t \in Thread : waits[t] \in kicked ~> Ended(t)
=============================================================================
