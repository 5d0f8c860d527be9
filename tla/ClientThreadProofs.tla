-------------------------- MODULE ClientThreadProofs --------------------------
(***************************************************************************)
(* Theorems about ClientThread.                                            *)
(*                                                                         *)
(* Whatever the threads do to each other through the shared self, the list *)
(* of users stays whole up to the first undefined step; and no such step   *)
(* is taken, and nothing left behind, before two threads have been there   *)
(* at the same time or a malloc has failed.                                *)
(***************************************************************************)
EXTENDS ClientThread, UserNodesProofs

-----------------------------------------------------------------------------
(* Types.                                                                  *)

\* A thread knows its socket and, while it handles a message that carries a
\* name, has one.
ArgsOK == \A t \in Thread :
    /\ pc[t] # "none" => mine[t] \in Sock
    /\ pc[t] \in {"login", "login_set", "kick"} => input[t] \in Inputs

\* A User on the list has a socket.
SocksOK == \A n \in alloc : sock[n] \in Sock

TypeInv == TypeOK /\ ArgsOK /\ SocksOK

\* The name a client sends fits the buffer of a User.
LEMMA InputName ==
    ASSUME NEW in \in Inputs
    PROVE  in.name \in NameBuffer
<1>1. EmptyName \in NameBuffer
  BY NameAssumption DEF EmptyName, NameBuffer
<1>2. Name \subseteq NameBuffer
  BY DEF Name, NameBuffer
<1> QED
  BY <1>1, <1>2, ClientAssumption DEF Input

LEMMA TypeInit == Init => TypeInv
<1> SUFFICES ASSUME Init PROVE TypeInv
  OBVIOUS
<1>1. EmptyName \in NameBuffer
  BY NameAssumption DEF EmptyName, NameBuffer
<1>2. NodeTypeOK
  BY <1>1, NameAssumption DEF Init, NodeInit, NodeTypeOK, Pointer
<1>3. /\ self \in Pointer /\ connection_status \in -1..3
      /\ disconnect_reason \in {"error", "closed", "kicked"}
      /\ msg \in Thread \cup {NULL} /\ bufs \subseteq Thread
      /\ length_from \in Thread \cup {NULL} /\ leaked \in BOOLEAN
      /\ overlap \in BOOLEAN /\ starved \in BOOLEAN
      /\ fault \in BOOLEAN /\ accepts \in 0..MaxAccepts /\ kicked \subseteq Client
  <2>1. self \in Pointer /\ disconnect_reason \in {"error", "closed", "kicked"}
        /\ msg \in Thread \cup {NULL} /\ bufs \subseteq Thread
        /\ length_from \in Thread \cup {NULL} /\ leaked \in BOOLEAN
        /\ overlap \in BOOLEAN /\ starved \in BOOLEAN
    BY DEF Init, Pointer
  <2>2. connection_status \in -1..3
    BY DEF Init
  <2>3. fault \in BOOLEAN /\ kicked \subseteq Client
    BY DEF Init
  <2>4. accepts \in 0..MaxAccepts
    BY ClientAssumption DEF Init
  <2> QED
    BY <2>1, <2>2, <2>3, <2>4
<1>4. /\ conn \in [Sock -> Client \cup {NULL}]
      /\ client \in [Client -> {"away", "connected", "closed"}]
      /\ pc \in [Thread -> Label]
      /\ mine \in [Thread -> Sock \cup {NULL}]
      /\ waits \in [Thread -> Client \cup {NULL}]
      /\ input \in [Thread -> Inputs \cup {NULL}]
      /\ found \in [Thread -> Pointer]
      /\ serves \in [Thread -> Client \cup {NULL}]
  BY DEF Init, Pointer, Label
<1>5. ArgsOK /\ SocksOK
  BY DEF ArgsOK, SocksOK, Init, NodeInit
<1> QED
  BY <1>2, <1>3, <1>4, <1>5 DEF TypeInv, TypeOK

\* A step of a client, a thread or connection_handler keeps the types.
LEMMA TypeStep == TypeInv /\ [Next]_vars => TypeInv'
<1> SUFFICES ASSUME TypeInv, [Next]_vars PROVE TypeInv'
  OBVIOUS
<1> USE DEF TypeInv
<1>0. /\ pc \in [Thread -> Label] /\ mine \in [Thread -> Sock \cup {NULL}]
      /\ input \in [Thread -> Inputs \cup {NULL}]
  BY DEF TypeOK
<1>1. NodeTypeOK'
  <2>1. CASE UNCHANGED nodeVars
    BY <2>1 DEF TypeOK, NodeTypeOK, nodeVars, links, identity
  <2>2. ASSUME NEW t \in Thread, NEW n \in Node, CreateInsert(t, n) PROVE NodeTypeOK'
    BY <2>2, AppendType DEF CreateInsert, At, TypeOK, ArgsOK
  <2>3. ASSUME NEW t \in Thread, RemoveUnlink(t) PROVE NodeTypeOK'
    BY <2>3, UnlinkType DEF RemoveUnlink, TypeOK
  <2>4. ASSUME NEW t \in Thread, LoginSet(t) PROVE NodeTypeOK'
    <3>1. self \in Node /\ name[self] \in NameBuffer /\ input[t].name \in NameBuffer
      BY <2>4, InputName DEF LoginSet, At, SelfLive, TypeOK, NodeTypeOK, ArgsOK
    <3>2. PICK size \in 0..NameCap : SetLogin(self, input[t].name, size)
      BY <2>4 DEF LoginSet
    <3>3. StrNCpy(name[self], input[t].name, size) \in NameBuffer
      BY <3>1, <3>2, StrNCpyType
    <3>4. name' \in [Node -> NameBuffer] /\ logged_in' \in [Node -> BOOLEAN]
          /\ name_length' \in [Node -> 0..NameCap]
      BY <3>2, <3>3 DEF SetLogin, TypeOK, NodeTypeOK
    <3> QED
      BY <2>4, <3>4 DEF LoginSet, links, TypeOK, NodeTypeOK
  <2>5. ASSUME NEW t \in Thread, Kick(t) \/ Invalid(t) PROVE NodeTypeOK'
    BY <2>5 DEF Kick, Invalid, links, identity, TypeOK, NodeTypeOK
  <2>6. ASSUME NEW t \in Thread, Leave(t) PROVE NodeTypeOK'
    BY <2>6 DEF Leave, links, TypeOK, NodeTypeOK
  <2> QED
    BY <2>1, <2>2, <2>3, <2>4, <2>5, <2>6
       DEF Next, Run, vars, HangUp, Return, Accept, AcceptNoThread, RecvHeader, CreateFind,
           CreateFails, AssignSelf, SetUp, SetUpFails,
           EnterRecv, RecvFails, RecvClosed, Receive, LoginCheck, Notice, Message, KickRefused,
           CloseSock, RemoveFind, Free, Fault
<1> DEFINE Control == /\ pc' \in [Thread -> Label] /\ mine' \in [Thread -> Sock \cup {NULL}]
                      /\ input' \in [Thread -> Inputs \cup {NULL}] /\ ArgsOK'
           Process == /\ self' \in Pointer /\ connection_status' \in -1..3
                      /\ disconnect_reason' \in {"error", "closed", "kicked"}
                      /\ msg' \in Thread \cup {NULL} /\ bufs' \subseteq Thread
                      /\ length_from' \in Thread \cup {NULL}
                      /\ fault' \in BOOLEAN /\ leaked' \in BOOLEAN /\ starved' \in BOOLEAN
           Net == /\ conn' \in [Sock -> Client \cup {NULL}]
                  /\ client' \in [Client -> {"away", "connected", "closed"}]
                  /\ waits' \in [Thread -> Client \cup {NULL}]
                  /\ accepts' \in 0..MaxAccepts
                  /\ serves' \in [Thread -> Client \cup {NULL}]
                  /\ kicked' \subseteq Client /\ overlap' \in BOOLEAN
           Local == found' \in [Thread -> Pointer]
<1>2. Control
  <2>1. ASSUME UNCHANGED <<pc, mine, input>> PROVE Control
    BY <2>1, <1>0 DEF ArgsOK
  <2>2. ASSUME NEW c \in Client, NEW t \in Thread, Accept(c, t) PROVE Control
    <3>1. PICK s \in Sock : mine' = [mine EXCEPT ![t] = s]
      BY <2>2 DEF Accept, FreeSock
    <3> QED
      BY <2>2, <1>0, <3>1 DEF Accept, At, Goto, ArgsOK, Label
  <2>3. ASSUME NEW t \in Thread, NEW in \in Inputs, Receive(t, in) PROVE Control
    <3>1. in.kind \in {"login", "kick", "message", "invalid"}
      BY ClientAssumption DEF Input
    <3> QED
      BY <2>3, <1>0, <3>1 DEF Receive, At, Goto, ArgsOK, Label
  <2>4. ASSUME NEW t \in Thread, Free(t) PROVE Control
    BY <2>4, <1>0 DEF Free, At, Goto, ArgsOK, Label
  <2>5. ASSUME NEW t \in Thread, NEW to \in Label, Goto(t, to), pc[t] # "none",
               to \notin {"none", "login_set", "login", "kick"},
               UNCHANGED mine, UNCHANGED input \/ Forget(t)
        PROVE  Control
    BY <2>5, <1>0 DEF Goto, Forget, ArgsOK
  <2>6. ASSUME NEW t \in Thread, Run(t) \/ RecvHeader(t) PROVE Control
    <3>1. CASE CreateFind(t)
      BY <3>1, <2>5 DEF CreateFind, At, Label
    <3>2. CASE LoginCheck(t)
      <4>1. CASE Goto(t, "login_set") /\ UNCHANGED input
        BY <3>2, <4>1, <1>0 DEF LoginCheck, At, Goto, ArgsOK, Label
      <4>2. CASE Goto(t, "loop") /\ Forget(t)
        BY <3>2, <4>2, <2>5 DEF LoginCheck, At, Label
      <4> QED
        BY <3>2, <4>1, <4>2 DEF LoginCheck
    <3>3. ASSUME NEW n \in Node, CreateInsert(t, n) PROVE Control
      BY <3>3, <2>5 DEF CreateInsert, At, Label
    <3>4. CASE AssignSelf(t) \/ SetUp(t) \/ EnterRecv(t) \/ RecvFails(t) \/ RecvClosed(t) \/ RecvHeader(t)
      BY <3>4, <2>5 DEF AssignSelf, SetUp, EnterRecv, RecvFails, RecvClosed, RecvHeader, At, Label, locals
    <3>5. CASE LoginSet(t) \/ Notice(t) \/ Kick(t) \/ KickRefused(t) \/ Invalid(t)
      BY <3>5, <2>5 DEF LoginSet, Notice, Kick, KickRefused, Invalid, At, Label, locals
    <3>8. CASE Message(t)
      BY <3>8, <2>5 DEF Message, At, Label, locals
    <3>6. CASE Leave(t) \/ CloseSock(t) \/ RemoveFind(t) \/ RemoveUnlink(t)
      BY <3>6, <2>5 DEF Leave, CloseSock, RemoveFind, RemoveUnlink, At, Label, locals
    <3>7. CASE Fault(t) \/ SetUpFails(t)
      BY <3>7, <2>1 DEF Fault, SetUpFails, locals
    <3>9. CASE CreateFails(t)
      BY <3>9, <2>5 DEF CreateFails, At, Label
    <3> QED
      BY <2>6, <2>3, <2>4, <3>1, <3>2, <3>3, <3>4, <3>5, <3>6, <3>7, <3>8, <3>9 DEF Run
  <2> QED
    BY <2>1, <2>2, <2>6 DEF Next, vars, HangUp, Return, AcceptNoThread, locals
<1>3. Process
  <2>1. ASSUME UNCHANGED <<globals, leaked, starved, fault>> PROVE Process
    BY <2>1 DEF globals, TypeOK
  <2>2. ASSUME NEW t \in Thread,
               \/ AssignSelf(t) \/ SetUp(t) \/ RecvFails(t) \/ RecvClosed(t) \/ RecvHeader(t)
               \/ Leave(t) \/ Free(t) \/ Fault(t) \/ CreateFails(t) \/ SetUpFails(t)
        PROVE  Process
    <3>1. CASE AssignSelf(t) \/ SetUp(t) \/ Leave(t) \/ Free(t)
      BY <3>1 DEF AssignSelf, SetUp, Leave, Free, histories, TypeOK
    <3>2. CASE RecvFails(t) \/ RecvClosed(t) \/ RecvHeader(t)
      <4>1. connection_status' \in -1..3
        BY <3>2 DEF RecvFails, RecvClosed, RecvHeader
      <4> QED
        BY <3>2, <4>1 DEF RecvFails, RecvClosed, RecvHeader, histories, TypeOK
    <3>3. CASE Fault(t) \/ CreateFails(t) \/ SetUpFails(t)
      BY <3>3 DEF Fault, CreateFails, SetUpFails, globals, histories, TypeOK
    <3> QED
      BY <2>2, <3>1, <3>2, <3>3
  <2>3. ASSUME NEW t \in Thread, Run(t) PROVE Process
    BY <2>1, <2>2, <2>3 DEF Run, CreateFind, CreateInsert, EnterRecv, Receive, LoginCheck, LoginSet,
                Notice, Message, Kick, KickRefused, Invalid, CloseSock, RemoveFind, RemoveUnlink, histories
  <2> QED
    BY <2>1, <2>2, <2>3 DEF Next, vars, HangUp, Return, Accept, AcceptNoThread, histories
<1>4. Net
  <2>1. ASSUME NEW c \in Client, NEW t \in Thread, Accept(c, t) PROVE Net
    <3>1. PICK s \in Sock : conn' = [conn EXCEPT ![s] = c]
      BY <2>1 DEF Accept, FreeSock
    <3>2. accepts' \in 0..MaxAccepts
      BY <2>1, ClientAssumption DEF Accept, TypeOK
    <3>3. overlap' \in BOOLEAN
      BY <2>1 DEF Accept, TypeOK
    <3> QED
      BY <2>1, <3>1, <3>2, <3>3 DEF Accept, TypeOK
  <2>2. ASSUME NEW c \in Client, HangUp(c) \/ Return(c) PROVE Net
    BY <2>2 DEF HangUp, Return, histories, sessions, locals, TypeOK
  <2>6. ASSUME NEW c \in Client, AcceptNoThread(c) PROVE Net
    <3>1. accepts' \in 0..MaxAccepts
      BY <2>6, ClientAssumption DEF AcceptNoThread, TypeOK
    <3> QED
      BY <2>6, <3>1 DEF AcceptNoThread, locals, TypeOK
  <2>3. ASSUME NEW t \in Thread, Kick(t) PROVE Net
    <3>1. PICK target \in alloc :
             /\ conn' = [conn EXCEPT ![sock[target]] = NULL]
             /\ kicked' = kicked \cup ({conn[sock[target]]} \ {NULL})
      BY <2>3 DEF Kick
    <3>2. conn[sock[target]] \in Client \cup {NULL}
      BY DEF SocksOK, TypeOK
    <3> QED
      BY <2>3, <3>1, <3>2 DEF Kick, locals, TypeOK
  <2>4. ASSUME NEW t \in Thread, EnterRecv(t) PROVE Net
    BY <2>4 DEF EnterRecv, SelfLive, histories, sessions, network, TypeOK, SocksOK
  <2>5. ASSUME NEW t \in Thread, Run(t) \/ RecvHeader(t), ~ Kick(t), ~ EnterRecv(t) PROVE Net
    BY <2>5 DEF Run, RecvHeader, CreateFind, CreateInsert, CreateFails, AssignSelf, SetUp, SetUpFails,
                RecvFails, RecvClosed, Receive, LoginCheck, LoginSet, Notice, Message, KickRefused,
                Invalid, Leave, CloseSock, RemoveFind, RemoveUnlink, Free, Fault, network, histories,
                sessions, locals, TypeOK
  <2> QED
    BY <2>1, <2>2, <2>3, <2>4, <2>5, <2>6 DEF Next, vars, network, histories, sessions, locals, TypeOK
<1>5. Local
  <2>1. ASSUME NEW t \in Thread, RemoveFind(t) PROVE Local
    BY <2>1 DEF RemoveFind, TypeOK, NodeTypeOK, Pointer
  <2>2. ASSUME NEW t \in Thread, Run(t) \/ RecvHeader(t), ~ RemoveFind(t) PROVE Local
    BY <2>2 DEF Run, RecvHeader, CreateFind, CreateInsert, CreateFails, AssignSelf, SetUp, SetUpFails,
                EnterRecv, RecvFails, RecvClosed, Receive, LoginCheck, LoginSet, Notice, Message, Kick,
                KickRefused, Invalid, Leave, CloseSock, RemoveUnlink, Free, Fault, locals, TypeOK, Pointer
  <2> QED
    BY <2>1, <2>2 DEF Next, vars, locals, HangUp, Return, Accept, AcceptNoThread, TypeOK
<1>6. SocksOK'
  <2>1. ASSUME UNCHANGED <<alloc, sock>> PROVE SocksOK'
    BY <2>1 DEF SocksOK
  <2>2. ASSUME NEW t \in Thread, NEW n \in Node, CreateInsert(t, n) PROVE SocksOK'
    BY <2>2 DEF CreateInsert, At, AppendUser, SocksOK, ArgsOK, TypeOK, NodeTypeOK
  <2>3. ASSUME NEW t \in Thread, RemoveUnlink(t) PROVE SocksOK'
    BY <2>3 DEF RemoveUnlink, UnlinkUser, FreeUser, SocksOK, TypeOK, NodeTypeOK
  <2> QED
    BY <2>1, <2>2, <2>3
       DEF Next, Run, vars, nodeVars, links, HangUp, Return, Accept, AcceptNoThread, RecvHeader, CreateFind,
           CreateFails, AssignSelf, SetUp, SetUpFails, EnterRecv, RecvFails, RecvClosed, Receive, LoginCheck,
           LoginSet, Notice, Message, Kick,
           KickRefused, Invalid, Leave, CloseSock, RemoveFind, Free, Fault
<1> QED
  BY <1>1, <1>2, <1>3, <1>4, <1>5, <1>6 DEF TypeOK

\* Every variable of clientthread.c and of the list keeps its type.
THEOREM ClientTypeCorrect == Spec => []TypeOK
<1>1. TypeInv => TypeOK
  BY DEF TypeInv
<1> QED
  BY <1>1, TypeInit, TypeStep, PTL DEF Spec

-----------------------------------------------------------------------------
(* The list.                                                               *)

\* A step that leaves the cells and the heads alone leaves the list whole.
LEMMA LinksKept ==
    ASSUME ListOK, UNCHANGED links
    PROVE  ListOK'
  BY DEF ListOK, HeadsOK, LinksOK, BirthsOK, Older, links

\* Only the two critical sections of create_User and remove_User change the
\* list, and whatever self points to, each keeps it whole.
LEMMA ListStep == TypeInv /\ ListOK /\ [Next]_vars => ListOK'
<1> SUFFICES ASSUME TypeInv, ListOK, [Next]_vars PROVE ListOK'
  OBVIOUS
<1>0. ListTypeOK
  BY DEF TypeInv, TypeOK, NodeTypeOK, ListTypeOK
<1>1. ASSUME NEW t \in Thread, NEW n \in Node, CreateInsert(t, n) PROVE ListOK'
  BY <1>0, <1>1, AppendKeepsList DEF CreateInsert
<1>2. ASSUME NEW t \in Thread, RemoveUnlink(t) PROVE ListOK'
  BY <1>0, <1>2, UnlinkKeepsList DEF RemoveUnlink
<1> QED
  BY <1>1, <1>2, LinksKept
     DEF Next, Run, vars, nodeVars, HangUp, Return, Accept, AcceptNoThread, RecvHeader, CreateFind,
         CreateFails, AssignSelf, SetUp, SetUpFails, EnterRecv, RecvFails, RecvClosed, Receive, LoginCheck,
         LoginSet, Notice, Message, Kick,
         KickRefused, Invalid, Leave, CloseSock, RemoveFind, Free, Fault

\* However client threads cross each other through self, the list of user.c has
\* every User once and no freed one, up to the first use of a freed User.
THEOREM ClientListIntegrity == Spec => []ListOK
<1>1. Init => ListOK
  BY DEF Init, NodeInit, ListOK, HeadsOK, LinksOK, BirthsOK
<1> QED
  BY <1>1, TypeInit, TypeStep, ListStep, PTL DEF Spec
-----------------------------------------------------------------------------
(* Clients that come one after the other.                                  *)
(*                                                                         *)
(* As long as no connection was accepted while a thread was there and no   *)
(* malloc has failed, at most one thread exists; what is on the list,      *)
(* which buffers and which descriptors are there follows from where it is. *)

Alone == ~ overlap /\ ~ starved

Busy == NeedsSelf \cup {"recv"}

OneThread == \A t, u \in Thread : pc[t] # "none" /\ pc[u] # "none" => t = u

\* Its place in client_Thread says which User exists ...
UserWhere == \A t \in Thread :
    /\ pc[t] \in {"create_find", "create_insert", "free"} => alloc = {}
    /\ pc[t] \in Busy \cup {"assign", "setup", "remove_unlink"} =>
          \E n \in Node :
             /\ alloc = {n} /\ sock[n] = mine[t]
             /\ pc[t] \in {"assign", "remove_unlink"} => found[t] = n
             /\ pc[t] \in Busy \cup {"setup", "remove_unlink"} => self = n

\* ... which buffer ...
BufferWhere == \A t \in Thread :
    /\ pc[t] \in {"create_find", "create_insert", "assign", "setup"} => bufs = {}
    /\ pc[t] \in Busy \cup {"remove_unlink", "free"} => bufs = {t} /\ msg = t

\* ... whose header *msg_length is from ...
LengthWhere == \A t \in Thread :
    pc[t] \in {"receive", "login", "login_set"} => length_from = t

\* ... and which descriptor can be open.
ConnWhere == \A t \in Thread : pc[t] # "none" =>
    \A s \in Sock : s # mine[t] \/ pc[t] \in {"remove_find", "remove_unlink", "free"} => conn[s] = NULL

NobodyHome ==
    (\A t \in Thread : pc[t] = "none") => alloc = {} /\ bufs = {} /\ \A s \in Sock : conn[s] = NULL

SoloInv ==
    /\ TypeInv /\ ~ fault
    /\ OneThread /\ UserWhere /\ BufferWhere /\ LengthWhere /\ ConnWhere /\ NobodyHome

\* In these states no step of the thread can need something that is gone.
LEMMA SoloNoFault == ASSUME SoloInv, NEW t \in Thread PROVE ~ Fault(t)
<1>1. pc[t] \in NeedsSelf => SelfLive
  BY DEF SoloInv, UserWhere, Busy, SelfLive
<1>2. pc[t] \in NeedsMsg => MsgLive
  BY DEF SoloInv, BufferWhere, Busy, NeedsMsg, NeedsSelf, MsgLive
<1>3. pc[t] = "remove_unlink" => found[t] \in alloc
  BY DEF SoloInv, UserWhere
<1>4. pc[t] = "login_set" => length_from = t
  BY DEF SoloInv, LengthWhere
<1> QED
  BY <1>1, <1>2, <1>3, <1>4 DEF Fault

\* The only thread moves on inside its loop, or from one label to the next.
LEMMA SoloQuiet ==
    ASSUME SoloInv, TypeInv', NEW t \in Thread, NEW to \in Busy, pc[t] \in Busy,
           pc' = [pc EXCEPT ![t] = to],
           to = "remove_find" => pc[t] = "remove_find",
           UNCHANGED <<alloc, sock, self, msg, bufs, mine, fault>>,
           length_from' \in {length_from, t},
           to = "receive" => length_from' = t,
           to \in {"login", "login_set"} => pc[t] \in {"receive", "login"},
           \A s \in Sock : conn'[s] = conn[s] \/ conn'[s] = NULL
    PROVE  SoloInv'
<1> USE DEF SoloInv
<1>0. pc \in [Thread -> Label] /\ pc[t] # "none" /\ pc'[t] = to /\ to # "none"
      /\ to \notin {"create_find", "create_insert", "free", "assign", "setup", "remove_unlink", "none"}
  BY DEF TypeInv, TypeOK, Busy, NeedsSelf
<1>1. \A u \in Thread : u # t => pc[u] = "none" /\ pc'[u] = "none"
  BY <1>0 DEF OneThread
<1>2. OneThread'
  BY <1>1 DEF OneThread
<1>3. UserWhere'
  BY <1>0, <1>1 DEF UserWhere, Busy, NeedsSelf
<1>4. BufferWhere'
  BY <1>0, <1>1 DEF BufferWhere, Busy, NeedsSelf
<1>5. ConnWhere'
  BY <1>0, <1>1 DEF ConnWhere, Busy, NeedsSelf
<1>6. NobodyHome'
  BY <1>0 DEF NobodyHome
<1>7. LengthWhere'
  BY <1>0, <1>1 DEF LengthWhere
<1> QED
  BY <1>2, <1>3, <1>4, <1>5, <1>6, <1>7

LEMMA SoloStep == SoloInv /\ [Next]_vars /\ Alone' => SoloInv'
<1> SUFFICES ASSUME SoloInv, [Next]_vars, Alone' PROVE SoloInv'
  OBVIOUS
<1> USE DEF SoloInv
<1>t. TypeInv'
  BY TypeStep
<1>0. pc \in [Thread -> Label] /\ found \in [Thread -> Pointer] /\ mine \in [Thread -> Sock \cup {NULL}]
      /\ conn \in [Sock -> Client \cup {NULL}] /\ alloc \subseteq Node /\ sock \in [Node -> Sock \cup {NULL}]
      /\ birth \in [Node -> Nat]
  BY DEF TypeInv, TypeOK, NodeTypeOK
<1>1. ASSUME UNCHANGED <<alloc, sock, self, msg, bufs, length_from, mine, found, conn, pc, fault>>
      PROVE  SoloInv'
  BY <1>t, <1>1 DEF OneThread, UserWhere, BufferWhere, LengthWhere, ConnWhere, NobodyHome
<1>2. ASSUME NEW c \in Client, NEW t \in Thread, Accept(c, t) PROVE SoloInv'
  <2>1. \A u \in Thread : pc[u] = "none"
    BY <1>2 DEF Accept, Alone
  <2>2. /\ alloc' = {} /\ bufs' = {} /\ fault' = fault /\ pc' = [pc EXCEPT ![t] = "create_find"]
        /\ \E s \in Sock : conn' = [conn EXCEPT ![s] = c] /\ mine' = [mine EXCEPT ![t] = s]
    BY <1>2, <2>1 DEF Accept, NobodyHome, FreeSock, Goto, nodeVars, links, globals
  <2>3. \A u \in Thread : pc'[u] # "none" => u = t /\ pc'[u] = "create_find"
    BY <1>0, <2>1, <2>2
  <2>4. \A s \in Sock : s # mine'[t] => conn'[s] = NULL
    BY <1>0, <2>1, <2>2 DEF NobodyHome
  <2>5. OneThread' /\ UserWhere' /\ BufferWhere' /\ LengthWhere'
    BY <2>2, <2>3 DEF OneThread, UserWhere, BufferWhere, LengthWhere, Busy, NeedsSelf
  <2>6. ConnWhere'
    BY <2>3, <2>4 DEF ConnWhere
  <2>7. NobodyHome'
    BY <1>0, <2>2 DEF NobodyHome
  <2> QED
    BY <1>t, <2>2, <2>5, <2>6, <2>7
<1>3. ASSUME NEW t \in Thread, Run(t) \/ RecvHeader(t) PROVE SoloInv'
  <2>0. /\ pc[t] # "none" => \A u \in Thread : u # t => pc[u] = "none"
        /\ ~ Fault(t) /\ ~ CreateFails(t) /\ ~ SetUpFails(t)
    BY SoloNoFault DEF OneThread, CreateFails, SetUpFails, Alone
  <2>1. CASE CreateFind(t)
    <3>1. /\ pc[t] = "create_find" /\ WithSock(mine[t]) = {} /\ pc' = [pc EXCEPT ![t] = "create_insert"]
          /\ UNCHANGED <<alloc, sock, self, msg, bufs, mine, conn, fault>>
      BY <2>1 DEF CreateFind, At, Goto, WithSock, UserWhere, nodeVars, links, globals, network
    <3> QED
      BY <1>t, <1>0, <2>0, <3>1 DEF OneThread, UserWhere, BufferWhere, LengthWhere, ConnWhere, NobodyHome, Busy, NeedsSelf
  <2>2. ASSUME NEW n \in Node, CreateInsert(t, n) PROVE SoloInv'
    <3>1. /\ pc[t] = "create_insert" /\ pc' = [pc EXCEPT ![t] = "assign"] /\ found'[t] = n
          /\ alloc' = {n} /\ sock'[n] = mine[t]
          /\ UNCHANGED <<self, msg, bufs, mine, conn, fault>>
      BY <1>0, <2>2 DEF CreateInsert, At, Goto, AppendUser, UserWhere, globals, network
    <3> QED
      BY <1>t, <1>0, <2>0, <3>1 DEF OneThread, UserWhere, BufferWhere, LengthWhere, ConnWhere, NobodyHome, Busy, NeedsSelf
  <2>3. CASE AssignSelf(t)
    <3>1. /\ pc[t] = "assign" /\ pc' = [pc EXCEPT ![t] = "setup"] /\ self' = found[t]
          /\ UNCHANGED <<alloc, sock, msg, bufs, mine, conn, fault>>
      BY <2>3 DEF AssignSelf, At, Goto, nodeVars, links, network, locals
    <3> QED
      BY <1>t, <1>0, <2>0, <3>1 DEF OneThread, UserWhere, BufferWhere, LengthWhere, ConnWhere, NobodyHome, Busy, NeedsSelf
  <2>4. CASE SetUp(t)
    <3>1. /\ pc[t] = "setup" /\ pc' = [pc EXCEPT ![t] = "loop"] /\ msg' = t /\ bufs' = {t}
          /\ UNCHANGED <<alloc, sock, self, mine, found, conn, fault>>
      BY <2>4 DEF SetUp, At, Goto, nodeVars, links, network, locals, BufferWhere
    <3> QED
      BY <1>t, <1>0, <2>0, <3>1 DEF OneThread, UserWhere, BufferWhere, LengthWhere, ConnWhere, NobodyHome, Busy, NeedsSelf
  <2>5. CASE EnterRecv(t) \/ RecvFails(t) \/ RecvClosed(t)
    <3>1. CASE EnterRecv(t)
      BY <1>t, <3>1, SoloQuiet DEF EnterRecv, At, Goto, Busy, NeedsSelf, nodeVars, links, globals, network
    <3>2. CASE RecvFails(t) \/ RecvClosed(t)
      BY <1>t, <3>2, SoloQuiet DEF RecvFails, RecvClosed, At, Goto, Busy, NeedsSelf, nodeVars, links, network,
                                   locals
    <3> QED
      BY <2>5, <3>1, <3>2
  <2>14. CASE RecvHeader(t)
    BY <1>t, <2>14, SoloQuiet DEF RecvHeader, At, Goto, Busy, NeedsSelf, nodeVars, links, network, locals
  <2>6. ASSUME NEW in \in Inputs, Receive(t, in) PROVE SoloInv'
    <3>1. in.kind \in {"login", "kick", "message", "invalid"}
      BY ClientAssumption DEF Input
    <3> QED
      BY <1>t, <2>6, <3>1, SoloQuiet DEF Receive, At, Goto, Busy, NeedsSelf, nodeVars, links, globals, network
  <2>7. CASE LoginCheck(t) \/ LoginSet(t) \/ Notice(t) \/ Message(t) \/ KickRefused(t) \/ Invalid(t)
    BY <1>t, <2>7, SoloQuiet DEF LoginCheck, LoginSet, Notice, Message, KickRefused, Invalid, At, Goto, Busy, NeedsSelf,
                                 nodeVars, links, globals, network, locals
  <2>8. CASE Kick(t)
    <3>1. PICK target \in alloc : conn' = [conn EXCEPT ![sock[target]] = NULL]
      BY <2>8 DEF Kick
    <3>2. \A s \in Sock : conn'[s] = conn[s] \/ conn'[s] = NULL
      BY <1>0, <3>1
    <3> QED
      BY <1>t, <2>8, <3>2, SoloQuiet DEF Kick, At, Goto, Busy, NeedsSelf, links, globals, locals
  <2>9. CASE Leave(t)
    BY <1>t, <2>9, SoloQuiet DEF Leave, At, Goto, Busy, NeedsSelf, links, network
  <2>10. CASE CloseSock(t)
    <3>1. /\ pc[t] = "close" /\ pc' = [pc EXCEPT ![t] = "remove_find"]
          /\ conn' = [conn EXCEPT ![mine[t]] = NULL]
          /\ UNCHANGED <<alloc, sock, self, msg, bufs, mine, found, fault>>
      BY <2>10 DEF CloseSock, At, Goto, nodeVars, links, globals, locals, UserWhere, Busy, NeedsSelf
    <3>2. \A s \in Sock : conn'[s] = NULL
      BY <1>0, <3>1 DEF ConnWhere
    <3> QED
      BY <1>t, <1>0, <2>0, <3>1, <3>2 DEF OneThread, UserWhere, BufferWhere, LengthWhere, ConnWhere, NobodyHome, Busy, NeedsSelf
  <2>11. CASE RemoveFind(t)
    <3>1. /\ pc[t] = "remove_find" /\ pc' = [pc EXCEPT ![t] = "remove_unlink"]
          /\ found'[t] \in alloc
          /\ UNCHANGED <<alloc, sock, self, msg, bufs, mine, conn, fault>>
      BY <1>0, <2>11 DEF RemoveFind, At, Goto, nodeVars, links, globals, network
    <3> QED
      BY <1>t, <1>0, <2>0, <3>1 DEF OneThread, UserWhere, BufferWhere, LengthWhere, ConnWhere, NobodyHome, Busy, NeedsSelf
  <2>12. CASE RemoveUnlink(t)
    <3>1. /\ pc[t] = "remove_unlink" /\ pc' = [pc EXCEPT ![t] = "free"] /\ alloc' = {}
          /\ UNCHANGED <<self, msg, bufs, mine, conn, fault>>
      BY <2>12 DEF RemoveUnlink, At, Goto, UnlinkUser, FreeUser, UserWhere, globals, network, locals
    <3> QED
      BY <1>t, <1>0, <2>0, <3>1 DEF OneThread, UserWhere, BufferWhere, LengthWhere, ConnWhere, NobodyHome, Busy, NeedsSelf
  <2>13. CASE Free(t)
    <3>1. /\ pc[t] = "free" /\ pc' = [pc EXCEPT ![t] = "none"] /\ bufs' = {} /\ alloc' = {} /\ conn' = conn
          /\ fault' = fault
      BY <2>13 DEF Free, At, Goto, nodeVars, links, network, UserWhere, BufferWhere
    <3>2. \A u \in Thread : pc'[u] = "none"
      BY <1>0, <2>0, <3>1
    <3>3. NobodyHome'
      BY <3>1 DEF NobodyHome, ConnWhere
    <3> QED
      BY <1>t, <3>1, <3>2, <3>3 DEF OneThread, UserWhere, BufferWhere, LengthWhere, ConnWhere, Busy, NeedsSelf
  <2> QED
    BY <1>3, <2>0, <2>1, <2>2, <2>3, <2>4, <2>5, <2>6, <2>7, <2>8, <2>9, <2>10, <2>11, <2>12, <2>13, <2>14 DEF Run
<1> QED
  BY <1>1, <1>2, <1>3 DEF Next, vars, nodeVars, links, globals, network, locals, HangUp, Return, AcceptNoThread

\* Nothing takes the two histories back.
LEMMA AloneBefore == TypeInv /\ [Next]_vars /\ Alone' => Alone
<1> SUFFICES ASSUME TypeInv, [Next]_vars, Alone' PROVE Alone
  OBVIOUS
<1>1. overlap \in BOOLEAN /\ starved \in BOOLEAN
  BY DEF TypeInv, TypeOK
<1>2. ASSUME NEW t \in Thread, Run(t) \/ RecvHeader(t) PROVE Alone
  BY <1>1, <1>2
     DEF Alone, histories, sessions, Run, RecvHeader, CreateFind, CreateInsert, CreateFails, AssignSelf,
         SetUp, SetUpFails, EnterRecv, RecvFails, RecvClosed, Receive, LoginCheck, LoginSet, Notice,
         Message, Kick, KickRefused, Invalid, Leave, CloseSock, RemoveFind, RemoveUnlink, Free, Fault
<1> QED
  BY <1>1, <1>2 DEF Alone, Next, vars, histories, sessions, HangUp, Return, AcceptNoThread, Accept

\* The server is in order, or the histories say why it need not be.
ServerInv == TypeInv /\ (Alone => SoloInv)

LEMMA ServerAlways == Spec => []ServerInv
<1>1. Init => ServerInv
  <2>1. Init => /\ OneThread /\ UserWhere /\ BufferWhere /\ LengthWhere /\ ConnWhere /\ NobodyHome
                /\ ~ fault
    BY DEF Init, NodeInit, OneThread, UserWhere, BufferWhere, LengthWhere, ConnWhere, NobodyHome,
           Busy, NeedsSelf
  <2> QED
    BY <2>1, TypeInit DEF ServerInv, SoloInv
<1>2. ServerInv /\ [Next]_vars => ServerInv'
  BY TypeStep, AloneBefore, SoloStep DEF ServerInv
<1> QED
  BY <1>1, <1>2, PTL DEF Spec

LEMMA ServerIsSafe == ServerInv => NoFault /\ IdleServerIsEmpty
  BY DEF ServerInv, SoloInv, Alone, NoFault, IdleServerIsEmpty, NobodyHome

\* Up to the first malloc that fails, a server uses a freed User or buffer, or a
\* null pointer, only after two client threads have been there at the same time:
\* what self and msg point to is alive until their own thread frees it.
THEOREM FaultNeedsOverlap == Spec => []NoFault
  BY ServerAlways, ServerIsSafe, PTL

\* When the clients of such a server are gone nothing of them is left: no User, no
\* buffer, no descriptor.
THEOREM SequentialServerLeavesNothing == Spec => []IdleServerIsEmpty
  BY ServerAlways, ServerIsSafe, PTL
=============================================================================
