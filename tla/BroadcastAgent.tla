---------------------------- MODULE BroadcastAgent ----------------------------
(***************************************************************************)
(* broadcastagent.c and the code of clientthread.c that uses it: client    *)
(* threads put messages on a bounded POSIX queue, one agent thread takes   *)
(* them off and sends each to every logged-in user, and the admin pauses   *)
(* and resumes the agent through a semaphore and a flag.                   *)
(*                                                                         *)
(* The users are the positions 1..Users of the user list, in list order;   *)
(* UserList has the list itself.  The mutex of the list, which the agent   *)
(* and the notices of pause and resume hold while they send, is userLock.  *)
(***************************************************************************)
EXTENDS Integers, Sequences

CONSTANTS
    Client,         \* client threads
    Admin,          \* the client threads that run commands of the admin
    Users,          \* how many logged-in users there are
    QueueMax,       \* attr.mq_maxmsg
    MayClose,       \* whether broadcast_agent_cleanup may run
    NULL,           \* no thread, no message
    MaxMessages,    \* bound: broadcast_message is called at most so often
    MaxFails        \* bound: mq_receive fails at most so often

ASSUME BroadcastAssumption ==
    /\ Admin \subseteq Client
    /\ Users \in Nat /\ MaxMessages \in Nat /\ MaxFails \in Nat
    /\ QueueMax \in Nat \ {0}
    /\ MayClose \in BOOLEAN
    /\ NULL \notin Client /\ "agent" \notin Client /\ NULL # "agent"

VARIABLES
    queue,          \* the messages of broadcast_queue
    mq_open,        \* the descriptor broadcast_queue is open
    curmsgs,        \* attr.mq_curmsgs: attr is one static variable
    sem,            \* broadcast_sem
    broadcast_Paused,
    running,
    userLock,       \* who holds the mutex of the user list
    pc,             \* where each client thread and the agent are
    at,             \* the position in the list each iteration is at
    buffer,         \* the agent's buffer
    calls,          \* history: calls of broadcast_message so far
    carried,        \* the message of the call each client thread is in
    fails,          \* history: failures of mq_receive so far
    accepted,       \* history: the messages mq_send took, in order
    received,       \* history: the messages each user got, in order
    intime,         \* history: those of them it got before the queue was closed
    notice          \* history: the last notice each user got

agentVars == <<queue, mq_open, curmsgs, sem, broadcast_Paused, running>>
threadVars == <<userLock, pc, at, buffer, calls, carried>>
histories == <<fails, accepted, received, intime, notice>>
vars == <<agentVars, threadVars, histories>>

User == 1..Users
Message == 1..MaxMessages
Thread == Client \cup {"agent"}

AgentLabel == {"receive", "wait", "lock", "dispatch", "post"}
ClientLabel ==
    {"idle", "getattr", "check", "send",
     "pause_wait", "pause_flag", "pause_lock", "pause_notify",
     "resume_lock", "resume_notify", "resume_post", "resume_flag"}

TypeOK ==
    /\ queue \in Seq(Message) /\ Len(queue) <= QueueMax /\ curmsgs \in 0..QueueMax
    /\ mq_open \in BOOLEAN
    /\ sem \in Nat
    /\ broadcast_Paused \in BOOLEAN /\ running \in BOOLEAN
    /\ userLock \in Thread \cup {NULL}
    /\ pc \in [Thread -> AgentLabel \cup ClientLabel]
    /\ at \in [Thread -> 1..(Users + 1)]
    /\ buffer \in Message \cup {NULL}
    /\ calls \in 0..MaxMessages
    /\ carried \in [Client -> Message \cup {NULL}]
    /\ fails \in 0..MaxFails
    /\ accepted \in Seq(Message)
    /\ received \in [User -> Seq(Message \cup {NULL})]
    /\ intime \in [User -> Seq(Message)]
    /\ notice \in [User -> {"paused", "resumed"}]

\* broadcast_agent_init has returned and the agent has reached its loop.
Init ==
    /\ queue = <<>> /\ mq_open = TRUE /\ curmsgs = 0
    /\ sem = 1 /\ broadcast_Paused = FALSE /\ running = TRUE
    /\ userLock = NULL
    /\ pc = [t \in Thread |-> IF t = "agent" THEN "receive" ELSE "idle"]
    /\ at = [t \in Thread |-> 1]
    /\ buffer = NULL
    /\ calls = 0
    /\ carried = [c \in Client |-> NULL]
    /\ fails = 0 /\ accepted = <<>>
    /\ received = [u \in User |-> <<>>]
    /\ intime = received
    /\ notice = [u \in User |-> "resumed"]

Go(t, from, to) == pc[t] = from /\ pc' = [pc EXCEPT ![t] = to]

-----------------------------------------------------------------------------
(* ITERATE_OVER_USERS, as the agent and the notices use it.                *)

IterateLock(t, from, to) ==
    /\ Go(t, from, to)
    /\ userLock = NULL /\ userLock' = t
    /\ at' = [at EXCEPT ![t] = 1]
    /\ UNCHANGED <<agentVars, buffer, calls, carried, histories>>

IterateStep(t, label) ==
    /\ pc[t] = label /\ at[t] \in User
    /\ at' = [at EXCEPT ![t] = @ + 1]
    /\ UNCHANGED <<agentVars, userLock, pc, buffer, calls, carried, fails, accepted>>

IterateEnd(t, from, to) ==
    /\ Go(t, from, to)
    /\ at[t] \notin User
    /\ userLock' = NULL
    /\ at' = [at EXCEPT ![t] = 1]
    /\ UNCHANGED <<agentVars, buffer, calls, carried, histories>>

-----------------------------------------------------------------------------
(* broadcast_agent.  A definition marked "slip" is no part of the model: it  *)
(* stands in for the next one when a run is repeated to see that its       *)
(* property can fail.                                                      *)

Receive ==
    /\ Go("agent", "receive", "wait")
    /\ mq_open /\ queue # <<>>
    /\ buffer' = Head(queue) /\ queue' = Tail(queue)
    /\ UNCHANGED <<mq_open, curmsgs, sem, broadcast_Paused, running,
                   userLock, at, calls, carried, histories>>

\* mq_receive fails on a closed descriptor: the buffer keeps what it had, which
\* is the last message or (NULL) whatever was on the stack.
ReceiveFails ==
    /\ Go("agent", "receive", "wait")
    /\ ~ mq_open /\ fails < MaxFails
    /\ fails' = fails + 1
    /\ running' = FALSE
    /\ UNCHANGED <<queue, mq_open, curmsgs, sem, broadcast_Paused,
                   userLock, at, buffer, calls, carried, accepted, received, intime, notice>>

SemWait ==
    /\ Go("agent", "wait", "lock")
    /\ sem > 0 /\ sem' = sem - 1
    /\ UNCHANGED <<queue, mq_open, curmsgs, broadcast_Paused, running,
                   userLock, at, buffer, calls, carried, histories>>

\* The sender of every message is NULL, so nobody is left out.
Dispatch ==
    /\ IterateStep("agent", "dispatch")
    /\ received' = [received EXCEPT ![at["agent"]] = Append(@, buffer)]
    /\ intime' = IF mq_open THEN received' ELSE intime
    /\ UNCHANGED notice

SemPostMissing ==     \* slip: no sem_post after the dispatch
    /\ Go("agent", "post", "receive")
    /\ UNCHANGED <<agentVars, userLock, at, buffer, calls, carried, histories>>

SemPost ==
    /\ Go("agent", "post", "receive")
    /\ sem' = sem + 1
    /\ UNCHANGED <<queue, mq_open, curmsgs, broadcast_Paused, running,
                   userLock, at, buffer, calls, carried, histories>>

Agent ==
    \/ Receive \/ ReceiveFails \/ SemWait
    \/ IterateLock("agent", "lock", "dispatch") \/ Dispatch \/ IterateEnd("agent", "dispatch", "post")
    \/ SemPost

\* broadcast_agent_cleanup: mq_close, mq_unlink.
Close ==
    /\ MayClose /\ mq_open
    /\ mq_open' = FALSE
    /\ UNCHANGED <<queue, curmsgs, sem, broadcast_Paused, running, threadVars, histories>>

-----------------------------------------------------------------------------
(* broadcast_message                                                       *)

Call(c) ==
    /\ Go(c, "idle", "getattr")
    /\ calls < MaxMessages
    /\ calls' = calls + 1
    /\ carried' = [carried EXCEPT ![c] = calls + 1]
    /\ UNCHANGED <<agentVars, userLock, at, buffer, histories>>

GetAttr(c) ==
    /\ Go(c, "getattr", "check")
    /\ curmsgs' = IF mq_open THEN Len(queue) ELSE curmsgs
    /\ UNCHANGED <<queue, mq_open, sem, broadcast_Paused, running,
                   userLock, at, buffer, calls, carried, histories>>

CheckFree(c) ==
    /\ Go(c, "check", "send")
    /\ curmsgs < QueueMax
    /\ UNCHANGED <<agentVars, userLock, at, buffer, calls, carried, histories>>

\* FALSE: the sender is told to wait for the admin.
CheckFull(c) ==
    /\ Go(c, "check", "idle")
    /\ ~ curmsgs < QueueMax
    /\ carried' = [carried EXCEPT ![c] = NULL]
    /\ UNCHANGED <<agentVars, userLock, at, buffer, calls, histories>>

\* slips: the message overtakes the others; there is no limit
MqSendFirst(c) ==
    /\ Go(c, "send", "idle")
    /\ mq_open /\ Len(queue) < QueueMax
    /\ queue' = <<carried[c]>> \o queue
    /\ accepted' = Append(accepted, carried[c])
    /\ carried' = [carried EXCEPT ![c] = NULL]
    /\ UNCHANGED <<mq_open, curmsgs, sem, broadcast_Paused, running,
                   userLock, at, buffer, calls, fails, received, intime, notice>>

MqSendUnbounded(c) ==
    /\ Go(c, "send", "idle")
    /\ mq_open
    /\ queue' = Append(queue, carried[c])
    /\ accepted' = Append(accepted, carried[c])
    /\ carried' = [carried EXCEPT ![c] = NULL]
    /\ UNCHANGED <<mq_open, curmsgs, sem, broadcast_Paused, running,
                   userLock, at, buffer, calls, fails, received, intime, notice>>

\* mq_send waits for room.
MqSend(c) ==
    /\ Go(c, "send", "idle")
    /\ mq_open /\ Len(queue) < QueueMax
    /\ queue' = Append(queue, carried[c])
    /\ accepted' = Append(accepted, carried[c])
    /\ carried' = [carried EXCEPT ![c] = NULL]
    /\ UNCHANGED <<mq_open, curmsgs, sem, broadcast_Paused, running,
                   userLock, at, buffer, calls, fails, received, intime, notice>>

\* mq_send fails on a closed descriptor: FALSE again.
MqSendFails(c) ==
    /\ Go(c, "send", "idle")
    /\ ~ mq_open
    /\ carried' = [carried EXCEPT ![c] = NULL]
    /\ UNCHANGED <<agentVars, userLock, at, buffer, calls, histories>>

Broadcast(c) ==
    GetAttr(c) \/ CheckFree(c) \/ CheckFull(c) \/ MqSend(c) \/ MqSendFails(c)

-----------------------------------------------------------------------------
(* /pause and /resume                                                      *)

\* Is_broadcast_paused is asked first; a refusal only answers the admin.
PauseCheck(a) ==
    /\ Go(a, "idle", "pause_wait")
    /\ ~ broadcast_Paused
    /\ UNCHANGED <<agentVars, userLock, at, buffer, calls, carried, histories>>

PauseAtOnce(a) ==     \* slip: no sem_wait before the flag
    /\ Go(a, "pause_wait", "pause_flag")
    /\ UNCHANGED <<agentVars, userLock, at, buffer, calls, carried, histories>>

PauseWait(a) ==
    /\ Go(a, "pause_wait", "pause_flag")
    /\ sem > 0 /\ sem' = sem - 1
    /\ UNCHANGED <<queue, mq_open, curmsgs, broadcast_Paused, running,
                   userLock, at, buffer, calls, carried, histories>>

PauseFlag(a) ==
    /\ Go(a, "pause_flag", "pause_lock")
    /\ broadcast_Paused' = TRUE
    /\ UNCHANGED <<queue, mq_open, curmsgs, sem, running,
                   userLock, at, buffer, calls, carried, histories>>

Tell(a, label, what) ==
    /\ IterateStep(a, label)
    /\ notice' = [notice EXCEPT ![at[a]] = what]
    /\ UNCHANGED <<received, intime>>

ResumeCheck(a) ==
    /\ Go(a, "idle", "resume_lock")
    /\ broadcast_Paused
    /\ UNCHANGED <<agentVars, userLock, at, buffer, calls, carried, histories>>

ResumePost(a) ==
    /\ Go(a, "resume_post", "resume_flag")
    /\ sem' = sem + 1
    /\ UNCHANGED <<queue, mq_open, curmsgs, broadcast_Paused, running,
                   userLock, at, buffer, calls, carried, histories>>

ResumeKeepsFlag(a) ==     \* slip: broadcast_Paused is not reset
    /\ Go(a, "resume_flag", "idle")
    /\ UNCHANGED <<agentVars, userLock, at, buffer, calls, carried, histories>>

ResumeFlag(a) ==
    /\ Go(a, "resume_flag", "idle")
    /\ broadcast_Paused' = FALSE
    /\ UNCHANGED <<queue, mq_open, curmsgs, sem, running,
                   userLock, at, buffer, calls, carried, histories>>

Command(a) ==
    \/ PauseWait(a) \/ PauseFlag(a)
    \/ IterateLock(a, "pause_lock", "pause_notify")
    \/ Tell(a, "pause_notify", "paused")
    \/ IterateEnd(a, "pause_notify", "idle")
    \/ IterateLock(a, "resume_lock", "resume_notify")
    \/ Tell(a, "resume_notify", "resumed")
    \/ IterateEnd(a, "resume_notify", "resume_post")
    \/ ResumePost(a) \/ ResumeFlag(a)

-----------------------------------------------------------------------------
Next ==
    \/ Agent \/ Close
    \/ \E c \in Client : Call(c) \/ Broadcast(c)
    \/ \E a \in Admin : PauseCheck(a) \/ ResumeCheck(a) \/ Command(a)

\* A thread that can go on does; nobody has to send, pause or resume.
Fairness ==
    /\ WF_vars(Agent)
    /\ \A c \in Client : WF_vars(Broadcast(c))
    /\ \A a \in Admin : WF_vars(Command(a))

Spec == Init /\ [][Next]_vars
FairSpec == Spec /\ Fairness

\* An admin who is not waiting for anything resumes a paused chat.
ResumingSpec == FairSpec /\ \A a \in Admin : WF_vars(ResumeCheck(a))

-----------------------------------------------------------------------------
(* Properties.                                                             *)

\* What of the accepted messages the agent has in hand and has not sent to u yet.
InHand(u) ==
    IF \/ pc["agent"] \in {"wait", "lock"}
       \/ pc["agent"] = "dispatch" /\ at["agent"] <= u
    THEN <<buffer>> ELSE <<>>

\* Until the queue is closed, every message mq_send took is, for every user,
\* received, in the agent's hand or in the queue: none is lost, sent twice or
\* overtaken, whatever pauses and resumes happen in between.
NothingLost == mq_open => \A u \in User : accepted = received[u] \o InHand(u) \o queue

\* What a user receives never goes back in the accepted order, not even when the
\* agent runs on after its queue was closed: then it only repeats itself.
InOrder ==
    \A u \in User : \A i, j \in DOMAIN received[u] :
        i < j /\ received[u][i] # NULL =>
            \E p, q \in DOMAIN accepted :
                p <= q /\ accepted[p] = received[u][i] /\ accepted[q] = received[u][j]

\* One permit: it is in the semaphore, with the agent that dispatches, or with
\* the admin from the sem_wait of the pause to the sem_post of the resume.
AgentHolds == pc["agent"] \in {"lock", "dispatch", "post"}
PauseHolds ==
    \E a \in Admin :
        \/ pc[a] \in {"pause_flag", "pause_lock", "pause_notify",
                      "resume_lock", "resume_notify", "resume_post"}
        \/ pc[a] \notin {"pause_wait", "resume_flag"} /\ broadcast_Paused

OnePermit ==
    /\ sem \in {0, 1}
    /\ sem = 1 <=> ~ AgentHolds /\ ~ PauseHolds
    /\ ~ (AgentHolds /\ PauseHolds)

\* Nobody is between the two halves of a pause or a resume.
Settled == \A a \in Admin : pc[a] \notin {"pause_flag", "resume_flag"}

\* "Server is NOT paused": when no pause or resume is halfway, the flag the
\* commands are checked against says whether the semaphore is taken by a pause.
FlagTellsTruth == Settled => (broadcast_Paused <=> sem = 0 /\ ~ AgentHolds)

\* A user who was told that the chat is paused gets no message of it before being
\* told that it is resumed.
SilentWhilePaused ==
    [][\A u \in User : received'[u] # received[u] => notice[u] = "resumed"]_vars

\* "[broadcast_queue] full" is answered with FALSE: broadcast_message comes back
\* even if the chat is paused, and so does the thread of the admin who must
\* resume it.
SendReturns == \A c \in Client : pc[c] = "send" ~> pc[c] = "idle"

\* A message that was accepted reaches every user, or the chat gets paused, or the
\* server closes the queue.
EventuallyDelivered ==
    \A u \in User, n \in 1..MaxMessages :
        Len(accepted) >= n ~> (Len(received[u]) >= n \/ broadcast_Paused \/ ~ mq_open)

\* The agent, its queue and its pause implement the channel, until the queue is
\* closed; what the agent sends after that is the matter of InOrder.
Channel == INSTANCE BroadcastChannel WITH received <- intime
ImplementsChannel == Channel!Spec
=============================================================================
