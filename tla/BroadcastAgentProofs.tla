-------------------------- MODULE BroadcastAgentProofs --------------------------
(***************************************************************************)
(* Theorems about BroadcastAgent, for every number of clients, users and   *)
(* messages and every size of the queue.                                   *)
(***************************************************************************)
EXTENDS BroadcastAgent, SequenceTheorems, TLAPS

-----------------------------------------------------------------------------
(* Type correctness.                                                       *)

\* Each thread is in its own program, a call of broadcast_message carries a
\* message, and until the queue is closed so does the agent from the moment it has
\* received, and what users get they get in time.
LabelsOK ==
    /\ pc["agent"] \in AgentLabel
    /\ \A c \in Client : pc[c] \in ClientLabel
    /\ \A c \in Client : pc[c] \in {"getattr", "check", "send"} => carried[c] \in Message

InTime ==
    mq_open => /\ intime = received
               /\ pc["agent"] \in {"wait", "lock", "dispatch"} => buffer \in Message

TypeInv == TypeOK /\ LabelsOK /\ InTime

\* The agent starts with an empty queue in a chat that runs.
LEMMA TypeInit == Init => TypeInv
<1> SUFFICES ASSUME Init PROVE TypeInv
  OBVIOUS
<1> USE BroadcastAssumption DEF Init
<1>1. TypeOK
  <2>1. queue \in Seq(Message) /\ Len(queue) <= QueueMax /\ accepted \in Seq(Message)
    OBVIOUS
  <2>2. curmsgs \in 0..QueueMax /\ calls \in 0..MaxMessages /\ fails \in 0..MaxFails
    OBVIOUS
  <2>3. received \in [User -> Seq(Message \cup {NULL})] /\ intime \in [User -> Seq(Message)]
    OBVIOUS
  <2>4. pc \in [Thread -> AgentLabel \cup ClientLabel] /\ at \in [Thread -> 1..(Users + 1)]
    BY DEF AgentLabel, ClientLabel
  <2> QED
    BY <2>1, <2>2, <2>3, <2>4 DEF TypeOK
<1>2. LabelsOK
  BY DEF LabelsOK, Thread, AgentLabel, ClientLabel
<1>3. InTime
  BY DEF InTime, Thread
<1> QED
  BY <1>1, <1>2, <1>3 DEF TypeInv

\* A message that is received comes off the queue.
LEMMA TypeReceive == TypeInv /\ Receive => TypeInv'
<1> SUFFICES ASSUME TypeInv, Receive PROVE TypeInv'
  OBVIOUS
<1>1. queue \in Seq(Message) /\ queue # <<>> /\ queue' = Tail(queue) /\ buffer' = Head(queue)
  BY DEF TypeInv, TypeOK, Receive
<1>2. /\ Len(queue) \in Nat /\ Head(queue) \in Message /\ Tail(queue) \in Seq(Message)
      /\ Len(Tail(queue)) = Len(queue) - 1
  BY <1>1, HeadTailProperties, LenProperties
<1>3. /\ queue' \in Seq(Message) /\ Len(queue') <= QueueMax /\ buffer' \in Message
      /\ curmsgs' \in 0..QueueMax
  BY <1>1, <1>2, BroadcastAssumption DEF TypeInv, TypeOK, Receive
<1>4. pc' \in [Thread -> AgentLabel \cup ClientLabel]
  BY DEF TypeInv, TypeOK, Receive, Go, AgentLabel
<1>5. UNCHANGED <<mq_open, sem, broadcast_Paused, running, userLock, at, calls, carried>>
  BY DEF Receive
<1>6. UNCHANGED <<fails, accepted, received, intime, notice>>
  BY DEF Receive, histories
<1>7. TypeOK'
  BY <1>3, <1>4, <1>5, <1>6 DEF TypeInv, TypeOK
<1>8. LabelsOK' /\ InTime'
  BY <1>3, BroadcastAssumption DEF TypeInv, TypeOK, LabelsOK, InTime, Receive, Go, Thread, AgentLabel,
         histories
<1> QED
  BY <1>7, <1>8 DEF TypeInv

\* The agent's own steps keep the types.
LEMMA TypeAgent == TypeInv /\ (Agent \/ Close) => TypeInv'
<1> SUFFICES ASSUME TypeInv, Agent \/ Close PROVE TypeInv'
  OBVIOUS
<1>1. CASE Receive
  BY <1>1, TypeReceive
<1> USE BroadcastAssumption DEF TypeInv, TypeOK, LabelsOK, InTime, Go, Thread, agentVars, threadVars, histories
<1>2. CASE ReceiveFails
  <2>1. fails' \in 0..MaxFails
    BY <1>2 DEF ReceiveFails
  <2>2. LabelsOK' /\ InTime'
    BY <1>2 DEF ReceiveFails, AgentLabel
  <2>3. pc' \in [Thread -> AgentLabel \cup ClientLabel]
    BY <1>2 DEF ReceiveFails, AgentLabel
  <2> QED
    BY <1>2, <2>1, <2>2, <2>3 DEF ReceiveFails
<1>3. CASE SemWait
  BY <1>3 DEF SemWait, AgentLabel, ClientLabel
<1>4. CASE IterateLock("agent", "lock", "dispatch")
  BY <1>4 DEF IterateLock, AgentLabel, ClientLabel
<1>5. CASE Dispatch
  <2>1. at["agent"] \in User /\ at["agent"] + 1 \in 1..(Users + 1) /\ (mq_open => buffer \in Message)
    BY <1>5 DEF Dispatch, IterateStep, User
  <2>2. received' \in [User -> Seq(Message \cup {NULL})]
    BY <1>5, <2>1 DEF Dispatch, IterateStep
  <2>3. mq_open => received' \in [User -> Seq(Message)]
    BY <1>5, <2>1 DEF Dispatch, IterateStep
  <2>4. intime' \in [User -> Seq(Message)]
    BY <1>5, <2>3 DEF Dispatch, IterateStep
  <2>5. at' \in [{"agent"} \cup Client -> 1..(Users + 1)]
    BY <1>5, <2>1 DEF Dispatch, IterateStep
  <2>6. InTime'
    BY <1>5 DEF Dispatch, IterateStep
  <2> QED
    BY <1>5, <2>2, <2>4, <2>5, <2>6 DEF Dispatch, IterateStep
<1>6. CASE IterateEnd("agent", "dispatch", "post")
  BY <1>6 DEF IterateEnd, AgentLabel, ClientLabel
<1>7. CASE SemPost
  BY <1>7 DEF SemPost, AgentLabel, ClientLabel
<1>8. CASE Close
  BY <1>8 DEF Close
<1> QED
  BY <1>1, <1>2, <1>3, <1>4, <1>5, <1>6, <1>7, <1>8 DEF Agent

\* So do the steps of broadcast_message.
LEMMA TypeBroadcast ==
    ASSUME TypeInv, NEW c \in Client, Call(c) \/ Broadcast(c)
    PROVE  TypeInv'
<1> USE BroadcastAssumption DEF TypeInv, TypeOK, LabelsOK, InTime, Go, Thread, agentVars, threadVars, histories,
        AgentLabel, ClientLabel
<1>1. CASE Call(c)
  BY <1>1 DEF Call, Message
<1>2. CASE GetAttr(c)
  BY <1>2 DEF GetAttr
<1>3. CASE CheckFree(c)
  BY <1>3 DEF CheckFree
<1>4. CASE CheckFull(c)
  BY <1>4 DEF CheckFull
<1>5. CASE MqSend(c)
  BY <1>5 DEF MqSend
<1>6. CASE MqSendFails(c)
  BY <1>6 DEF MqSendFails
<1> QED
  BY <1>1, <1>2, <1>3, <1>4, <1>5, <1>6 DEF Broadcast

\* And those of a pause or a resume.
LEMMA TypeCommand ==
    ASSUME TypeInv, NEW a \in Client, PauseCheck(a) \/ ResumeCheck(a) \/ Command(a)
    PROVE  TypeInv'
<1> USE BroadcastAssumption DEF TypeInv, TypeOK, LabelsOK, InTime, Go, Thread, agentVars, threadVars, histories,
        AgentLabel, ClientLabel
<1>1. CASE PauseCheck(a)
  BY <1>1 DEF PauseCheck
<1>2. CASE ResumeCheck(a)
  BY <1>2 DEF ResumeCheck
<1>3. CASE PauseWait(a)
  BY <1>3 DEF PauseWait
<1>4. CASE ResumePost(a)
  BY <1>4 DEF ResumePost
<1>5. CASE PauseFlag(a)
  BY <1>5 DEF PauseFlag
<1>6. CASE ResumeFlag(a)
  BY <1>6 DEF ResumeFlag
<1>7. ASSUME NEW from, NEW to \in ClientLabel \ {"getattr", "check", "send"},
             IterateLock(a, from, to) \/ IterateEnd(a, from, to)
      PROVE  TypeInv'
  <2>1. CASE IterateLock(a, from, to)
    BY <1>7, <2>1 DEF IterateLock
  <2>2. CASE IterateEnd(a, from, to)
    BY <1>7, <2>2 DEF IterateEnd
  <2> QED
    BY <1>7, <2>1, <2>2
<1>8. ASSUME NEW label, NEW what \in {"paused", "resumed"}, Tell(a, label, what)
      PROVE  TypeInv'
  <2>1. at[a] \in 1..Users /\ at' = [at EXCEPT ![a] = @ + 1]
    BY <1>8 DEF Tell, IterateStep, User
  <2>2. at' \in [Thread -> 1..(Users + 1)]
    BY <2>1
  <2>3. notice' \in [User -> {"paused", "resumed"}]
    BY <1>8 DEF Tell, IterateStep
  <2>4. /\ UNCHANGED <<agentVars, userLock, pc, buffer, calls, carried, fails, accepted>>
        /\ UNCHANGED <<received, intime>>
    BY <1>8 DEF Tell, IterateStep
  <2> QED
    BY <2>2, <2>3, <2>4
<1> HIDE DEF TypeInv
<1>9. CASE Command(a)
  BY <1>3, <1>4, <1>5, <1>6, <1>7, <1>8, <1>9 DEF Command
<1> QED
  BY <1>1, <1>2, <1>9

\* Every step keeps the types.
LEMMA TypeStep == TypeInv /\ [Next]_vars => TypeInv'
<1>1. TypeInv /\ UNCHANGED vars => TypeInv'
  BY DEF TypeInv, TypeOK, LabelsOK, InTime, vars, agentVars, threadVars, histories
<1> QED
  BY <1>1, BroadcastAssumption, TypeAgent, TypeBroadcast, TypeCommand DEF Next

\* The variables of the agent, the queue and the callers always have the values
\* the code gives them: a queue within its limit, a message in every call.
THEOREM BroadcastTypeCorrect == Spec => []TypeOK
<1>1. TypeInv => TypeOK
  BY DEF TypeInv
<1> QED
  BY <1>1, TypeInit, TypeStep, PTL DEF Spec

-----------------------------------------------------------------------------
(* The semaphore, the flag and the notices, when there is one admin.       *)

OneAdmin == \A a, b \in Admin : a = b

HoldsAt(a) ==
    \/ pc[a] \in {"pause_flag", "pause_lock", "pause_notify",
                  "resume_lock", "resume_notify", "resume_post"}
    \/ pc[a] \notin {"pause_wait", "resume_flag"} /\ broadcast_Paused

\* What the flag is at each step of a pause or a resume
FlagAt(a) ==
    /\ pc[a] \in {"pause_wait", "pause_flag"} => ~ broadcast_Paused
    /\ pc[a] \in {"pause_lock", "pause_notify", "resume_lock", "resume_notify",
                  "resume_post", "resume_flag"} => broadcast_Paused

FlagsOK ==
    /\ \A a \in Admin : FlagAt(a)
    /\ broadcast_Paused => Admin # {}

PermitInv == OnePermit /\ FlagsOK

\* At first the permit is in the semaphore and nobody pauses or resumes.
LEMMA PermitInit == Init => PermitInv
  BY BroadcastAssumption
     DEF Init, PermitInv, OnePermit, FlagsOK, FlagAt, AgentHolds, PauseHolds, Thread

\* The agent takes the permit only from the semaphore, and gives it back there.
LEMMA PermitAgent == TypeInv /\ PermitInv /\ (Agent \/ Close) => PermitInv'
<1> SUFFICES ASSUME TypeInv, PermitInv, Agent \/ Close PROVE PermitInv'
  OBVIOUS
<1>1. /\ pc \in [Thread -> AgentLabel \cup ClientLabel] /\ sem \in Nat
      /\ "agent" \in Thread /\ "agent" \notin Admin
  BY BroadcastAssumption DEF TypeInv, TypeOK, Thread
<1>2. /\ \A a \in Admin : pc'[a] = pc[a]
      /\ broadcast_Paused' = broadcast_Paused
  <2>1. ASSUME NEW from, NEW to, Go("agent", from, to) PROVE \A a \in Admin : pc'[a] = pc[a]
    BY <1>1, <2>1 DEF Go
  <2>2. (\E from, to : Go("agent", from, to)) \/ pc' = pc
    BY DEF Agent, Close, Receive, ReceiveFails, SemWait, IterateLock, Dispatch, IterateStep, IterateEnd,
           SemPost, threadVars
  <2>3. broadcast_Paused' = broadcast_Paused
    BY DEF Agent, Close, Receive, ReceiveFails, SemWait, IterateLock, Dispatch, IterateStep, IterateEnd,
           SemPost, agentVars
  <2> QED
    BY <2>1, <2>2, <2>3
<1>3. FlagsOK' /\ (PauseHolds' <=> PauseHolds)
  BY <1>2 DEF PermitInv, FlagsOK, FlagAt, PauseHolds
<1>4. CASE SemWait
  BY <1>1, <1>3, <1>4 DEF PermitInv, OnePermit, AgentHolds, SemWait, Go
<1>5. CASE SemPost
  BY <1>1, <1>3, <1>5 DEF PermitInv, OnePermit, AgentHolds, SemPost, Go
<1>6. ASSUME sem' = sem, AgentHolds' <=> AgentHolds PROVE PermitInv'
  BY <1>3, <1>6 DEF PermitInv, OnePermit
<1>7. CASE Receive \/ ReceiveFails \/ Dispatch \/ Close
  BY <1>1, <1>6, <1>7 DEF Receive, ReceiveFails, Dispatch, IterateStep, Close, Go, AgentHolds, agentVars, threadVars
<1>8. CASE IterateLock("agent", "lock", "dispatch") \/ IterateEnd("agent", "dispatch", "post")
  BY <1>1, <1>6, <1>8 DEF IterateLock, IterateEnd, Go, AgentHolds, agentVars
<1> QED
  BY <1>4, <1>5, <1>7, <1>8 DEF Agent

\* A call of broadcast_message has nothing to do with it.
LEMMA PermitBroadcast ==
    ASSUME TypeInv, PermitInv, NEW c \in Client, Call(c) \/ Broadcast(c)
    PROVE  PermitInv'
<1>1. /\ pc \in [Thread -> AgentLabel \cup ClientLabel]
      /\ c \in Thread /\ c # "agent" /\ "agent" \in Thread /\ Admin \subseteq Thread
  BY BroadcastAssumption DEF TypeInv, TypeOK, Thread
<1>2. PICK from \in {"idle", "getattr", "check", "send"}, to \in {"idle", "getattr", "check", "send"} :
          Go(c, from, to) /\ sem' = sem /\ broadcast_Paused' = broadcast_Paused
  BY DEF Call, Broadcast, GetAttr, CheckFree, CheckFull, MqSend, MqSendFails, agentVars
<1>3. AgentHolds' <=> AgentHolds
  BY <1>1, <1>2 DEF Go, AgentHolds
<1>4. \A a \in Admin : (HoldsAt(a)' <=> HoldsAt(a)) /\ (FlagAt(a) => FlagAt(a)')
  BY <1>1, <1>2 DEF Go, HoldsAt, FlagAt
<1>5. PauseHolds' <=> PauseHolds
  BY <1>4 DEF PauseHolds, HoldsAt
<1> QED
  BY <1>2, <1>3, <1>4, <1>5 DEF PermitInv, OnePermit, FlagsOK

\* The admin takes the permit with the pause and gives it back with the resume.
LEMMA PermitCommand ==
    ASSUME OneAdmin, TypeInv, PermitInv, NEW a \in Admin, PauseCheck(a) \/ ResumeCheck(a) \/ Command(a)
    PROVE  PermitInv'
<1>1. /\ pc \in [Thread -> AgentLabel \cup ClientLabel] /\ sem \in Nat
      /\ a \in Thread /\ a # "agent" /\ "agent" \in Thread
  BY BroadcastAssumption DEF TypeInv, TypeOK, Thread
<1>2. (PauseHolds <=> HoldsAt(a)) /\ (PauseHolds' <=> HoldsAt(a)')
  BY DEF OneAdmin, PauseHolds, HoldsAt
<1>3. (FlagsOK <=> FlagAt(a)) /\ (FlagsOK' <=> FlagAt(a)')
  BY DEF OneAdmin, FlagsOK
<1>4. ASSUME NEW from, NEW to, Go(a, from, to) PROVE AgentHolds' <=> AgentHolds
  BY <1>1, <1>4 DEF Go, AgentHolds
<1> USE DEF PermitInv, OnePermit, HoldsAt, FlagAt
<1>5. CASE PauseCheck(a)
  BY <1>1, <1>2, <1>3, <1>4, <1>5 DEF PauseCheck, Go, agentVars
<1>6. CASE ResumeCheck(a)
  BY <1>1, <1>2, <1>3, <1>4, <1>6 DEF ResumeCheck, Go, agentVars
<1>7. CASE PauseWait(a)
  <2>1. sem = 1 /\ sem' = 0 /\ ~ AgentHolds /\ ~ HoldsAt(a)
    BY <1>1, <1>2, <1>7 DEF PauseWait
  <2>2. ~ AgentHolds' /\ HoldsAt(a)' /\ FlagAt(a)'
    BY <1>1, <1>3, <1>4, <1>7, <2>1 DEF PauseWait, Go
  <2> QED
    BY <1>2, <1>3, <2>1, <2>2
<1>8. CASE PauseFlag(a)
  BY <1>1, <1>2, <1>3, <1>4, <1>8 DEF PauseFlag, Go
<1>9. CASE ResumePost(a)
  <2>1. sem = 0 /\ sem' = 1 /\ ~ AgentHolds
    BY <1>1, <1>2, <1>9 DEF ResumePost, Go
  <2>2. ~ AgentHolds' /\ ~ HoldsAt(a)' /\ FlagAt(a)'
    BY <1>1, <1>3, <1>4, <1>9, <2>1 DEF ResumePost, Go
  <2> QED
    BY <1>2, <1>3, <2>1, <2>2
<1>10. CASE ResumeFlag(a)
  BY <1>1, <1>2, <1>3, <1>4, <1>10 DEF ResumeFlag, Go
<1>11. CASE IterateLock(a, "pause_lock", "pause_notify") \/ IterateLock(a, "resume_lock", "resume_notify")
  BY <1>1, <1>2, <1>3, <1>4, <1>11 DEF IterateLock, Go, agentVars
<1>12. CASE IterateEnd(a, "pause_notify", "idle") \/ IterateEnd(a, "resume_notify", "resume_post")
  BY <1>1, <1>2, <1>3, <1>4, <1>12 DEF IterateEnd, Go, agentVars
<1>13. CASE Tell(a, "pause_notify", "paused") \/ Tell(a, "resume_notify", "resumed")
  BY <1>1, <1>2, <1>3, <1>13 DEF Tell, IterateStep, AgentHolds, agentVars
<1> QED
  BY <1>5, <1>6, <1>7, <1>8, <1>9, <1>10, <1>11, <1>12, <1>13 DEF Command

\* Every step keeps the one permit.
LEMMA PermitStep ==
    ASSUME OneAdmin
    PROVE  TypeInv /\ PermitInv /\ [Next]_vars => PermitInv'
<1>1. PermitInv /\ UNCHANGED vars => PermitInv'
  BY DEF PermitInv, OnePermit, FlagsOK, FlagAt, AgentHolds, PauseHolds, vars, agentVars, threadVars
<1> QED
  BY <1>1, PermitAgent, PermitBroadcast, PermitCommand DEF Next

\* The invariant of the permit holds in every state.
LEMMA PermitAlways ==
    ASSUME OneAdmin
    PROVE  Spec => []PermitInv
  BY TypeInit, TypeStep, PermitInit, PermitStep, PTL DEF Spec

\* With one admin the semaphore, the agent and the pause share one permit: it is
\* never posted twice and never lost (broadcastagent.c:42, :50, :110, :119).
THEOREM PermitIsOne ==
    ASSUME OneAdmin
    PROVE  Spec => []OnePermit
<1>1. PermitInv => OnePermit
  BY DEF PermitInv
<1> QED
  BY <1>1, PermitAlways, PTL

\* With one admin the flag that /pause and /resume ask is right whenever neither
\* of them is halfway (broadcastagent.c:107-126).
THEOREM FlagIsTrue ==
    ASSUME OneAdmin
    PROVE  Spec => []FlagTellsTruth
<1>1. PermitInv => FlagTellsTruth
  <2> SUFFICES ASSUME PermitInv, Settled PROVE broadcast_Paused <=> sem = 0 /\ ~ AgentHolds
    BY DEF FlagTellsTruth
  <2>1. PauseHolds <=> broadcast_Paused
    BY DEF PermitInv, FlagsOK, FlagAt, PauseHolds, Settled
  <2> QED
    BY <2>1 DEF PermitInv, OnePermit
<1> QED
  BY <1>1, PermitAlways, PTL

-----------------------------------------------------------------------------
(* Who has been told of a pause.                                           *)

\* Why u may have been told of a pause and of no resume yet
ToldAt(a, u) ==
    \/ pc[a] = "pause_notify" /\ u < at[a]
    \/ pc[a] \in {"idle", "getattr", "check", "send"} /\ broadcast_Paused
    \/ pc[a] = "resume_lock"
    \/ pc[a] = "resume_notify" /\ at[a] <= u

NoticesOK == \A u \in User : notice[u] = "paused" => \E a \in Admin : ToldAt(a, u)

\* At first nobody has been told of a pause.
LEMMA NoticesInit == Init => NoticesOK
  BY DEF Init, NoticesOK

\* A step that gives no notice and leaves what ToldAt looks at keeps them.
LEMMA NoticesKept ==
    ASSUME NoticesOK, notice' = notice,
           \A a \in Admin, u \in User : ToldAt(a, u) => ToldAt(a, u)'
    PROVE  NoticesOK'
  BY DEF NoticesOK

\* The agent tells nobody, and neither does broadcast_message.
LEMMA NoticesOthers ==
    ASSUME TypeInv, NoticesOK, Agent \/ Close \/ \E c \in Client : Call(c) \/ Broadcast(c)
    PROVE  NoticesOK'
<1>1. /\ pc \in [Thread -> AgentLabel \cup ClientLabel] /\ at \in [Thread -> 1..(Users + 1)]
      /\ "agent" \in Thread /\ "agent" \notin Admin /\ Admin \subseteq Thread
      /\ Client \subseteq Thread
  BY BroadcastAssumption DEF TypeInv, TypeOK, Thread
<1>2. CASE Agent \/ Close
  <2>1. ASSUME NEW from, NEW to, Go("agent", from, to) PROVE \A a \in Admin : pc'[a] = pc[a]
    BY <1>1, <2>1 DEF Go
  <2>2. (\E from, to : Go("agent", from, to)) \/ pc' = pc
    BY <1>2 DEF Agent, Close, Receive, ReceiveFails, SemWait, IterateLock, Dispatch, IterateStep, IterateEnd,
                SemPost, threadVars
  <2>3. broadcast_Paused' = broadcast_Paused /\ notice' = notice
    BY <1>2 DEF Agent, Close, Receive, ReceiveFails, SemWait, IterateLock, Dispatch, IterateStep, IterateEnd,
                SemPost, agentVars, histories
  <2>4. at' = at \/ \E e : at' = [at EXCEPT !["agent"] = e]
    BY <1>2 DEF Agent, Close, Receive, ReceiveFails, SemWait, IterateLock, Dispatch, IterateStep, IterateEnd,
                SemPost, threadVars
  <2>5. \A a \in Admin : at'[a] = at[a]
    BY <1>1, <2>4
  <2> QED
    BY <2>1, <2>2, <2>3, <2>5, NoticesKept DEF ToldAt
<1>3. ASSUME NEW c \in Client, Call(c) \/ Broadcast(c) PROVE NoticesOK'
  <2>1. PICK from \in {"idle", "getattr", "check", "send"}, to \in {"idle", "getattr", "check", "send"} :
            Go(c, from, to) /\ at' = at /\ notice' = notice /\ broadcast_Paused' = broadcast_Paused
    BY <1>3 DEF Call, Broadcast, GetAttr, CheckFree, CheckFull, MqSend, MqSendFails, agentVars, histories
  <2>2. \A a \in Admin, u \in User : ToldAt(a, u) => ToldAt(a, u)'
    BY <1>1, <2>1 DEF Go, ToldAt
  <2> QED
    BY <2>1, <2>2, NoticesKept
<1> QED
  BY <1>2, <1>3

\* The notices of a pause are given after the flag is set, those of a resume before
\* it is reset.
LEMMA NoticesCommand ==
    ASSUME OneAdmin, TypeInv, PermitInv, NoticesOK, NEW a \in Admin,
           PauseCheck(a) \/ ResumeCheck(a) \/ Command(a)
    PROVE  NoticesOK'
<1>1. /\ pc \in [Thread -> AgentLabel \cup ClientLabel] /\ at \in [Thread -> 1..(Users + 1)]
      /\ notice \in [User -> {"paused", "resumed"}] /\ a \in Thread
  BY BroadcastAssumption DEF TypeInv, TypeOK, Thread
<1>2. /\ NoticesOK <=> \A u \in User : notice[u] = "paused" => ToldAt(a, u)
      /\ NoticesOK' <=> \A u \in User : notice'[u] = "paused" => ToldAt(a, u)'
  BY DEF OneAdmin, NoticesOK
<1>3. FlagAt(a)
  BY DEF PermitInv, FlagsOK
<1> USE DEF ToldAt, Go
<1>4. CASE PauseCheck(a)
  BY <1>1, <1>2, <1>4 DEF PauseCheck, histories
<1>5. CASE ResumeCheck(a)
  BY <1>1, <1>2, <1>5 DEF ResumeCheck, histories
<1>6. CASE PauseWait(a) \/ PauseFlag(a)
  BY <1>1, <1>2, <1>6 DEF PauseWait, PauseFlag, histories
<1>7. CASE ResumePost(a) \/ ResumeFlag(a)
  BY <1>1, <1>2, <1>7 DEF ResumePost, ResumeFlag, histories
<1>8. CASE IterateLock(a, "pause_lock", "pause_notify")
  BY <1>1, <1>2, <1>8 DEF IterateLock, histories
<1>9. CASE IterateLock(a, "resume_lock", "resume_notify")
  <2>1. \A u \in User : at'[a] <= u
    BY <1>1, <1>9 DEF IterateLock, User
  <2> QED
    BY <1>1, <1>2, <1>9, <2>1 DEF IterateLock, histories
<1>10. CASE IterateEnd(a, "pause_notify", "idle")
  BY <1>1, <1>2, <1>3, <1>10 DEF IterateEnd, FlagAt, agentVars, histories
<1>11. CASE IterateEnd(a, "resume_notify", "resume_post")
  <2>1. \A u \in User : ~ at[a] <= u
    BY <1>1, <1>11, BroadcastAssumption DEF IterateEnd, User
  <2> QED
    BY <1>1, <1>2, <1>11, <2>1 DEF IterateEnd, histories
<1>12. ASSUME NEW label, NEW what \in {"paused", "resumed"}, Tell(a, label, what)
       PROVE  /\ pc' = pc /\ broadcast_Paused' = broadcast_Paused
              /\ at'[a] = at[a] + 1 /\ at[a] \in User
              /\ \A u \in User : notice'[u] = IF u = at[a] THEN what ELSE notice[u]
  BY <1>1, <1>12 DEF Tell, IterateStep, agentVars
<1>13. CASE Tell(a, "pause_notify", "paused")
  <2>1. pc[a] = "pause_notify"
    BY <1>13 DEF Tell, IterateStep
  <2>2. \A u \in User : u = at[a] \/ u < at[a] => u < at[a] + 1
    BY <1>1 DEF User
  <2> QED
    BY <1>2, <1>12, <1>13, <2>1, <2>2
<1>14. CASE Tell(a, "resume_notify", "resumed")
  <2>1. pc[a] = "resume_notify"
    BY <1>14 DEF Tell, IterateStep
  <2>2. \A u \in User : u # at[a] /\ at[a] <= u => at[a] + 1 <= u
    BY <1>1 DEF User
  <2> QED
    BY <1>2, <1>12, <1>14, <2>1, <2>2
<1> QED
  BY <1>4, <1>5, <1>6, <1>7, <1>8, <1>9, <1>10, <1>11, <1>13, <1>14 DEF Command

\* Every step keeps the notices true.
LEMMA NoticesStep ==
    ASSUME OneAdmin
    PROVE  TypeInv /\ PermitInv /\ NoticesOK /\ [Next]_vars => NoticesOK'
<1>1. NoticesOK /\ UNCHANGED vars => NoticesOK'
  BY DEF NoticesOK, ToldAt, vars, agentVars, threadVars, histories
<1> QED
  BY <1>1, NoticesOthers, NoticesCommand DEF Next

\* While the agent dispatches nobody is in the state of having been told of a pause.
LEMMA DispatchToResumed ==
    ASSUME PermitInv, NoticesOK, TypeInv, AgentHolds
    PROVE  \A u \in User : notice[u] = "resumed"
<1>1. ~ PauseHolds
  BY DEF PermitInv, OnePermit
<1>2. \A a \in Admin, u \in User : ToldAt(a, u) => PauseHolds
  BY DEF ToldAt, PauseHolds
<1> QED
  BY <1>1, <1>2 DEF NoticesOK, TypeInv, TypeOK

\* Only Dispatch gives a user a message.
LEMMA OnlyDispatch == [Next]_vars => (received' = received /\ intime' = intime) \/ Dispatch
<1>1. Agent \/ Close => (received' = received /\ intime' = intime) \/ Dispatch
  BY DEF Agent, Close, Receive, ReceiveFails, SemWait, IterateLock, IterateEnd, SemPost, histories
<1>2. ASSUME NEW c \in Client, Call(c) \/ Broadcast(c) PROVE received' = received /\ intime' = intime
  BY <1>2 DEF Call, Broadcast, GetAttr, CheckFree, CheckFull, MqSend, MqSendFails, histories
<1>3. ASSUME NEW a \in Admin, PauseCheck(a) \/ ResumeCheck(a) \/ Command(a)
      PROVE  received' = received /\ intime' = intime
  BY <1>3 DEF PauseCheck, ResumeCheck, Command, PauseWait, PauseFlag, ResumePost, ResumeFlag,
              IterateLock, IterateEnd, Tell, histories
<1>4. UNCHANGED vars => received' = received /\ intime' = intime
  BY DEF vars, histories
<1> QED
  BY <1>1, <1>2, <1>3, <1>4 DEF Next

\* With one admin no user who has been told that the chat is paused gets a message
\* before having been told that it is resumed (clientthread.c:143-169).
THEOREM PauseSilences ==
    ASSUME OneAdmin
    PROVE  Spec => SilentWhilePaused
<1>1. TypeInv /\ PermitInv /\ NoticesOK /\ [Next]_vars
        => [\A u \in User : received'[u] # received[u] => notice[u] = "resumed"]_vars
  BY OnlyDispatch, DispatchToResumed DEF Dispatch, IterateStep, AgentHolds
<1> QED
  BY <1>1, TypeInit, TypeStep, PermitInit, PermitStep, NoticesInit, NoticesStep, PTL
     DEF Spec, SilentWhilePaused

-----------------------------------------------------------------------------
(* What becomes of an accepted message.                                    *)

\* The head of a sequence goes over to the sequence before it.
LEMMA HeadMoves ==
    ASSUME NEW S, NEW r \in Seq(S), NEW q \in Seq(S), q # <<>>
    PROVE  (r \o <<Head(q)>>) \o Tail(q) = r \o q
<1>1. Head(q) \in S /\ Tail(q) \in Seq(S)
  BY HeadTailProperties
<1>2. <<Head(q)>> \o Tail(q) = q
  BY <1>1
<1>3. <<Head(q)>> \in Seq(S)
  BY <1>1
<1> QED
  BY <1>1, <1>2, <1>3, ConcatAssociative

\* The types that the steps below need
LEMMA MessageTypes ==
    ASSUME TypeInv, mq_open
    PROVE  /\ received \in [User -> Seq(Message)] /\ queue \in Seq(Message) /\ accepted \in Seq(Message)
           /\ \A u \in User : InHand(u) \in Seq(Message)
           /\ pc \in [Thread -> AgentLabel \cup ClientLabel] /\ at \in [Thread -> 1..(Users + 1)]
           /\ "agent" \in Thread
<1>1. \A u \in User : InHand(u) \in Seq(Message)
  BY DEF TypeInv, InTime, InHand
<1> QED
  BY <1>1 DEF TypeInv, TypeOK, InTime, Thread

\* At first there is no message anywhere.
LEMMA LostInit == Init => NothingLost
<1> SUFFICES ASSUME Init, NEW u \in User PROVE accepted = (received[u] \o InHand(u)) \o queue
  BY DEF NothingLost
<1>1. InHand(u) = <<>> /\ received[u] = <<>> /\ queue = <<>> /\ accepted = <<>>
  BY DEF Init, InHand, Thread
<1>2. <<>> \o <<>> = <<>>
  BY ConcatEmptySeq, EmptySeq
<1> QED
  BY <1>1, <1>2

\* The agent takes a message in hand, and lets go of it when everybody has it.
LEMMA LostAgent == TypeInv /\ NothingLost /\ (Agent \/ Close) => NothingLost'
<1> SUFFICES ASSUME TypeInv, NothingLost, Agent \/ Close, mq_open', NEW u \in User
             PROVE  accepted' = (received'[u] \o InHand(u)') \o queue'
  BY DEF NothingLost
<1>0. mq_open
  BY DEF Agent, Close, Receive, ReceiveFails, SemWait, IterateLock, Dispatch, IterateStep, IterateEnd,
         SemPost, agentVars
<1>1. /\ accepted = (received[u] \o InHand(u)) \o queue
      /\ received[u] \in Seq(Message) /\ queue \in Seq(Message)
      /\ at["agent"] \in 1..(Users + 1) /\ pc \in [Thread -> AgentLabel \cup ClientLabel] /\ "agent" \in Thread
      /\ u \in 1..Users /\ at \in [Thread -> 1..(Users + 1)]
  BY <1>0, MessageTypes DEF NothingLost, User
<1>2. received[u] \o <<>> = received[u]
  BY <1>1, ConcatEmptySeq
<1>3. CASE Receive
  <2>1. InHand(u) = <<>> /\ InHand(u)' = <<Head(queue)>>
    BY <1>1, <1>3 DEF Receive, Go, InHand
  <2>2. (received[u] \o <<Head(queue)>>) \o Tail(queue) = received[u] \o queue
    BY <1>1, <1>3, HeadMoves DEF Receive
  <2> QED
    BY <1>1, <1>2, <1>3, <2>1, <2>2 DEF Receive, histories
<1>4. CASE SemWait
  <2>1. InHand(u)' = InHand(u)
    BY <1>1, <1>4 DEF SemWait, Go, InHand
  <2> QED
    BY <1>1, <1>4, <2>1 DEF SemWait, histories
<1>5. CASE IterateLock("agent", "lock", "dispatch")
  <2>1. InHand(u)' = InHand(u)
    BY <1>1, <1>5 DEF IterateLock, Go, InHand
  <2> QED
    BY <1>1, <1>5, <2>1 DEF IterateLock, agentVars, histories
<1>6. CASE Dispatch
  <2>1. /\ pc["agent"] = "dispatch" /\ pc' = pc /\ at'["agent"] = at["agent"] + 1 /\ buffer' = buffer
        /\ queue' = queue /\ accepted' = accepted /\ at["agent"] \in User
        /\ received'[u] = IF u = at["agent"] THEN Append(received[u], buffer) ELSE received[u]
    BY <1>0, <1>1, <1>6, MessageTypes DEF Dispatch, IterateStep, agentVars
  <2>2. buffer \in Message
    BY <1>0, <2>1 DEF TypeInv, InTime
  <2>3. CASE u = at["agent"]
    <3>1. InHand(u) = <<buffer>> /\ InHand(u)' = <<>>
      BY <1>1, <2>1, <2>3 DEF InHand
    <3>2. Append(received[u], buffer) = received[u] \o <<buffer>> /\ Append(received[u], buffer) \in Seq(Message)
      BY <1>1, <2>2, AppendIsConcat, AppendProperties
    <3>3. Append(received[u], buffer) \o <<>> = Append(received[u], buffer)
      BY <3>2, ConcatEmptySeq
    <3> QED
      BY <1>1, <2>1, <2>3, <3>1, <3>2, <3>3
  <2>4. CASE u # at["agent"]
    <3>1. at["agent"] <= u <=> at["agent"] + 1 <= u
      BY <1>1, <2>4
    <3>2. InHand(u)' = InHand(u)
      BY <2>1, <3>1 DEF InHand
    <3> QED
      BY <1>1, <2>1, <2>4, <3>2
  <2> QED
    BY <2>3, <2>4
<1>7. CASE IterateEnd("agent", "dispatch", "post")
  <2>1. ~ at["agent"] <= u
    BY <1>1, <1>7, BroadcastAssumption DEF IterateEnd, User
  <2>2. InHand(u)' = <<>> /\ InHand(u) = <<>>
    BY <1>1, <1>7, <2>1 DEF IterateEnd, Go, InHand
  <2> QED
    BY <1>1, <1>7, <2>2 DEF IterateEnd, agentVars, histories
<1>8. CASE SemPost
  <2>1. InHand(u)' = InHand(u)
    BY <1>1, <1>8 DEF SemPost, Go, InHand
  <2> QED
    BY <1>1, <1>8, <2>1 DEF SemPost, histories
<1> QED
  BY <1>0, <1>3, <1>4, <1>5, <1>6, <1>7, <1>8 DEF Agent, Close, ReceiveFails

\* Other threads leave the agent's hand alone.
LEMMA HandKept ==
    ASSUME TypeInv, NEW c \in Client, NEW u \in User, buffer' = buffer,
           pc' = pc \/ \E from, to : Go(c, from, to),
           at' = at \/ \E e : at' = [at EXCEPT ![c] = e]
    PROVE  InHand(u)' = InHand(u)
<1>1. pc'["agent"] = pc["agent"] /\ at'["agent"] = at["agent"]
  BY BroadcastAssumption DEF TypeInv, TypeOK, Thread, Go
<1> QED
  BY <1>1 DEF InHand

\* A client thread only ever adds a message at the end of the queue.
LEMMA LostClient ==
    ASSUME TypeInv, NothingLost, NEW c \in Client,
           \/ Call(c) \/ Broadcast(c)
           \/ PauseCheck(c) \/ ResumeCheck(c) \/ Command(c)
    PROVE  NothingLost'
<1> SUFFICES ASSUME mq_open', NEW u \in User
             PROVE  accepted' = (received'[u] \o InHand(u)') \o queue'
  BY DEF NothingLost
<1>1. buffer' = buffer /\ received' = received /\ mq_open' = mq_open
  BY DEF Call, Broadcast, GetAttr, CheckFree, CheckFull, MqSend, MqSendFails, PauseCheck, ResumeCheck, Command,
         PauseWait, PauseFlag, ResumePost, ResumeFlag, IterateLock, IterateEnd, Tell, IterateStep,
         agentVars, histories
<1>2. pc' = pc \/ \E from, to : Go(c, from, to)
  BY DEF Call, Broadcast, GetAttr, CheckFree, CheckFull, MqSend, MqSendFails, PauseCheck, ResumeCheck, Command,
         PauseWait, PauseFlag, ResumePost, ResumeFlag, IterateLock, IterateEnd, Tell, IterateStep
<1>3. at' = at \/ \E e : at' = [at EXCEPT ![c] = e]
  BY DEF Call, Broadcast, GetAttr, CheckFree, CheckFull, MqSend, MqSendFails, PauseCheck, ResumeCheck, Command,
         PauseWait, PauseFlag, ResumePost, ResumeFlag, IterateLock, IterateEnd, Tell, IterateStep
<1>4. InHand(u)' = InHand(u)
  BY <1>1, <1>2, <1>3, HandKept
<1>5. CASE MqSend(c)
  <2>1. carried[c] \in Message
    BY <1>5 DEF TypeInv, LabelsOK, MqSend, Go
  <2>2. /\ received[u] \in Seq(Message) /\ InHand(u) \in Seq(Message) /\ queue \in Seq(Message)
        /\ accepted = (received[u] \o InHand(u)) \o queue
    BY <1>1, MessageTypes DEF NothingLost
  <2>3. Append(accepted, carried[c]) = (received[u] \o InHand(u)) \o Append(queue, carried[c])
    <3> DEFINE had == received[u] \o InHand(u)
               new == <<carried[c]>>
    <3>1. had \in Seq(Message) /\ new \in Seq(Message) /\ queue \in Seq(Message)
      BY <2>1, <2>2, ConcatProperties
    <3>2. Append(queue, carried[c]) = queue \o new
      BY <2>1, <2>2, AppendIsConcat
    <3>3. accepted \in Seq(Message)
      BY <1>1, MessageTypes
    <3>4. Append(accepted, carried[c]) = accepted \o new
      BY <2>1, <3>3, AppendIsConcat
    <3>5. accepted = had \o queue
      BY <2>2
    <3> HIDE DEF had, new
    <3>6. (had \o queue) \o new = had \o (queue \o new)
      BY <3>1, ConcatAssociative
    <3> QED
      BY <3>2, <3>4, <3>5, <3>6 DEF had
  <2>4. accepted' = Append(accepted, carried[c]) /\ queue' = Append(queue, carried[c])
    BY <1>5 DEF MqSend
  <2> QED
    BY <1>1, <1>4, <2>3, <2>4
<1>6. ASSUME queue' = queue, accepted' = accepted
      PROVE  accepted' = (received'[u] \o InHand(u)') \o queue'
  BY <1>1, <1>4, <1>6 DEF NothingLost
<1>7. ~ MqSend(c) => queue' = queue /\ accepted' = accepted
  BY DEF Call, Broadcast, GetAttr, CheckFree, CheckFull, MqSendFails, PauseCheck, ResumeCheck, Command,
         PauseWait, PauseFlag, ResumePost, ResumeFlag, IterateLock, IterateEnd, Tell, IterateStep,
         agentVars, histories
<1> QED
  BY <1>5, <1>6, <1>7

\* Every step keeps account of all the messages.
LEMMA LostStep == TypeInv /\ NothingLost /\ [Next]_vars => NothingLost'
<1>1. NothingLost /\ UNCHANGED vars => NothingLost'
  BY DEF NothingLost, InHand, vars, agentVars, threadVars, histories
<1> QED
  BY <1>1, BroadcastAssumption, LostAgent, LostClient DEF Next

\* A message that mq_send took is received, in the agent's hand or in the queue, for
\* every user, in the order in which they were taken (broadcastagent.c:39-56, :102).
THEOREM NoMessageIsLost == Spec => []NothingLost
  BY TypeInit, TypeStep, LostInit, LostStep, PTL DEF Spec

-----------------------------------------------------------------------------
(* The order, also after the queue was closed.                             *)

\* What a user got, and what the agent's buffer holds, was accepted, and the buffer
\* not before what the user got.
NotBefore(u, i) ==
    \E p, q \in DOMAIN accepted :
        p <= q /\ accepted[p] = received[u][i] /\ accepted[q] = buffer

OrderInv ==
    \A u \in User :
        /\ \A i \in DOMAIN received[u] : received[u][i] # NULL => NotBefore(u, i)
        /\ buffer # NULL => \E q \in DOMAIN accepted : accepted[q] = buffer

\* A message that is received was accepted after all that a user has got so far.
LEMMA OrderReceive ==
    ASSUME TypeInv, NothingLost, OrderInv, Receive
    PROVE  OrderInv'
<1> SUFFICES ASSUME NEW u \in User
             PROVE  LET new == Len(received[u]) + 1 IN
                    /\ \A i \in DOMAIN received[u] : i \in DOMAIN accepted /\ i <= new /\ accepted[i] = received[u][i]
                    /\ new \in DOMAIN accepted /\ accepted[new] = Head(queue)
  BY DEF OrderInv, NotBefore, Receive, histories
<1>1. /\ received[u] \in Seq(Message) /\ queue \in Seq(Message) /\ queue # <<>>
      /\ accepted = (received[u] \o <<>>) \o queue
  BY MessageTypes DEF NothingLost, Receive, InHand, Go
<1>2. accepted = received[u] \o queue
  BY <1>1, ConcatEmptySeq
<1>3. /\ Len(received[u]) \in Nat /\ Len(queue) \in Nat \ {0}
      /\ DOMAIN received[u] = 1..Len(received[u]) /\ DOMAIN accepted = 1..Len(accepted)
  BY <1>1, <1>2, LenProperties, EmptySeq, ConcatProperties
<1>4. /\ Len(accepted) = Len(received[u]) + Len(queue)
      /\ \A i \in 1..(Len(received[u]) + Len(queue)) :
            accepted[i] = IF i <= Len(received[u]) THEN received[u][i] ELSE queue[i - Len(received[u])]
  BY <1>1, <1>2, ConcatProperties
<1>5. Head(queue) = queue[1]
  BY <1>1
<1> QED
  BY <1>3, <1>4, <1>5

\* The agent sends what is in its buffer, which is not before what it sent.
LEMMA OrderDispatch ==
    ASSUME TypeInv, OrderInv, InOrder, Dispatch
    PROVE  (OrderInv /\ InOrder)'
<1> DEFINE a == at["agent"]
<1>1. /\ a \in User /\ accepted' = accepted /\ buffer' = buffer
      /\ received' = [received EXCEPT ![a] = Append(@, buffer)]
  BY DEF Dispatch, IterateStep
<1>2. received \in [User -> Seq(Message \cup {NULL})] /\ buffer \in Message \cup {NULL}
  BY DEF TypeInv, TypeOK
<1> SUFFICES ASSUME NEW u \in User, NEW j \in DOMAIN received'[u]
             PROVE  /\ received'[u][j] # NULL => NotBefore(u, j)'
                    /\ \A i \in DOMAIN received'[u] : i < j /\ received'[u][i] # NULL =>
                          \E p, q \in DOMAIN accepted :
                              p <= q /\ accepted[p] = received'[u][i] /\ accepted[q] = received'[u][j]
  BY <1>1 DEF OrderInv, InOrder
<1>3. CASE u # a
  <2>1. received'[u] = received[u]
    BY <1>1, <1>2, <1>3
  <2>2. received'[u][j] # NULL => NotBefore(u, j)'
    BY <1>1, <2>1 DEF OrderInv, NotBefore
  <2>3. \A i \in DOMAIN received[u] : i < j /\ received[u][i] # NULL =>
            \E p, q \in DOMAIN accepted :
                p <= q /\ accepted[p] = received[u][i] /\ accepted[q] = received[u][j]
    BY <2>1 DEF InOrder
  <2> QED
    BY <2>1, <2>2, <2>3
<1>4. CASE u = a
  <2> DEFINE n == Len(received[u])
  <2>1. /\ n \in Nat /\ DOMAIN received[u] = 1..n /\ DOMAIN received'[u] = 1..(n + 1)
        /\ \A i \in 1..n : received'[u][i] = received[u][i]
        /\ received'[u][n + 1] = buffer
    <3>1. received[u] \in Seq(Message \cup {NULL}) /\ received'[u] = Append(received[u], buffer)
      BY <1>1, <1>2, <1>4
    <3>2. /\ received'[u] \in Seq(Message \cup {NULL}) /\ Len(received'[u]) = n + 1
          /\ \A i \in 1..n : received'[u][i] = received[u][i]
          /\ received'[u][n + 1] = buffer
      BY <1>2, <3>1, AppendProperties
    <3>3. n \in Nat /\ DOMAIN received[u] = 1..n
      BY <3>1, LenProperties
    <3>4. DOMAIN received'[u] = 1..Len(received'[u])
      BY <3>2, LenProperties
    <3> QED
      BY <3>2, <3>3, <3>4
  <2>2. CASE j \in 1..n
    BY <1>1, <2>1, <2>2 DEF OrderInv, InOrder, NotBefore
  <2>3. CASE j = n + 1
    <3>1. ASSUME NEW i \in DOMAIN received'[u], i < j, received'[u][i] # NULL
          PROVE  NotBefore(u, i)
      BY <2>1, <2>3, <3>1 DEF OrderInv
    <3>2. received'[u][j] # NULL => NotBefore(u, j)'
      <4> SUFFICES ASSUME buffer # NULL
                   PROVE  \E p, q \in DOMAIN accepted :
                              p <= q /\ accepted[p] = buffer /\ accepted[q] = buffer
        BY <1>1, <2>1, <2>3 DEF NotBefore
      <4>1. PICK q \in DOMAIN accepted : accepted[q] = buffer
        BY DEF OrderInv
      <4>2. q <= q
        BY <4>1, LenProperties DEF TypeInv, TypeOK
      <4> QED
        BY <4>1, <4>2
    <3> QED
      BY <1>1, <2>1, <2>3, <3>1, <3>2 DEF NotBefore
  <2> QED
    BY <2>1, <2>2, <2>3
<1> QED
  BY <1>3, <1>4

\* Accepting a message adds to the end; other steps change nothing that matters.
LEMMA OrderOthers ==
    ASSUME TypeInv, OrderInv, InOrder, received' = received, buffer' = buffer,
           \/ accepted' = accepted
           \/ \E m \in Message : accepted' = Append(accepted, m)
    PROVE  (OrderInv /\ InOrder)'
<1>1. \A p \in DOMAIN accepted : p \in DOMAIN accepted' /\ accepted'[p] = accepted[p]
  <2>1. ASSUME NEW m \in Message, accepted' = Append(accepted, m)
        PROVE  \A p \in DOMAIN accepted : p \in DOMAIN accepted' /\ accepted'[p] = accepted[p]
    <3>1. accepted \in Seq(Message)
      BY DEF TypeInv, TypeOK
    <3> QED
      BY <2>1, <3>1, AppendProperties, LenProperties
  <2> QED
    BY <2>1
<1> QED
  BY <1>1 DEF OrderInv, InOrder, NotBefore

\* Only three kinds of steps touch what a user got, the buffer or the accepted.
LEMMA OrderCases ==
    TypeInv /\ [Next]_vars =>
        \/ Receive \/ Dispatch
        \/ /\ received' = received /\ buffer' = buffer
           /\ \/ accepted' = accepted
                \/ \E m \in Message : accepted' = Append(accepted, m)
<1>1. Agent \/ Close => \/ Receive \/ Dispatch
                       \/ (received' = received /\ buffer' = buffer /\ accepted' = accepted)
  BY DEF Agent, Close, ReceiveFails, SemWait, IterateLock, IterateEnd, SemPost, histories, threadVars
<1>2. ASSUME TypeInv, NEW c \in Client, Call(c) \/ Broadcast(c)
      PROVE  /\ received' = received /\ buffer' = buffer
             /\ \/ accepted' = accepted
                \/ \E m \in Message : accepted' = Append(accepted, m)
  BY <1>2 DEF Call, Broadcast, GetAttr, CheckFree, CheckFull, MqSend, MqSendFails, histories,
                TypeInv, LabelsOK, Go
<1>3. ASSUME NEW a \in Admin, PauseCheck(a) \/ ResumeCheck(a) \/ Command(a)
      PROVE  received' = received /\ buffer' = buffer /\ accepted' = accepted
  BY <1>3 DEF PauseCheck, ResumeCheck, Command, PauseWait, PauseFlag, ResumePost, ResumeFlag,
              IterateLock, IterateEnd, Tell, IterateStep, histories
<1>4. UNCHANGED vars => received' = received /\ buffer' = buffer /\ accepted' = accepted
  BY DEF vars, threadVars, histories
<1> QED
  BY <1>1, <1>2, <1>3, <1>4 DEF Next

\* What a user receives never goes back in the accepted order, not even from an
\* agent that runs on with its old buffer after mq_close (broadcastagent.c:39-56, :90).
THEOREM OrderIsKept == Spec => []InOrder
<1>1. Init => OrderInv /\ InOrder
  BY DEF Init, OrderInv, InOrder
<1>2. TypeInv /\ NothingLost /\ OrderInv /\ InOrder /\ [Next]_vars => (OrderInv /\ InOrder)'
  <2> SUFFICES ASSUME TypeInv, NothingLost, OrderInv, InOrder, [Next]_vars
               PROVE  (OrderInv /\ InOrder)'
    OBVIOUS
  <2>1. CASE Receive
    <3>1. InOrder'
      BY <2>1 DEF InOrder, Receive, histories
    <3> QED
      BY <2>1, <3>1, OrderReceive
  <2>2. CASE Dispatch
    BY <2>2, OrderDispatch
  <2> QED
    BY <2>1, <2>2, OrderCases, OrderOthers
<1> QED
  BY <1>1, <1>2, TypeInit, TypeStep, LostInit, LostStep, PTL DEF Spec

-----------------------------------------------------------------------------
(* The refinement.                                                         *)

\* A message that the agent sends is the next one of those its user is owed.
LEMMA NextOwed ==
    ASSUME NEW S, NEW r \in Seq(S), NEW q \in Seq(S), NEW m \in S
    PROVE  LET all == (r \o <<m>>) \o q IN Len(r) < Len(all) /\ all[Len(r) + 1] = m
<1>1. /\ <<m>> \in Seq(S) /\ r \o <<m>> \in Seq(S) /\ Len(<<m>>) = 1
      /\ Len(r) \in Nat /\ Len(q) \in Nat
  BY ConcatProperties, LenProperties
<1>2. Len(r \o <<m>>) = Len(r) + 1 /\ (r \o <<m>>)[Len(r) + 1] = m
  BY <1>1, ConcatProperties
<1>3. /\ Len((r \o <<m>>) \o q) = Len(r) + 1 + Len(q)
      /\ ((r \o <<m>>) \o q)[Len(r) + 1] = m
  BY <1>1, <1>2, ConcatProperties
<1> QED
  BY <1>1, <1>3

\* A dispatch before the queue is closed is a delivery of the channel.
LEMMA ChannelDispatch ==
    ASSUME TypeInv, PermitInv, NoticesOK, NothingLost, Dispatch
    PROVE  [Channel!Next]_(Channel!vars)
<1>1. CASE ~ mq_open
  BY <1>1 DEF Dispatch, IterateStep, Channel!vars
<1>2. CASE mq_open
  <2> DEFINE u == at["agent"]
  <2>1. u \in User /\ pc["agent"] = "dispatch" /\ accepted' = accepted /\ notice' = notice
    BY DEF Dispatch, IterateStep
  <2>2. intime = received /\ buffer \in Message /\ received[u] \in Seq(Message) /\ queue \in Seq(Message)
    BY <1>2, <2>1, MessageTypes DEF TypeInv, InTime
  <2>3. InHand(u) = <<buffer>>
    <3>1. u \in Int
      BY <2>1 DEF User
    <3> QED
      BY <2>1, <3>1 DEF InHand
  <2>4. accepted = (received[u] \o <<buffer>>) \o queue
    BY <1>2, <2>1, <2>3 DEF NothingLost
  <2>5. Len(intime[u]) < Len(accepted) /\ accepted[Len(intime[u]) + 1] = buffer
    BY <2>2, <2>4, NextOwed
  <2>6. intime' = [intime EXCEPT ![u] = Append(@, buffer)]
    BY <1>2, <2>2 DEF Dispatch, IterateStep
  <2>7. notice[u] = "resumed"
    BY <2>1, DispatchToResumed DEF AgentHolds
  <2>8. Channel!Deliver(u)
    <3> HIDE DEF u
    <3> QED
      BY <2>1, <2>5, <2>6, <2>7 DEF Channel!Deliver
  <2> QED
    BY <2>1, <2>8 DEF Channel!Next
<1> QED
  BY <1>1, <1>2

\* Every step is a step of the channel or changes nothing it knows of.
LEMMA ChannelStep ==
    TypeInv /\ PermitInv /\ NoticesOK /\ NothingLost /\ [Next]_vars => [Channel!Next]_(Channel!vars)
<1> SUFFICES ASSUME TypeInv, PermitInv, NoticesOK, NothingLost, [Next]_vars
             PROVE  [Channel!Next]_(Channel!vars)
  OBVIOUS
<1>1. ASSUME UNCHANGED <<accepted, intime, notice>> PROVE [Channel!Next]_(Channel!vars)
  BY <1>1 DEF Channel!vars
<1>2. CASE Agent \/ Close
  <2>1. Dispatch \/ UNCHANGED <<accepted, intime, notice>>
    BY <1>2 DEF Agent, Close, Receive, ReceiveFails, SemWait, IterateLock, IterateEnd, SemPost, histories
  <2> QED
    BY <1>1, <2>1, ChannelDispatch
<1>3. ASSUME NEW c \in Client, Call(c) \/ Broadcast(c) PROVE [Channel!Next]_(Channel!vars)
  <2>1. CASE MqSend(c)
    <3>1. carried[c] \in Message
      BY <2>1 DEF TypeInv, LabelsOK, MqSend, Go
    <3>2. Channel!Accept(carried[c])
      BY <2>1 DEF MqSend, Channel!Accept
    <3> QED
      BY <3>1, <3>2 DEF Channel!Next
  <2>2. MqSend(c) \/ UNCHANGED <<accepted, intime, notice>>
    BY <1>3 DEF Call, Broadcast, GetAttr, CheckFree, CheckFull, MqSendFails, histories
  <2> QED
    BY <1>1, <2>1, <2>2
<1>4. ASSUME NEW a \in Admin, PauseCheck(a) \/ ResumeCheck(a) \/ Command(a)
      PROVE  [Channel!Next]_(Channel!vars)
  <2>1. ASSUME NEW label, NEW what \in {"paused", "resumed"}, Tell(a, label, what)
        PROVE  [Channel!Next]_(Channel!vars)
    <3>1. at[a] \in User /\ Channel!Notify(at[a], what)
      BY <2>1 DEF Tell, IterateStep, Channel!Notify
    <3> QED
      BY <3>1 DEF Channel!Next
  <2>2. \/ Tell(a, "pause_notify", "paused") \/ Tell(a, "resume_notify", "resumed")
        \/ UNCHANGED <<accepted, intime, notice>>
    BY <1>4 DEF PauseCheck, ResumeCheck, Command, PauseWait, PauseFlag, ResumePost, ResumeFlag,
                IterateLock, IterateEnd, histories
  <2> QED
    BY <1>1, <2>1, <2>2
<1>5. UNCHANGED vars => UNCHANGED <<accepted, intime, notice>>
  BY DEF vars, histories
<1> QED
  BY <1>1, <1>2, <1>3, <1>4, <1>5 DEF Next

\* With one admin the agent, its queue and its pause implement the channel, until the
\* queue is closed.
THEOREM AgentImplementsChannel ==
    ASSUME OneAdmin
    PROVE  Spec => ImplementsChannel
<1>1. Init => Channel!Init
  BY DEF Init, Channel!Init
<1> QED
  BY <1>1, ChannelStep, TypeInit, TypeStep, PermitInit, PermitStep, NoticesInit, NoticesStep,
     LostInit, LostStep, PTL DEF Spec, ImplementsChannel, Channel!Spec
=============================================================================
