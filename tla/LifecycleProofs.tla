---------------------------- MODULE LifecycleProofs ----------------------------
(***************************************************************************)
(* Theorems about Lifecycle, for any number of runs, however they overlap,  *)
(* crash and end.                                                          *)
(***************************************************************************)
EXTENDS Lifecycle, SequenceTheorems, TLAPS

-----------------------------------------------------------------------------
(* The inductive invariant.                                                *)

\* Until sem_init there is no permit.  After it there is one: in the semaphore,
\* with the agent that dispatches, or with an admin who has paused the chat.
PermitOK ==
    \A p \in Run :
        /\ pc[p] \in {"new", "queue", "agent", "sem", "dead"} =>
               broadcast_sem[p] = 0 /\ agent[p] # "send" /\ admin[p] = "idle"
        /\ agent[p] = "send" => broadcast_sem[p] = 0 /\ admin[p] # "paused"
        /\ admin[p] = "paused" => broadcast_sem[p] = 0

\* A run has a queue only from mq_open to its end, and an agent only with a queue;
\* the agent waits and dispatches with a message in its hands.
HasQueueOK ==
    \A p \in Run :
        /\ pc[p] \in {"new", "queue", "dead"} => broadcast_queue[p] = NULL
        /\ pc[p] \in {"agent", "sem"} => broadcast_queue[p] # NULL
        /\ agent[p] # "none" => broadcast_queue[p] # NULL
        /\ agent[p] \in {"wait", "send"} => got[p] # NULL
        /\ pc[p] = "new" => got[p] = NULL /\ dispatched[p] = {}

\* What is named, open or filled was created by its run's mq_open.
Created(q) == pc[q] \notin {"new", "queue"}
CreatedOK ==
    /\ named # NULL => Created(named)
    /\ \A q \in Run : msgs[q] # <<>> => Created(q)
    /\ \A p \in Run : broadcast_queue[p] # NULL => Created(broadcast_queue[p])

\* The messages of a run that has not ended are in its own queue.
SenderOK ==
    \A q, r \in Run : r \in ToSet(msgs[q]) => pc[r] = "dead" \/ broadcast_queue[r] = q

\* A run that is past its mq_unlink has no message in the queue with the name.
UnlinkedOK ==
    /\ \A r \in returned : pc[r] = "dead"
    /\ named # NULL =>
          \A r \in Run : r \in returned \/ pc[r] = "exit" => r \notin ToSet(msgs[named])

\* No run has in its queue what was sent by a run that had returned before it started.
BeforeOK ==
    \A p \in Run :
        /\ before[p] \subseteq returned
        /\ broadcast_queue[p] # NULL => ToSet(msgs[broadcast_queue[p]]) \cap before[p] = {}

LifeInv ==
    /\ TypeOK /\ PermitOK /\ HasQueueOK /\ CreatedOK
    /\ SenderOK /\ UnlinkedOK /\ BeforeOK /\ LeftoversOfCrashes

-----------------------------------------------------------------------------
(* Sequences of runs.                                                      *)

\* The runs in the tail of a queue were in the queue, and so was the head: what
\* mq_receive leaves and returns.
LEMMA TailProps ==
    ASSUME NEW s \in Seq(Run), s # <<>>
    PROVE  /\ Head(s) \in Run /\ Head(s) \in ToSet(s)
           /\ Tail(s) \in Seq(Run) /\ ToSet(Tail(s)) \subseteq ToSet(s)
           /\ Len(Tail(s)) \in Nat /\ Len(Tail(s)) < Len(s)
BY HeadTailProperties, LenProperties DEF ToSet

\* mq_send adds its message to those in the queue.
LEMMA AppendProps ==
    ASSUME NEW s \in Seq(Run), NEW e \in Run
    PROVE  /\ Append(s, e) \in Seq(Run) /\ ToSet(Append(s, e)) = ToSet(s) \cup {e}
           /\ Len(Append(s, e)) = Len(s) + 1 /\ Append(s, e) # <<>>
BY AppendProperties, LenProperties DEF ToSet

\* A queue that is gone, or new, holds nothing.
LEMMA EmptyProps ==
    /\ <<>> \in Seq(Run) /\ ToSet(<<>>) = {} /\ Len(<<>>) = 0
BY DEF ToSet

\* The bounds of the types: the lengths of the queues are natural numbers.
LEMMA LenIsNat == ASSUME NEW s \in Seq(Run) PROVE Len(s) \in Nat
BY LenProperties

-----------------------------------------------------------------------------
(* Steps that leave the queues alone.                                      *)

\* A step that touches no queue, neither opens nor gives one up, and takes no run to
\* the end of main keeps what is said of the queues and of what came out of them.
LEMMA QuietStep ==
    ASSUME LifeInv, TypeOK',
           UNCHANGED <<named, msgs, broadcast_queue, before, returned, got, dispatched>>,
           \A r \in Run : /\ Created(r) => Created(r)'
                          /\ pc[r] = "dead" => pc'[r] = "dead"
                          /\ pc'[r] = "exit" => pc[r] = "exit"
    PROVE  CreatedOK' /\ SenderOK' /\ UnlinkedOK' /\ BeforeOK' /\ LeftoversOfCrashes'
<1>1. CreatedOK'
  BY LifecycleAssumption DEF LifeInv, TypeOK, CreatedOK, Created
<1>2. SenderOK'
  BY DEF LifeInv, SenderOK
<1>3. UnlinkedOK'
  BY DEF LifeInv, TypeOK, UnlinkedOK
<1>4. BeforeOK'
  BY DEF LifeInv, BeforeOK
<1>5. LeftoversOfCrashes'
  BY DEF LifeInv, LeftoversOfCrashes
<1> QED
  BY <1>1, <1>2, <1>3, <1>4, <1>5

\* pthread_create for the agent, whether it succeeds or not.
LEMMA StartAgentKeeps ==
    ASSUME LifeInv, NEW p \in Run, StartAgent(p)
    PROVE  LifeInv'
<1>1. TypeOK'
  <2>1. pc' \in [Run -> {"new", "queue", "agent", "sem", "bind", "accept", "close",
                        "unlink", "exit", "dead"}]
    BY DEF LifeInv, TypeOK, PermitOK, HasQueueOK, StartAgent, Go, kernelVars, agentVars, clientVars
  <2>2. agent' \in [Run -> {"none", "receive", "wait", "send", "stuck"}]
    BY DEF LifeInv, TypeOK, PermitOK, HasQueueOK, StartAgent, Go, kernelVars, agentVars, clientVars
  <2>3. \A q \in Run : agent'[q] # "none" => broadcast_queue'[q] # NULL
    BY DEF LifeInv, TypeOK, PermitOK, HasQueueOK, StartAgent, Go, kernelVars, agentVars, clientVars
  <2> QED
    BY <2>1, <2>2, <2>3 DEF LifeInv, TypeOK, StartAgent, Go, kernelVars, agentVars, clientVars
<1>2. PermitOK'
  BY LifecycleAssumption DEF LifeInv, TypeOK, PermitOK, StartAgent, Go, kernelVars, agentVars, clientVars
<1>3. HasQueueOK'
  BY LifecycleAssumption DEF LifeInv, TypeOK, HasQueueOK, StartAgent, Go, kernelVars, agentVars, clientVars
<1>4. CreatedOK' /\ SenderOK' /\ UnlinkedOK' /\ BeforeOK' /\ LeftoversOfCrashes'
  <2>1. UNCHANGED <<named, msgs, broadcast_queue, before, returned, got, dispatched>>
    BY DEF StartAgent, Go, kernelVars, agentVars, clientVars
  <2>2. \A r \in Run : /\ Created(r) => Created(r)'
                       /\ pc[r] = "dead" => pc'[r] = "dead"
                       /\ pc'[r] = "exit" => pc[r] = "exit"
    BY DEF LifeInv, TypeOK, Created, StartAgent, Go, kernelVars, agentVars, clientVars
  <2> QED
    BY <1>1, <2>1, <2>2, QuietStep
<1> QED
  BY <1>1, <1>2, <1>3, <1>4 DEF LifeInv

\* sem_init makes the permit.
LEMMA SemInitKeeps ==
    ASSUME LifeInv, NEW p \in Run, SemInit(p)
    PROVE  LifeInv'
<1>1. TypeOK'
  <2>1. pc' \in [Run -> {"new", "queue", "agent", "sem", "bind", "accept", "close",
                        "unlink", "exit", "dead"}]
    BY DEF LifeInv, TypeOK, PermitOK, HasQueueOK, SemInit, Go, kernelVars, agentVars, clientVars
  <2>2. agent' \in [Run -> {"none", "receive", "wait", "send", "stuck"}]
    BY DEF LifeInv, TypeOK, PermitOK, HasQueueOK, SemInit, Go, kernelVars, agentVars, clientVars
  <2>3. broadcast_sem' \in [Run -> 0..1]
    BY DEF LifeInv, TypeOK, PermitOK, HasQueueOK, SemInit, Go, kernelVars, agentVars, clientVars
  <2>4. \A q \in Run : agent'[q] # "none" => broadcast_queue'[q] # NULL
    BY DEF LifeInv, TypeOK, PermitOK, HasQueueOK, SemInit, Go, kernelVars, agentVars, clientVars
  <2> QED
    BY <2>1, <2>2, <2>3, <2>4 DEF LifeInv, TypeOK, SemInit, Go, kernelVars, agentVars, clientVars
<1>2. PermitOK'
  BY LifecycleAssumption DEF LifeInv, TypeOK, PermitOK, SemInit, Go, kernelVars, agentVars, clientVars
<1>3. HasQueueOK'
  BY LifecycleAssumption DEF LifeInv, TypeOK, HasQueueOK, SemInit, Go, kernelVars, agentVars, clientVars
<1>4. CreatedOK' /\ SenderOK' /\ UnlinkedOK' /\ BeforeOK' /\ LeftoversOfCrashes'
  <2>1. UNCHANGED <<named, msgs, broadcast_queue, before, returned, got, dispatched>>
    BY DEF SemInit, Go, kernelVars, agentVars, clientVars
  <2>2. \A r \in Run : /\ Created(r) => Created(r)'
                       /\ pc[r] = "dead" => pc'[r] = "dead"
                       /\ pc'[r] = "exit" => pc[r] = "exit"
    BY DEF LifeInv, TypeOK, Created, SemInit, Go, kernelVars, agentVars, clientVars
  <2> QED
    BY <1>1, <2>1, <2>2, QuietStep
<1> QED
  BY <1>1, <1>2, <1>3, <1>4 DEF LifeInv

\* The port is taken.
LEMMA ListenKeeps ==
    ASSUME LifeInv, NEW p \in Run, Listen(p)
    PROVE  LifeInv'
<1>1. TypeOK'
  BY LifecycleAssumption DEF LifeInv, TypeOK, PermitOK, HasQueueOK, Listen, Go, kernelVars, agentVars, clientVars
<1>2. PermitOK'
  BY LifecycleAssumption DEF LifeInv, TypeOK, PermitOK, Listen, Go, kernelVars, agentVars, clientVars
<1>3. HasQueueOK'
  BY LifecycleAssumption DEF LifeInv, TypeOK, HasQueueOK, Listen, Go, kernelVars, agentVars, clientVars
<1>4. CreatedOK' /\ SenderOK' /\ UnlinkedOK' /\ BeforeOK' /\ LeftoversOfCrashes'
  <2>1. UNCHANGED <<named, msgs, broadcast_queue, before, returned, got, dispatched>>
    BY DEF Listen, Go, kernelVars, agentVars, clientVars
  <2>2. \A r \in Run : /\ Created(r) => Created(r)'
                       /\ pc[r] = "dead" => pc'[r] = "dead"
                       /\ pc'[r] = "exit" => pc[r] = "exit"
    BY DEF LifeInv, TypeOK, Created, Listen, Go, kernelVars, agentVars, clientVars
  <2> QED
    BY <1>1, <2>1, <2>2, QuietStep
<1> QED
  BY <1>1, <1>2, <1>3, <1>4 DEF LifeInv

\* accept fails and main goes on to the shutdown.
LEMMA AcceptFailsKeeps ==
    ASSUME LifeInv, NEW p \in Run, AcceptFails(p)
    PROVE  LifeInv'
<1>1. TypeOK'
  BY LifecycleAssumption DEF LifeInv, TypeOK, PermitOK, HasQueueOK, AcceptFails, Go, kernelVars, agentVars, clientVars
<1>2. PermitOK'
  BY LifecycleAssumption DEF LifeInv, TypeOK, PermitOK, AcceptFails, Go, kernelVars, agentVars, clientVars
<1>3. HasQueueOK'
  BY LifecycleAssumption DEF LifeInv, TypeOK, HasQueueOK, AcceptFails, Go, kernelVars, agentVars, clientVars
<1>4. CreatedOK' /\ SenderOK' /\ UnlinkedOK' /\ BeforeOK' /\ LeftoversOfCrashes'
  <2>1. UNCHANGED <<named, msgs, broadcast_queue, before, returned, got, dispatched>>
    BY DEF AcceptFails, Go, kernelVars, agentVars, clientVars
  <2>2. \A r \in Run : /\ Created(r) => Created(r)'
                       /\ pc[r] = "dead" => pc'[r] = "dead"
                       /\ pc'[r] = "exit" => pc[r] = "exit"
    BY DEF LifeInv, TypeOK, Created, AcceptFails, Go, kernelVars, agentVars, clientVars
  <2> QED
    BY <1>1, <2>1, <2>2, QuietStep
<1> QED
  BY <1>1, <1>2, <1>3, <1>4 DEF LifeInv

\* SIGINT changes nothing but the history.
LEMMA SignalKeeps ==
    ASSUME LifeInv, NEW p \in Run, Signal(p)
    PROVE  LifeInv'
<1>1. TypeOK'
  BY LifecycleAssumption DEF LifeInv, TypeOK, PermitOK, HasQueueOK, Signal, Serves, kernelVars, agentVars, clientVars
<1>2. PermitOK'
  BY LifecycleAssumption DEF LifeInv, TypeOK, PermitOK, Signal, Serves, kernelVars, agentVars, clientVars
<1>3. HasQueueOK'
  BY LifecycleAssumption DEF LifeInv, TypeOK, HasQueueOK, Signal, Serves, kernelVars, agentVars, clientVars
<1>4. CreatedOK' /\ SenderOK' /\ UnlinkedOK' /\ BeforeOK' /\ LeftoversOfCrashes'
  <2>1. UNCHANGED <<named, msgs, broadcast_queue, before, returned, got, dispatched>>
    BY DEF Signal, Serves, kernelVars, agentVars, clientVars
  <2>2. \A r \in Run : /\ Created(r) => Created(r)'
                       /\ pc[r] = "dead" => pc'[r] = "dead"
                       /\ pc'[r] = "exit" => pc[r] = "exit"
    BY DEF LifeInv, TypeOK, Created, Signal, Serves, kernelVars, agentVars, clientVars
  <2> QED
    BY <1>1, <2>1, <2>2, QuietStep
<1> QED
  BY <1>1, <1>2, <1>3, <1>4 DEF LifeInv

\* The agent takes the permit.
LEMMA SemWaitKeeps ==
    ASSUME LifeInv, NEW p \in Run, SemWait(p)
    PROVE  LifeInv'
<1>1. TypeOK'
  BY LifecycleAssumption DEF LifeInv, TypeOK, PermitOK, HasQueueOK, SemWait, kernelVars, agentVars, clientVars
<1>2. PermitOK'
  BY LifecycleAssumption DEF LifeInv, TypeOK, PermitOK, SemWait, kernelVars, agentVars, clientVars
<1>3. HasQueueOK'
  BY LifecycleAssumption DEF LifeInv, TypeOK, HasQueueOK, SemWait, kernelVars, agentVars, clientVars
<1>4. CreatedOK' /\ SenderOK' /\ UnlinkedOK' /\ BeforeOK' /\ LeftoversOfCrashes'
  <2>1. UNCHANGED <<named, msgs, broadcast_queue, before, returned, got, dispatched>>
    BY DEF SemWait, kernelVars, agentVars, clientVars
  <2>2. \A r \in Run : /\ Created(r) => Created(r)'
                       /\ pc[r] = "dead" => pc'[r] = "dead"
                       /\ pc'[r] = "exit" => pc[r] = "exit"
    BY DEF LifeInv, TypeOK, Created, SemWait, kernelVars, agentVars, clientVars
  <2> QED
    BY <1>1, <2>1, <2>2, QuietStep
<1> QED
  BY <1>1, <1>2, <1>3, <1>4 DEF LifeInv

\* /pause is called.
LEMMA PauseKeeps ==
    ASSUME LifeInv, NEW p \in Run, Pause(p)
    PROVE  LifeInv'
<1>1. TypeOK'
  <2>1. admin' \in [Run -> {"idle", "pausing", "paused", "resumed"}]
    BY DEF LifeInv, TypeOK, Pause, AdminGoes, Serves, kernelVars, agentVars, clientVars
  <2>2. broadcast_sem[p] \in 0..1
    BY DEF LifeInv, TypeOK, Pause, AdminGoes, Serves, kernelVars, agentVars, clientVars
  <2>3. broadcast_sem[p] + 0 >= 0
    BY DEF LifeInv, TypeOK, Pause, AdminGoes, Serves, kernelVars, agentVars, clientVars
  <2>4. broadcast_sem[p] + 0 \in 0..1
    BY <2>2, <2>3
  <2>5. broadcast_sem' = [broadcast_sem EXCEPT ![p] = broadcast_sem[p] + 0]
    BY DEF LifeInv, TypeOK, Pause, AdminGoes, Serves, kernelVars, agentVars, clientVars
  <2>6. broadcast_sem' \in [Run -> 0..1]
    BY <2>4, <2>5 DEF LifeInv, TypeOK
  <2> QED
    BY <2>1, <2>2, <2>3, <2>4, <2>5, <2>6 DEF LifeInv, TypeOK, Pause, AdminGoes, Serves, kernelVars, agentVars, clientVars
<1>2. PermitOK'
  BY LifecycleAssumption DEF LifeInv, TypeOK, PermitOK, Pause, AdminGoes, Serves, kernelVars, agentVars, clientVars
<1>3. HasQueueOK'
  BY LifecycleAssumption DEF LifeInv, TypeOK, HasQueueOK, Pause, AdminGoes, Serves, kernelVars, agentVars, clientVars
<1>4. CreatedOK' /\ SenderOK' /\ UnlinkedOK' /\ BeforeOK' /\ LeftoversOfCrashes'
  <2>1. UNCHANGED <<named, msgs, broadcast_queue, before, returned, got, dispatched>>
    BY DEF Pause, AdminGoes, Serves, kernelVars, agentVars, clientVars
  <2>2. \A r \in Run : /\ Created(r) => Created(r)'
                       /\ pc[r] = "dead" => pc'[r] = "dead"
                       /\ pc'[r] = "exit" => pc[r] = "exit"
    BY DEF LifeInv, TypeOK, Created, Pause, AdminGoes, Serves, kernelVars, agentVars, clientVars
  <2> QED
    BY <1>1, <2>1, <2>2, QuietStep
<1> QED
  BY <1>1, <1>2, <1>3, <1>4 DEF LifeInv

\* /pause gets the permit.
LEMMA PauseWaitKeeps ==
    ASSUME LifeInv, NEW p \in Run, PauseWait(p)
    PROVE  LifeInv'
<1>1. TypeOK'
  <2>1. admin' \in [Run -> {"idle", "pausing", "paused", "resumed"}]
    BY DEF LifeInv, TypeOK, PauseWait, AdminGoes, Serves, kernelVars, agentVars, clientVars
  <2>2. broadcast_sem[p] \in 0..1
    BY DEF LifeInv, TypeOK, PauseWait, AdminGoes, Serves, kernelVars, agentVars, clientVars
  <2>3. broadcast_sem[p] + (-1) >= 0
    BY DEF LifeInv, TypeOK, PauseWait, AdminGoes, Serves, kernelVars, agentVars, clientVars
  <2>4. broadcast_sem[p] + (-1) \in 0..1
    BY <2>2, <2>3
  <2>5. broadcast_sem' = [broadcast_sem EXCEPT ![p] = broadcast_sem[p] + (-1)]
    BY DEF LifeInv, TypeOK, PauseWait, AdminGoes, Serves, kernelVars, agentVars, clientVars
  <2>6. broadcast_sem' \in [Run -> 0..1]
    BY <2>4, <2>5 DEF LifeInv, TypeOK
  <2> QED
    BY <2>1, <2>2, <2>3, <2>4, <2>5, <2>6 DEF LifeInv, TypeOK, PauseWait, AdminGoes, Serves, kernelVars, agentVars, clientVars
<1>2. PermitOK'
  BY LifecycleAssumption DEF LifeInv, TypeOK, PermitOK, PauseWait, AdminGoes, Serves, kernelVars, agentVars, clientVars
<1>3. HasQueueOK'
  BY LifecycleAssumption DEF LifeInv, TypeOK, HasQueueOK, PauseWait, AdminGoes, Serves, kernelVars, agentVars, clientVars
<1>4. CreatedOK' /\ SenderOK' /\ UnlinkedOK' /\ BeforeOK' /\ LeftoversOfCrashes'
  <2>1. UNCHANGED <<named, msgs, broadcast_queue, before, returned, got, dispatched>>
    BY DEF PauseWait, AdminGoes, Serves, kernelVars, agentVars, clientVars
  <2>2. \A r \in Run : /\ Created(r) => Created(r)'
                       /\ pc[r] = "dead" => pc'[r] = "dead"
                       /\ pc'[r] = "exit" => pc[r] = "exit"
    BY DEF LifeInv, TypeOK, Created, PauseWait, AdminGoes, Serves, kernelVars, agentVars, clientVars
  <2> QED
    BY <1>1, <2>1, <2>2, QuietStep
<1> QED
  BY <1>1, <1>2, <1>3, <1>4 DEF LifeInv

\* /resume gives the permit back: only an admin who has it does.
LEMMA ResumeKeeps ==
    ASSUME LifeInv, NEW p \in Run, Resume(p)
    PROVE  LifeInv'
<1>1. TypeOK'
  BY LifecycleAssumption DEF LifeInv, TypeOK, PermitOK, HasQueueOK, Resume, AdminGoes, Serves, kernelVars, agentVars, clientVars
<1>2. PermitOK'
  BY LifecycleAssumption DEF LifeInv, TypeOK, PermitOK, Resume, AdminGoes, Serves, kernelVars, agentVars, clientVars
<1>3. HasQueueOK'
  BY LifecycleAssumption DEF LifeInv, TypeOK, HasQueueOK, Resume, AdminGoes, Serves, kernelVars, agentVars, clientVars
<1>4. CreatedOK' /\ SenderOK' /\ UnlinkedOK' /\ BeforeOK' /\ LeftoversOfCrashes'
  <2>1. UNCHANGED <<named, msgs, broadcast_queue, before, returned, got, dispatched>>
    BY DEF Resume, AdminGoes, Serves, kernelVars, agentVars, clientVars
  <2>2. \A r \in Run : /\ Created(r) => Created(r)'
                       /\ pc[r] = "dead" => pc'[r] = "dead"
                       /\ pc'[r] = "exit" => pc[r] = "exit"
    BY DEF LifeInv, TypeOK, Created, Resume, AdminGoes, Serves, kernelVars, agentVars, clientVars
  <2> QED
    BY <1>1, <2>1, <2>2, QuietStep
<1> QED
  BY <1>1, <1>2, <1>3, <1>4 DEF LifeInv

-----------------------------------------------------------------------------
(* Steps that open, fill and empty the queues.                             *)

\* A run starts after those that have returned: it has no queue yet.
LEMMA StartupKeeps ==
    ASSUME LifeInv, NEW p \in Run, Startup(p)
    PROVE  LifeInv'
<1>1. TypeOK'
  BY DEF LifeInv, TypeOK, HasQueueOK, Startup, Go, kernelVars, agentVars, clientVars
<1>2. PermitOK'
  BY DEF LifeInv, TypeOK, PermitOK, Startup, Go, kernelVars, agentVars, clientVars
<1>3. HasQueueOK'
  BY DEF LifeInv, TypeOK, HasQueueOK, Startup, Go, kernelVars, agentVars, clientVars
<1>4. CreatedOK'
  BY LifecycleAssumption
  DEF LifeInv, TypeOK, CreatedOK, Created, Startup, Go, kernelVars, agentVars, clientVars
<1>5. SenderOK'
  BY DEF LifeInv, TypeOK, SenderOK, Startup, Go, kernelVars, agentVars, clientVars
<1>6. UnlinkedOK'
  BY DEF LifeInv, TypeOK, UnlinkedOK, Startup, Go, kernelVars, agentVars, clientVars
<1>7. BeforeOK'
  BY DEF LifeInv, TypeOK, HasQueueOK, BeforeOK, Startup, Go, kernelVars, agentVars, clientVars
<1>8. LeftoversOfCrashes'
  <2> SUFFICES ASSUME NEW r \in Run
               PROVE  (({got[r]} \cup dispatched[r]) \cap before[r])' = {}
    BY DEF LeftoversOfCrashes
  <2>1. got' = got /\ dispatched' = dispatched /\ before' = [before EXCEPT ![p] = returned]
    BY DEF Startup, agentVars
  <2>2. CASE r = p
    <3>1. got[p] = NULL /\ dispatched[p] = {} /\ returned \subseteq Run
      BY DEF LifeInv, TypeOK, HasQueueOK, Startup, Go
    <3>2. got'[r] = NULL /\ dispatched'[r] = {} /\ before'[r] = returned
      BY <2>1, <2>2, <3>1 DEF LifeInv, TypeOK
    <3> QED
      BY <3>1, <3>2, LifecycleAssumption DEF Run
  <2>3. CASE r # p
    BY <2>1, <2>3 DEF LifeInv, TypeOK, LeftoversOfCrashes
  <2> QED
    BY <2>2, <2>3
<1> QED
  BY <1>1, <1>2, <1>3, <1>4, <1>5, <1>6, <1>7, <1>8 DEF LifeInv

\* mq_open finds the queue that has the name, which holds nothing of a run that has
\* returned, or makes an empty one; or it fails.
LEMMA OpenQueueKeeps ==
    ASSUME LifeInv, NEW p \in Run, OpenQueue(p)
    PROVE  LifeInv'
<1> DEFINE opened == broadcast_queue'[p]
<1>1. CASE Go(p, "queue", "bind") /\ UNCHANGED <<named, broadcast_queue>>
  <2>1. TypeOK'
    BY <1>1 DEF LifeInv, TypeOK, OpenQueue, Go, kernelVars, agentVars, clientVars
  <2>2. PermitOK' /\ HasQueueOK'
    BY <1>1 DEF LifeInv, TypeOK, PermitOK, HasQueueOK, OpenQueue, Go, agentVars, clientVars
  <2>3. UNCHANGED <<named, msgs, broadcast_queue, before, returned, got, dispatched>>
    BY <1>1 DEF OpenQueue, agentVars
  <2>4. \A r \in Run : /\ Created(r) => Created(r)'
                       /\ pc[r] = "dead" => pc'[r] = "dead"
                       /\ pc'[r] = "exit" => pc[r] = "exit"
    BY <1>1 DEF LifeInv, TypeOK, Created, Go
  <2> QED
    BY <2>1, <2>2, <2>3, <2>4, QuietStep DEF LifeInv
<1>2. CASE /\ Go(p, "queue", "agent")
           /\ named' = IF named = NULL THEN p ELSE named
           /\ broadcast_queue' = [broadcast_queue EXCEPT ![p] = named']
  <2>1. /\ pc[p] = "queue" /\ pc' = [pc EXCEPT ![p] = "agent"]
        /\ UNCHANGED <<msgs, port, time_wait, agent, got, broadcast_sem, dispatched,
                       admin, sends, signalled, returned, before>>
    BY <1>2 DEF OpenQueue, Go, agentVars, clientVars
  \* the new name is p, of a queue that is empty, or the old one
  <2>2. /\ named' \in Run /\ named' # NULL
        /\ named = NULL => named' = p /\ msgs[p] = <<>>
        /\ named # NULL => named' = named /\ Created(named)
    BY <1>2, <2>1, LifecycleAssumption DEF LifeInv, TypeOK, CreatedOK, Created, Run
  <2>3. /\ broadcast_queue[p] = NULL /\ agent[p] = "none"
        /\ broadcast_queue' = [broadcast_queue EXCEPT ![p] = named']
    BY <1>2, <2>1 DEF LifeInv, HasQueueOK
  <2>4. TypeOK'
    <3>1. broadcast_queue' \in [Run -> Run \cup {NULL}] /\ named' \in Run \cup {NULL}
      BY <2>2, <2>3 DEF LifeInv, TypeOK
    <3>2. \A q \in Run : agent'[q] # "none" => broadcast_queue'[q] # NULL
      BY <2>1, <2>2, <2>3 DEF LifeInv, TypeOK
    <3> QED
      BY <2>1, <3>1, <3>2 DEF LifeInv, TypeOK
  <2>5. PermitOK'
    BY <2>1 DEF LifeInv, TypeOK, PermitOK
  <2>6. HasQueueOK'
    BY <2>1, <2>2, <2>3 DEF LifeInv, TypeOK, HasQueueOK
  <2>7. CreatedOK'
    <3>1. \A r \in Run : Created(r) => Created(r)'
      BY <2>1 DEF LifeInv, TypeOK, Created
    <3>2. Created(p)'
      BY <2>1 DEF LifeInv, TypeOK, Created
    <3>3. Created(named)'
      BY <2>2, <3>1, <3>2 DEF LifeInv, TypeOK, Created
    <3>4. \A q \in Run : msgs'[q] # <<>> => Created(q)'
      BY <2>1, <3>1 DEF LifeInv, CreatedOK
    <3>5. \A r \in Run : broadcast_queue'[r] # NULL => Created(broadcast_queue[r])'
      <4> SUFFICES ASSUME NEW r \in Run, broadcast_queue'[r] # NULL
                   PROVE  Created(broadcast_queue[r])'
        OBVIOUS
      <4>1. CASE r = p
        <5>1. broadcast_queue'[r] = named'
          BY <2>3, <4>1 DEF LifeInv, TypeOK
        <5> QED
          BY <5>1, <3>3 DEF Created
      <4>2. CASE r # p
        <5>1. broadcast_queue'[r] = broadcast_queue[r] /\ broadcast_queue[r] \in Run
          BY <2>3, <4>2 DEF LifeInv, TypeOK
        <5> QED
          BY <5>1, <3>1 DEF LifeInv, CreatedOK, Created
      <4> QED
        BY <4>1, <4>2
    <3> QED
      BY <3>3, <3>4, <3>5 DEF CreatedOK
  <2>8. SenderOK'
    <3> SUFFICES ASSUME NEW q \in Run, NEW r \in Run, r \in ToSet(msgs[q])
                 PROVE  pc'[r] = "dead" \/ broadcast_queue'[r] = q
      BY <2>1 DEF SenderOK
    <3>1. pc[r] = "dead" \/ broadcast_queue[r] = q
      BY DEF LifeInv, SenderOK
    <3>2. r # p
      BY <2>1, <2>3, <3>1, LifecycleAssumption DEF Run
    <3> QED
      BY <2>1, <2>3, <3>1, <3>2 DEF LifeInv, TypeOK
  <2>9. UnlinkedOK'
    <3>1. \A r \in returned' : pc'[r] = "dead"
      BY <2>1 DEF LifeInv, TypeOK, UnlinkedOK
    <3>2. ASSUME NEW r \in Run, r \in returned' \/ pc'[r] = "exit"
          PROVE  r \notin ToSet(msgs'[named'])
      <4>1. r \in returned \/ pc[r] = "exit"
        BY <2>1, <3>2 DEF LifeInv, TypeOK
      <4>2. CASE named = NULL
        BY <2>1, <2>2, <4>2, EmptyProps
      <4>3. CASE named # NULL
        BY <2>1, <2>2, <4>1, <4>3 DEF LifeInv, UnlinkedOK
      <4> QED
        BY <4>2, <4>3
    <3> QED
      BY <3>1, <3>2 DEF UnlinkedOK
  <2>10. BeforeOK'
    <3> SUFFICES ASSUME NEW r \in Run
                 PROVE  /\ before[r] \subseteq returned
                        /\ broadcast_queue'[r] # NULL =>
                               ToSet(msgs[broadcast_queue'[r]]) \cap before[r] = {}
      BY <2>1 DEF BeforeOK
    <3>1. before[r] \subseteq returned /\ returned \subseteq Run
      BY DEF LifeInv, TypeOK, BeforeOK
    <3>2. CASE r = p
      <4>1. broadcast_queue'[r] = named'
        BY <2>3, <3>2 DEF LifeInv, TypeOK
      <4>2. CASE named = NULL
        BY <2>2, <4>1, <4>2, <3>1, EmptyProps
      <4>3. CASE named # NULL
        BY <2>2, <4>1, <4>3, <3>1 DEF LifeInv, UnlinkedOK
      <4> QED
        BY <4>2, <4>3
    <3>3. CASE r # p
      <4>1. broadcast_queue'[r] = broadcast_queue[r]
        BY <2>3, <3>3 DEF LifeInv, TypeOK
      <4> QED
        BY <3>1, <4>1 DEF LifeInv, BeforeOK
    <3> QED
      BY <3>2, <3>3
  <2>11. LeftoversOfCrashes'
    BY <2>1 DEF LifeInv, LeftoversOfCrashes
  <2> QED
    BY <2>4, <2>5, <2>6, <2>7, <2>8, <2>9, <2>10, <2>11 DEF LifeInv
<1> QED
  BY <1>1, <1>2 DEF OpenQueue

\* mq_close fails without a queue, and main goes on to its end: then none of its
\* messages is anywhere.  With a queue it goes on to mq_unlink.
LEMMA CloseQueueKeeps ==
    ASSUME LifeInv, NEW p \in Run, CloseQueue(p)
    PROVE  LifeInv'
<1>1. /\ pc[p] = "close"
      /\ pc' = [pc EXCEPT ![p] = IF broadcast_queue[p] = NULL THEN "exit" ELSE "unlink"]
      /\ UNCHANGED <<named, msgs, port, time_wait, broadcast_queue, agent, got, broadcast_sem,
                     dispatched, admin, sends, signalled, returned, before>>
  BY DEF CloseQueue, Go, kernelVars, agentVars, clientVars
<1>2. TypeOK'
  BY <1>1 DEF LifeInv, TypeOK
<1>3. PermitOK' /\ HasQueueOK'
  BY <1>1 DEF LifeInv, TypeOK, PermitOK, HasQueueOK
<1>4. CreatedOK'
  BY <1>1, LifecycleAssumption DEF LifeInv, TypeOK, CreatedOK, Created
<1>5. SenderOK'
  BY <1>1 DEF LifeInv, TypeOK, SenderOK
<1>6. UnlinkedOK'
  <2>1. \A r \in returned' : pc'[r] = "dead"
    BY <1>1 DEF LifeInv, TypeOK, UnlinkedOK
  <2>2. ASSUME named # NULL, NEW r \in Run, r \in returned \/ pc'[r] = "exit"
        PROVE  r \notin ToSet(msgs[named])
    <3>1. CASE r \in returned \/ pc[r] = "exit"
      BY <2>2, <3>1 DEF LifeInv, UnlinkedOK
    <3>2. CASE r = p /\ broadcast_queue[p] = NULL
      BY <1>1, <2>2, <3>2, LifecycleAssumption DEF LifeInv, TypeOK, SenderOK
    <3> QED
      BY <1>1, <2>2, <3>1, <3>2 DEF LifeInv, TypeOK
  <2> QED
    BY <1>1, <2>1, <2>2 DEF UnlinkedOK
<1>7. BeforeOK' /\ LeftoversOfCrashes'
  BY <1>1 DEF LifeInv, BeforeOK, LeftoversOfCrashes
<1> QED
  BY <1>2, <1>3, <1>4, <1>5, <1>6, <1>7 DEF LifeInv

\* mq_unlink: nothing has the name, and a queue that nobody has open is gone.
LEMMA UnlinkKeeps ==
    ASSUME LifeInv, NEW p \in Run, Unlink(p)
    PROVE  LifeInv'
<1>1. /\ pc[p] = "unlink" /\ pc' = [pc EXCEPT ![p] = "exit"] /\ named' = NULL
      /\ UNCHANGED <<port, time_wait, broadcast_queue, agent, got, broadcast_sem,
                     dispatched, admin, sends, signalled, returned, before>>
  BY DEF Unlink, Go, agentVars, clientVars
<1>2. /\ msgs' \in [Run -> Seq(Run)]
      /\ \A q \in Run : /\ msgs'[q] \in {msgs[q], <<>>}
                        /\ (\E r \in Run : broadcast_queue[r] = q) => msgs'[q] = msgs[q]
  BY EmptyProps DEF LifeInv, TypeOK, Unlink
<1>3. TypeOK'
  <2>1. \A q \in Run : Len(msgs'[q]) <= MaxQueue
    BY <1>2, EmptyProps, LifecycleAssumption DEF LifeInv, TypeOK
  <2> QED
    BY <1>1, <1>2, <2>1 DEF LifeInv, TypeOK
<1>4. PermitOK' /\ HasQueueOK'
  BY <1>1 DEF LifeInv, TypeOK, PermitOK, HasQueueOK
<1>5. CreatedOK'
  BY <1>1, <1>2, LifecycleAssumption DEF LifeInv, TypeOK, CreatedOK, Created
<1>6. \A q \in Run : ToSet(msgs'[q]) \subseteq ToSet(msgs[q])
  BY <1>2, EmptyProps
<1>7. SenderOK'
  BY <1>1, <1>6 DEF LifeInv, TypeOK, SenderOK
<1>8. UnlinkedOK'
  BY <1>1 DEF LifeInv, TypeOK, UnlinkedOK
<1>9. BeforeOK'
  BY <1>1, <1>6 DEF LifeInv, TypeOK, BeforeOK
<1>10. LeftoversOfCrashes'
  BY <1>1 DEF LifeInv, LeftoversOfCrashes
<1> QED
  BY <1>3, <1>4, <1>5, <1>7, <1>8, <1>9, <1>10 DEF LifeInv

\* mq_receive: the agent has a message that was in its queue.
LEMMA ReceiveKeeps ==
    ASSUME LifeInv, NEW p \in Run, Receive(p)
    PROVE  LifeInv'
<1> DEFINE q0 == broadcast_queue[p]
<1>1. /\ agent[p] = "receive" /\ msgs[q0] # <<>>
      /\ got' = [got EXCEPT ![p] = Head(msgs[q0])]
      /\ msgs' = [msgs EXCEPT ![q0] = Tail(msgs[q0])]
      /\ agent' = [agent EXCEPT ![p] = "wait"]
      /\ UNCHANGED <<named, port, time_wait, pc, broadcast_queue, broadcast_sem, dispatched,
                     admin, sends, signalled, returned, before>>
  BY DEF Receive, clientVars
<1>2. q0 \in Run /\ q0 # NULL /\ msgs[q0] \in Seq(Run)
  BY <1>1 DEF LifeInv, TypeOK
<1> HIDE DEF q0
<1>3. /\ Head(msgs[q0]) \in Run /\ Head(msgs[q0]) \in ToSet(msgs[q0])
      /\ Tail(msgs[q0]) \in Seq(Run) /\ ToSet(Tail(msgs[q0])) \subseteq ToSet(msgs[q0])
      /\ Len(Tail(msgs[q0])) \in Nat /\ Len(Tail(msgs[q0])) < Len(msgs[q0])
  BY <1>1, <1>2, TailProps
<1>4. \A q \in Run : ToSet(msgs'[q]) \subseteq ToSet(msgs[q]) /\ (msgs'[q] # <<>> => msgs[q] # <<>>)
  BY <1>1, <1>3 DEF LifeInv, TypeOK
<1>5. TypeOK'
  <2>1. msgs' \in [Run -> Seq(Run)]
    BY <1>1, <1>3 DEF LifeInv, TypeOK
  <2>2. \A q \in Run : Len(msgs'[q]) <= MaxQueue
    <3> SUFFICES ASSUME NEW q \in Run PROVE Len(msgs'[q]) <= MaxQueue
      OBVIOUS
    <3>1. Len(msgs[q]) \in Nat /\ Len(msgs[q]) <= MaxQueue
      BY LenIsNat DEF LifeInv, TypeOK
    <3>2. CASE q = q0
      BY <1>1, <1>2, <1>3, <3>1, <3>2, LifecycleAssumption DEF LifeInv, TypeOK
    <3>3. CASE q # q0
      BY <1>1, <3>1, <3>3 DEF LifeInv, TypeOK
    <3> QED
      BY <3>2, <3>3
  <2>3. got' \in [Run -> Run \cup {NULL}]
    BY <1>1, <1>3 DEF LifeInv, TypeOK
  <2>4. /\ agent' \in [Run -> {"none", "receive", "wait", "send", "stuck"}]
        /\ \A q \in Run : agent'[q] # "none" => broadcast_queue'[q] # NULL
    BY <1>1 DEF LifeInv, TypeOK
  <2> QED
    BY <1>1, <2>1, <2>2, <2>3, <2>4 DEF LifeInv, TypeOK
<1>6. PermitOK'
  BY <1>1 DEF LifeInv, TypeOK, PermitOK
<1>7. HasQueueOK'
  <2>1. Head(msgs[q0]) # NULL /\ pc[p] # "new"
    BY <1>1, <1>3, LifecycleAssumption DEF LifeInv, TypeOK, HasQueueOK, Run
  <2> QED
    BY <1>1, <2>1 DEF LifeInv, TypeOK, HasQueueOK
<1>8. CreatedOK'
  BY <1>1, <1>4 DEF LifeInv, CreatedOK, Created
<1>9. SenderOK'
  BY <1>1, <1>4 DEF LifeInv, SenderOK
<1>10. UnlinkedOK'
  BY <1>1, <1>4 DEF LifeInv, TypeOK, UnlinkedOK
<1>11. BeforeOK'
  BY <1>1, <1>4 DEF LifeInv, TypeOK, BeforeOK
<1>12. LeftoversOfCrashes'
  <2> SUFFICES ASSUME NEW r \in Run
               PROVE  ({got'[r]} \cup dispatched[r]) \cap before[r] = {}
    BY <1>1 DEF LeftoversOfCrashes
  <2>1. ({got[r]} \cup dispatched[r]) \cap before[r] = {}
    BY DEF LifeInv, LeftoversOfCrashes
  <2>2. CASE r = p
    <3>1. got'[r] = Head(msgs[q0])
      BY <1>1, <2>2 DEF LifeInv, TypeOK
    <3>2. ToSet(msgs[q0]) \cap before[r] = {}
      BY <1>2, <2>2 DEF LifeInv, BeforeOK, q0
    <3> QED
      BY <1>3, <2>1, <3>1, <3>2
  <2>3. CASE r # p
    BY <1>1, <2>1, <2>3 DEF LifeInv, TypeOK
  <2> QED
    BY <2>2, <2>3
<1> QED
  BY <1>5, <1>6, <1>7, <1>8, <1>9, <1>10, <1>11, <1>12 DEF LifeInv

\* The agent sends to the users what it holds, and posts.
LEMMA DispatchKeeps ==
    ASSUME LifeInv, NEW p \in Run, DispatchAndPost(p)
    PROVE  LifeInv'
<1>1. /\ agent[p] = "send"
      /\ dispatched' = [dispatched EXCEPT ![p] = dispatched[p] \cup {got[p]}]
      /\ got' = [got EXCEPT ![p] = NULL]
      /\ broadcast_sem' = [broadcast_sem EXCEPT ![p] = broadcast_sem[p] + 1]
      /\ agent' = [agent EXCEPT ![p] = "receive"]
      /\ UNCHANGED <<named, msgs, port, time_wait, pc, broadcast_queue, admin, sends,
                     signalled, returned, before>>
  BY DEF DispatchAndPost, kernelVars, clientVars, LifeInv, TypeOK
<1>2. TypeOK'
  <2>1. got[p] \in Run /\ broadcast_queue[p] # NULL /\ broadcast_sem[p] = 0
    BY <1>1 DEF LifeInv, TypeOK, HasQueueOK, PermitOK
  <2>2. dispatched' \in [Run -> SUBSET Run] /\ got' \in [Run -> Run \cup {NULL}]
    BY <1>1, <2>1 DEF LifeInv, TypeOK
  <2>3. broadcast_sem' \in [Run -> 0..1]
    BY <1>1, <2>1 DEF LifeInv, TypeOK
  <2>4. /\ agent' \in [Run -> {"none", "receive", "wait", "send", "stuck"}]
        /\ \A q \in Run : agent'[q] # "none" => broadcast_queue'[q] # NULL
    BY <1>1, <2>1 DEF LifeInv, TypeOK
  <2> QED
    BY <1>1, <2>2, <2>3, <2>4 DEF LifeInv, TypeOK
<1>3. PermitOK'
  BY <1>1 DEF LifeInv, TypeOK, PermitOK
<1>4. HasQueueOK'
  BY <1>1 DEF LifeInv, TypeOK, HasQueueOK
<1>5. CreatedOK' /\ SenderOK' /\ UnlinkedOK' /\ BeforeOK'
  BY <1>1 DEF LifeInv, CreatedOK, Created, SenderOK, UnlinkedOK, BeforeOK
<1>6. LeftoversOfCrashes'
  <2> SUFFICES ASSUME NEW r \in Run
               PROVE  ({got'[r]} \cup dispatched'[r]) \cap before[r] = {}
    BY <1>1 DEF LeftoversOfCrashes
  <2>1. ({got[r]} \cup dispatched[r]) \cap before[r] = {} /\ NULL \notin before[r]
    BY LifecycleAssumption DEF LifeInv, TypeOK, LeftoversOfCrashes, Run
  <2>2. CASE r = p
    <3>1. got'[r] = NULL /\ dispatched'[r] = dispatched[r] \cup {got[r]}
      BY <1>1, <2>2 DEF LifeInv, TypeOK
    <3> QED
      BY <2>1, <3>1
  <2>3. CASE r # p
    BY <1>1, <2>1, <2>3 DEF LifeInv, TypeOK
  <2> QED
    BY <2>2, <2>3
<1> QED
  BY <1>2, <1>3, <1>4, <1>5, <1>6 DEF LifeInv

\* mq_send: a run that serves is not among those that have returned, so its message
\* is of no run that had returned before another one started.
LEMMA SendKeeps ==
    ASSUME LifeInv, NEW p \in Run, Send(p)
    PROVE  LifeInv'
<1> DEFINE q0 == broadcast_queue[p]
<1>1. /\ pc[p] = "accept" /\ sends[p] < MaxSends /\ q0 # NULL /\ Len(msgs[q0]) < MaxQueue
      /\ sends' = [sends EXCEPT ![p] = sends[p] + 1]
      /\ msgs' = [msgs EXCEPT ![q0] = Append(msgs[q0], p)]
      /\ UNCHANGED <<named, port, time_wait, pc, broadcast_queue, agent, got, broadcast_sem,
                     dispatched, admin, signalled, returned, before>>
  BY DEF Send, Serves, agentVars, LifeInv, TypeOK
<1>2. q0 \in Run /\ msgs[q0] \in Seq(Run)
  BY <1>1 DEF LifeInv, TypeOK
<1>3. \A q \in Run : broadcast_queue[p] = q => q = q0
  OBVIOUS
<1>4. p \notin returned /\ pc[p] # "exit"
  BY <1>1 DEF LifeInv, UnlinkedOK
<1>5. Created(q0)
  BY <1>1 DEF LifeInv, CreatedOK
<1>6. \A r \in Run : before[r] \subseteq returned
  BY DEF LifeInv, BeforeOK
<1>7. broadcast_queue[p] = q0
  OBVIOUS
<1> HIDE DEF q0
<1>8. /\ Append(msgs[q0], p) \in Seq(Run) /\ ToSet(Append(msgs[q0], p)) = ToSet(msgs[q0]) \cup {p}
      /\ Len(Append(msgs[q0], p)) = Len(msgs[q0]) + 1
  BY <1>2, AppendProps
<1>9. \A q \in Run : /\ q # q0 => msgs'[q] = msgs[q]
                     /\ \A r \in ToSet(msgs'[q]) : r \in ToSet(msgs[q]) \/ (r = p /\ q = q0)
  <2> SUFFICES ASSUME NEW q \in Run
               PROVE  /\ q # q0 => msgs'[q] = msgs[q]
                      /\ \A r \in ToSet(msgs'[q]) : r \in ToSet(msgs[q]) \/ (r = p /\ q = q0)
    OBVIOUS
  <2>1. CASE q = q0
    <3>1. msgs'[q] = Append(msgs[q0], p)
      BY <1>1, <1>2, <2>1 DEF LifeInv, TypeOK
    <3> QED
      BY <1>8, <2>1, <3>1
  <2>2. CASE q # q0
    BY <1>1, <2>2 DEF LifeInv, TypeOK
  <2> QED
    BY <2>1, <2>2
<1>10. TypeOK'
  <2>1. msgs' \in [Run -> Seq(Run)]
    BY <1>1, <1>8 DEF LifeInv, TypeOK
  <2>2. \A q \in Run : Len(msgs'[q]) <= MaxQueue
    <3> SUFFICES ASSUME NEW q \in Run PROVE Len(msgs'[q]) <= MaxQueue
      OBVIOUS
    <3>1. CASE q = q0
      <4>1. msgs'[q] = Append(msgs[q0], p)
        BY <1>1, <1>2, <3>1 DEF LifeInv, TypeOK
      <4>2. Len(msgs[q0]) \in Nat
        BY <1>2, LenIsNat
      <4> QED
        BY <1>1, <1>8, <4>1, <4>2, LifecycleAssumption
    <3>2. CASE q # q0
      BY <1>9, <3>2 DEF LifeInv, TypeOK
    <3> QED
      BY <3>1, <3>2
  <2>3. sends' \in [Run -> 0..MaxSends]
    BY <1>1, LifecycleAssumption DEF LifeInv, TypeOK
  <2> QED
    BY <1>1, <2>1, <2>2, <2>3 DEF LifeInv, TypeOK
<1>11. PermitOK' /\ HasQueueOK' /\ LeftoversOfCrashes'
  BY <1>1 DEF LifeInv, PermitOK, HasQueueOK, LeftoversOfCrashes
<1>12. CreatedOK'
  BY <1>1, <1>5, <1>9 DEF LifeInv, CreatedOK, Created
<1>13. SenderOK'
  BY <1>1, <1>7, <1>9 DEF LifeInv, SenderOK
<1>14. UnlinkedOK'
  BY <1>1, <1>4, <1>9 DEF LifeInv, TypeOK, UnlinkedOK
<1>15. BeforeOK'
  BY <1>1, <1>4, <1>6, <1>9 DEF LifeInv, TypeOK, BeforeOK
<1> QED
  BY <1>10, <1>11, <1>12, <1>13, <1>14, <1>15 DEF LifeInv

-----------------------------------------------------------------------------
(* The end of a process.                                                   *)

\* Whether main returns, exits, or is killed: a queue with a name or with another
\* process keeps its messages, the others are gone.
LEMMA DieKeeps ==
    ASSUME LifeInv, NEW p \in Run, Die(p),
           returned' = returned \/ (pc[p] = "exit" /\ returned' = returned \cup {p})
    PROVE  LifeInv'
<1>1. /\ pc' = [pc EXCEPT ![p] = "dead"] /\ named' = named
      /\ agent' = [agent EXCEPT ![p] = "none"] /\ got' = [got EXCEPT ![p] = NULL]
      /\ broadcast_queue' = [broadcast_queue EXCEPT ![p] = NULL]
      /\ broadcast_sem' = [broadcast_sem EXCEPT ![p] = 0]
      /\ admin' = [admin EXCEPT ![p] = "idle"] /\ sends' = [sends EXCEPT ![p] = 0]
      /\ before' = [before EXCEPT ![p] = {}]
      /\ dispatched' = [dispatched EXCEPT ![p] = {}]
  BY DEF Die
<1>2. /\ port' \in Run \cup {NULL} /\ time_wait' \in BOOLEAN /\ signalled' \subseteq Run
      /\ returned' \subseteq Run /\ returned \subseteq returned' /\ returned' \subseteq returned \cup {p}
  BY DEF Die, LifeInv, TypeOK
<1>3. /\ msgs' \in [Run -> Seq(Run)]
      /\ \A q \in Run : msgs'[q] \in {msgs[q], <<>>}
  BY EmptyProps DEF LifeInv, TypeOK, Die
<1>4. \A q \in Run : ToSet(msgs'[q]) \subseteq ToSet(msgs[q])
  BY <1>3, EmptyProps
<1>5. TypeOK'
  <2>1. \A q \in Run : Len(msgs'[q]) <= MaxQueue
    BY <1>3, EmptyProps, LifecycleAssumption DEF LifeInv, TypeOK
  <2>2. /\ pc' \in [Run -> {"new", "queue", "agent", "sem", "bind", "accept", "close",
                            "unlink", "exit", "dead"}]
        /\ agent' \in [Run -> {"none", "receive", "wait", "send", "stuck"}]
        /\ admin' \in [Run -> {"idle", "pausing", "paused", "resumed"}]
    BY <1>1 DEF LifeInv, TypeOK
  <2>3. /\ broadcast_sem' \in [Run -> 0..1] /\ sends' \in [Run -> 0..MaxSends]
    BY <1>1, LifecycleAssumption DEF LifeInv, TypeOK
  <2>4. /\ broadcast_queue' \in [Run -> Run \cup {NULL}] /\ got' \in [Run -> Run \cup {NULL}]
        /\ before' \in [Run -> SUBSET Run] /\ dispatched' \in [Run -> SUBSET Run]
    BY <1>1 DEF LifeInv, TypeOK
  <2>5. \A q \in Run : agent'[q] # "none" => broadcast_queue'[q] # NULL
    BY <1>1 DEF LifeInv, TypeOK
  <2> QED
    BY <1>1, <1>2, <1>3, <2>1, <2>2, <2>3, <2>4, <2>5 DEF LifeInv, TypeOK
<1>6. PermitOK'
  BY <1>1 DEF LifeInv, TypeOK, PermitOK
<1>7. HasQueueOK'
  BY <1>1 DEF LifeInv, TypeOK, HasQueueOK
<1>8. CreatedOK'
  <2>1. \A q \in Run : Created(q) => Created(q)'
    BY <1>1 DEF LifeInv, TypeOK, Created
  <2>2. named' # NULL => Created(named)'
    BY <1>1, <2>1 DEF LifeInv, TypeOK, CreatedOK, Created
  <2>3. \A q \in Run : msgs'[q] # <<>> => Created(q)'
    BY <1>3, <2>1 DEF LifeInv, CreatedOK
  <2>4. \A r \in Run : broadcast_queue'[r] # NULL =>
            broadcast_queue'[r] = broadcast_queue[r] /\ broadcast_queue[r] \in Run
    BY <1>1 DEF LifeInv, TypeOK
  <2>5. \A r \in Run : broadcast_queue'[r] # NULL => Created(broadcast_queue[r])'
    BY <2>1, <2>4 DEF LifeInv, CreatedOK, Created
  <2> QED
    BY <2>2, <2>3, <2>5 DEF CreatedOK
<1>9. SenderOK'
  BY <1>1, <1>4 DEF LifeInv, TypeOK, SenderOK
<1>10. UnlinkedOK'
  BY <1>1, <1>4, <1>2 DEF Die, LifeInv, TypeOK, UnlinkedOK
<1>11. BeforeOK'
  <2> SUFFICES ASSUME NEW r \in Run
               PROVE  /\ before'[r] \subseteq returned'
                      /\ broadcast_queue'[r] # NULL =>
                             ToSet(msgs'[broadcast_queue'[r]]) \cap before'[r] = {}
    BY DEF BeforeOK
  <2>1. CASE r = p
    BY <1>1, <2>1 DEF LifeInv, TypeOK
  <2>2. CASE r # p
    BY <1>1, <1>2, <1>4, <2>2 DEF LifeInv, TypeOK, BeforeOK
  <2> QED
    BY <2>1, <2>2
<1>12. LeftoversOfCrashes'
  BY <1>1 DEF LifeInv, TypeOK, LeftoversOfCrashes
<1> QED
  BY <1>5, <1>6, <1>7, <1>8, <1>9, <1>10, <1>11, <1>12 DEF LifeInv

\* exit in connection_handler, without cleanup.
LEMMA ListenFailsKeeps ==
    ASSUME LifeInv, NEW p \in Run, ListenFails(p)
    PROVE  LifeInv'
BY DieKeeps DEF ListenFails

\* A kill in any step.
LEMMA CrashKeeps ==
    ASSUME LifeInv, NEW p \in Run, Crash(p)
    PROVE  LifeInv'
BY DieKeeps DEF Crash

\* The return from main, after mq_close and mq_unlink.
LEMMA ReturnKeeps ==
    ASSUME LifeInv, NEW p \in Run, Return(p)
    PROVE  LifeInv'
BY DieKeeps DEF Return

\* The end of TIME_WAIT, and a step that changes nothing.
LEMMA TimeWaitKeeps ==
    ASSUME LifeInv, TimeWaitEnds \/ UNCHANGED vars
    PROVE  LifeInv'
<1>1. /\ time_wait' \in BOOLEAN
      /\ UNCHANGED <<named, msgs, port, pc, broadcast_queue, agent, got, broadcast_sem,
                     dispatched, admin, sends, signalled, returned, before>>
  BY DEF TimeWaitEnds, vars, kernelVars, agentVars, clientVars, LifeInv, TypeOK
<1>2. TypeOK'
  BY <1>1 DEF LifeInv, TypeOK
<1>3. PermitOK' /\ HasQueueOK' /\ CreatedOK' /\ SenderOK'
  BY <1>1 DEF LifeInv, PermitOK, HasQueueOK, CreatedOK, Created, SenderOK
<1>4. UnlinkedOK' /\ BeforeOK' /\ LeftoversOfCrashes'
  BY <1>1 DEF LifeInv, UnlinkedOK, BeforeOK, LeftoversOfCrashes
<1> QED
  BY <1>2, <1>3, <1>4 DEF LifeInv

-----------------------------------------------------------------------------
(* The theorems.                                                           *)

\* Before the first run there is nothing in the kernel.
LEMMA LifeInit == Init => LifeInv
<1> SUFFICES ASSUME Init PROVE LifeInv
  OBVIOUS
<1>1. TypeOK
  <2>1. /\ msgs \in [Run -> Seq(Run)] /\ \A q \in Run : Len(msgs[q]) <= MaxQueue
    BY EmptyProps, LifecycleAssumption DEF Init
  <2>2. /\ broadcast_sem \in [Run -> 0..1] /\ sends \in [Run -> 0..MaxSends]
    BY LifecycleAssumption DEF Init
  <2> QED
    BY <2>1, <2>2 DEF Init, TypeOK
<1>2. PermitOK /\ HasQueueOK /\ CreatedOK
  BY DEF Init, PermitOK, HasQueueOK, CreatedOK, Created
<1>3. SenderOK /\ UnlinkedOK
  BY EmptyProps DEF Init, SenderOK, UnlinkedOK
<1>4. BeforeOK /\ LeftoversOfCrashes
  BY DEF Init, BeforeOK, LeftoversOfCrashes
<1> QED
  BY <1>1, <1>2, <1>3, <1>4 DEF LifeInv

\* Every step keeps the invariant.
LEMMA LifeStep == LifeInv /\ [Next]_vars => LifeInv'
<1> SUFFICES ASSUME LifeInv, [Next]_vars PROVE LifeInv'
  OBVIOUS
<1>1. ASSUME NEW p \in Run, Startup(p) \/ Main(p) PROVE LifeInv'
  BY <1>1, StartupKeeps, OpenQueueKeeps, StartAgentKeeps, SemInitKeeps, ListenKeeps,
     ListenFailsKeeps, CloseQueueKeeps, UnlinkKeeps, ReturnKeeps DEF Main
<1>2. ASSUME NEW p \in Run, Agent(p) PROVE LifeInv'
  BY <1>2, ReceiveKeeps, SemWaitKeeps, DispatchKeeps DEF Agent
<1>3. ASSUME NEW p \in Run, AcceptFails(p) \/ Signal(p) \/ Crash(p) PROVE LifeInv'
  BY <1>3, AcceptFailsKeeps, SignalKeeps, CrashKeeps
<1>4. ASSUME NEW p \in Run, Send(p) \/ Pause(p) \/ PauseWait(p) \/ Resume(p) PROVE LifeInv'
  BY <1>4, SendKeeps, PauseKeeps, PauseWaitKeeps, ResumeKeeps
<1>5. CASE TimeWaitEnds \/ UNCHANGED vars
  BY <1>5, TimeWaitKeeps
<1> QED
  BY <1>1, <1>2, <1>3, <1>4, <1>5 DEF Next

\* The invariant holds in every state.
LEMMA LifeAlways == Spec => []LifeInv
BY LifeInit, LifeStep, PTL DEF Spec

\* Types; an agent runs only with a queue that its run has open, the queue never holds
\* more than mq_maxmsg, and the semaphore of /pause and /resume is 0 or 1 through
\* starts, crashes and ends in any order.
THEOREM LifecycleTypeCorrect == Spec => []TypeOK
<1>1. LifeInv => TypeOK
  BY DEF LifeInv
<1> QED
  BY <1>1, LifeAlways, PTL

\* What the clients of a server sent never reaches the users of a later one, unless the
\* earlier one crashed, could not bind, or had not returned yet when the later started:
\* application_Shutdown's mq_close and mq_unlink are enough, though mq_unlink removes
\* the name of whoever's queue has it.
THEOREM LeftoversOnlyOfCrashes == Spec => []LeftoversOfCrashes
<1>1. LifeInv => LeftoversOfCrashes
  BY DEF LifeInv
<1> QED
  BY <1>1, LifeAlways, PTL
================================================================================
