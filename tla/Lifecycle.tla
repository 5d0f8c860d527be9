------------------------------- MODULE Lifecycle -------------------------------
(***************************************************************************)
(* main.c, application.c, connectionhandler.c and the two ends of          *)
(* broadcastagent.c: how a run of the server starts, serves and ends, and   *)
(* what it leaves in the kernel for the next one: the queue has a name and  *)
(* outlives its process, the port may be in use or in TIME_WAIT.            *)
(*                                                                         *)
(* Runs may overlap: a second server can be started while one is running.   *)
(* Threads of clients are reduced to what they do with the queue.           *)
(***************************************************************************)
EXTENDS Integers, Sequences, FiniteSets, SequencesExt

CONSTANTS
    Runs,           \* bound: so many processes are started
    NULL,
    MaxAlive,       \* bound: so many at a time
    MaxQueue,       \* attr.mq_maxmsg
    MaxSends        \* bound: messages of the clients of one run

ASSUME LifecycleAssumption ==
    /\ Runs \in Nat /\ MaxAlive \in Nat /\ NULL \notin 1..Runs /\ MaxQueue \in Nat \ {0} /\ MaxSends \in Nat

Run == 1..Runs      \* numbered in the order in which they are started

VARIABLES
    named,          \* the queue that has the name queue_name; a queue is known
                    \* by the run that created it
    msgs,           \* what is in each queue: the runs whose clients sent it
    port,           \* the run that is bound to port 8111
    time_wait,      \* 8111 is in TIME_WAIT
    pc,             \* where main is
    broadcast_queue,
    agent, got,     \* where the agent is, and the message it holds
    broadcast_sem,
    admin,          \* the call of the admin's thread
    sends,          \* history: for the bound
    signalled,      \* history: SIGINT came
    returned,       \* history: runs whose main has returned
    before,         \* history: those when a run started
    dispatched      \* history: whose messages an agent has sent to the users

kernelVars == <<named, msgs, port, time_wait>>
agentVars == <<agent, got, broadcast_sem, dispatched>>
clientVars == <<admin, sends>>
vars == <<kernelVars, pc, broadcast_queue, agentVars, clientVars,
          signalled, returned, before>>

Alive(p) == pc[p] \notin {"new", "dead"}
Serves(p) == pc[p] = "accept"
Go(p, from, to) == pc[p] = from /\ pc' = [pc EXCEPT ![p] = to]

Init ==
    /\ named = NULL /\ msgs = [q \in Run |-> <<>>] /\ port = NULL /\ time_wait = FALSE
    /\ pc = [p \in Run |-> "new"] /\ broadcast_queue = [p \in Run |-> NULL]
    /\ agent = [p \in Run |-> "none"] /\ got = [p \in Run |-> NULL]
    /\ broadcast_sem = [p \in Run |-> 0]
    /\ admin = [p \in Run |-> "idle"] /\ sends = [p \in Run |-> 0]
    /\ signalled = {} /\ returned = {}
    /\ before = [p \in Run |-> {}] /\ dispatched = [p \in Run |-> {}]

\* The end of a process: threads stop, descriptors are closed, the port is given
\* back, what it had in its memory is gone; so is a queue without a name and
\* without a process.
Die(p) ==
    /\ pc' = [pc EXCEPT ![p] = "dead"]
    /\ agent' = [agent EXCEPT ![p] = "none"] /\ got' = [got EXCEPT ![p] = NULL]
    /\ broadcast_queue' = [broadcast_queue EXCEPT ![p] = NULL]
    /\ broadcast_sem' = [broadcast_sem EXCEPT ![p] = 0]
    /\ admin' = [admin EXCEPT ![p] = "idle"] /\ sends' = [sends EXCEPT ![p] = 0]
    /\ before' = [before EXCEPT ![p] = {}] /\ dispatched' = [dispatched EXCEPT ![p] = {}]
    /\ signalled' = signalled \ {p}
    /\ msgs' = [q \in Run |->
                    IF q = named \/ \E r \in Run \ {p} : broadcast_queue[r] = q
                    THEN msgs[q] ELSE <<>>]
    /\ IF port = p THEN port' = NULL /\ time_wait' \in BOOLEAN ELSE UNCHANGED <<port, time_wait>>
    /\ UNCHANGED named

-----------------------------------------------------------------------------
(* application_Startup                                                     *)

\* log_init and the options; --help or an invalid option ends the run here.
Startup(p) ==
    /\ \A q \in 1..(p - 1) : pc[q] # "new"
    /\ Cardinality({q \in Run : Alive(q)}) < MaxAlive
    /\ \E next \in {"queue", "dead"} : Go(p, "new", next)
    /\ before' = [before EXCEPT ![p] = returned]
    /\ UNCHANGED <<kernelVars, broadcast_queue, agentVars, clientVars, signalled, returned>>

\* mq_open with O_CREAT takes the queue that has the name.  The result of
\* broadcast_agent_init is ignored: without a queue the server starts too.
OpenQueue(p) ==
    /\ \/ /\ Go(p, "queue", "agent")
          /\ named' = IF named = NULL THEN p ELSE named
          /\ broadcast_queue' = [broadcast_queue EXCEPT ![p] = named']
       \/ /\ Go(p, "queue", "bind")
          /\ UNCHANGED <<named, broadcast_queue>>
    /\ UNCHANGED <<msgs, port, time_wait, agentVars, clientVars, signalled, returned, before>>

StartAgent(p) ==
    /\ \/ /\ Go(p, "agent", "sem")
          /\ agent' = [agent EXCEPT ![p] = "receive"]
       \/ /\ Go(p, "agent", "bind")      \* pthread_create fails
          /\ UNCHANGED agent
    /\ UNCHANGED <<kernelVars, broadcast_queue, got, broadcast_sem, dispatched,
                   clientVars, signalled, returned, before>>

\* sem_init after the agent was started: if the agent is in sem_wait by now, it
\* may see the new value or sleep for good.
SemInit(p) ==
    /\ Go(p, "sem", "bind")
    /\ broadcast_sem' = [broadcast_sem EXCEPT ![p] = 1]
    /\ \/ UNCHANGED agent
       \/ agent[p] = "wait" /\ agent' = [agent EXCEPT ![p] = "stuck"]
    /\ UNCHANGED <<kernelVars, broadcast_queue, got, dispatched, clientVars,
                   signalled, returned, before>>

-----------------------------------------------------------------------------
(* connection_handler                                                      *)

\* socket, bind and listen, always on 8111.
Listen(p) ==
    /\ port = NULL /\ ~ time_wait
    /\ Go(p, "bind", "accept")
    /\ port' = p
    /\ UNCHANGED <<named, msgs, time_wait, broadcast_queue, agentVars, clientVars,
                   signalled, returned, before>>

\* One of them fails, bind whenever the port is taken: exit, without cleanup.
ListenFails(p) ==
    /\ pc[p] = "bind"
    /\ Die(p)
    /\ UNCHANGED returned

AcceptFails(p) ==
    /\ Go(p, "accept", "close")
    /\ UNCHANGED <<kernelVars, broadcast_queue, agentVars, clientVars,
                   signalled, returned, before>>

\* sigint_Handler; what it does to the logger is in the module Logger.  It closes
\* sock_server, which nobody has set, and accept and mq_receive are restarted.
Signal(p) ==
    /\ Serves(p) /\ signalled = {}    \* bound: one run at a time
    /\ signalled' = signalled \cup {p}
    /\ UNCHANGED <<kernelVars, pc, broadcast_queue, agentVars, clientVars, returned, before>>

-----------------------------------------------------------------------------
(* application_Shutdown and main                                           *)

\* mq_close fails if there is no queue; then the name is not removed either.
\* The agent may still be in a call to mq_receive.
CloseQueue(p) ==
    /\ Go(p, "close", IF broadcast_queue[p] = NULL THEN "exit" ELSE "unlink")
    /\ UNCHANGED <<kernelVars, broadcast_queue, agentVars, clientVars,
                   signalled, returned, before>>

UnlinkMissing(p) ==          \* slip: the queue is closed only
    /\ Go(p, "unlink", "exit")
    /\ UNCHANGED <<kernelVars, broadcast_queue, agentVars, clientVars,
                   signalled, returned, before>>

\* mq_unlink: the name, whoever's queue has it
Unlink(p) ==
    /\ Go(p, "unlink", "exit")
    /\ named' = NULL
    /\ msgs' = [q \in Run |-> IF \E r \in Run : broadcast_queue[r] = q THEN msgs[q] ELSE <<>>]
    /\ UNCHANGED <<port, time_wait, broadcast_queue, agentVars, clientVars, signalled, returned, before>>

Return(p) ==
    /\ pc[p] = "exit"
    /\ Die(p)
    /\ returned' = returned \cup {p}

-----------------------------------------------------------------------------
(* The agent and the clients                                               *)

Receive(p) ==
    /\ agent[p] = "receive" /\ msgs[broadcast_queue[p]] # <<>>
    /\ got' = [got EXCEPT ![p] = Head(msgs[broadcast_queue[p]])]
    /\ msgs' = [msgs EXCEPT ![broadcast_queue[p]] = Tail(@)]
    /\ agent' = [agent EXCEPT ![p] = "wait"]
    /\ UNCHANGED <<named, port, time_wait, pc, broadcast_queue, broadcast_sem, dispatched, clientVars,
                   signalled, returned, before>>

SemWait(p) ==
    /\ agent[p] = "wait" /\ broadcast_sem[p] > 0
    /\ broadcast_sem' = [broadcast_sem EXCEPT ![p] = @ - 1]
    /\ agent' = [agent EXCEPT ![p] = "send"]
    /\ UNCHANGED <<kernelVars, pc, broadcast_queue, got, dispatched, clientVars,
                   signalled, returned, before>>

PostMissing(p) ==            \* slip: the semaphore is not given back
    /\ agent[p] = "send"
    /\ dispatched' = [dispatched EXCEPT ![p] = @ \cup {got[p]}]
    /\ got' = [got EXCEPT ![p] = NULL]
    /\ agent' = [agent EXCEPT ![p] = "receive"]
    /\ UNCHANGED <<kernelVars, pc, broadcast_queue, broadcast_sem, clientVars,
                   signalled, returned, before>>

DispatchAndPost(p) ==
    /\ agent[p] = "send"
    /\ dispatched' = [dispatched EXCEPT ![p] = @ \cup {got[p]}]
    /\ got' = [got EXCEPT ![p] = NULL]
    /\ broadcast_sem' = [broadcast_sem EXCEPT ![p] = @ + 1]
    /\ agent' = [agent EXCEPT ![p] = "receive"]
    /\ UNCHANGED <<kernelVars, pc, broadcast_queue, clientVars, signalled, returned, before>>

\* A client's message; without a queue mq_send fails.
Send(p) ==
    /\ Serves(p) /\ sends[p] < MaxSends
    /\ broadcast_queue[p] # NULL /\ Len(msgs[broadcast_queue[p]]) < MaxQueue
    /\ sends' = [sends EXCEPT ![p] = @ + 1]
    /\ msgs' = [msgs EXCEPT ![broadcast_queue[p]] = Append(@, p)]
    /\ UNCHANGED <<named, port, time_wait, pc, broadcast_queue, agentVars, admin,
                   signalled, returned, before>>

AdminGoes(p, from, to, change) ==
    /\ Serves(p) /\ admin[p] = from
    /\ broadcast_sem[p] + change >= 0
    /\ admin' = [admin EXCEPT ![p] = to]
    /\ broadcast_sem' = [broadcast_sem EXCEPT ![p] = @ + change]
    /\ UNCHANGED <<kernelVars, pc, broadcast_queue, agent, got, dispatched, sends,
                   signalled, returned, before>>

ResumeUnpaused(p) ==         \* slip: no check for a pause
    AdminGoes(p, "idle", "resumed", 1)

Pause(p) == AdminGoes(p, "idle", "pausing", 0)
PauseWait(p) == AdminGoes(p, "pausing", "paused", -1)
Resume(p) == AdminGoes(p, "paused", "resumed", 1)   \* bound: once in a run

-----------------------------------------------------------------------------
\* A kill, or an undefined step that ends the process
Crash(p) ==
    /\ Alive(p)
    /\ Die(p)
    /\ UNCHANGED returned

TimeWaitEnds ==
    /\ time_wait /\ time_wait' = FALSE
    /\ UNCHANGED <<named, msgs, port, pc, broadcast_queue, agentVars, clientVars,
                   signalled, returned, before>>

Main(p) ==
    \/ OpenQueue(p) \/ StartAgent(p) \/ SemInit(p)
    \/ Listen(p) \/ ListenFails(p)
    \/ CloseQueue(p) \/ Unlink(p) \/ Return(p)

Agent(p) == Receive(p) \/ SemWait(p) \/ DispatchAndPost(p)

Next ==
    \/ \E p \in Run :
          \/ Startup(p) \/ Main(p) \/ Agent(p)
          \/ AcceptFails(p) \/ Signal(p) \/ Crash(p)
          \/ Send(p) \/ Pause(p) \/ PauseWait(p) \/ Resume(p)
    \/ TimeWaitEnds

\* Threads that can go on do.  Nothing is owed by clients, the admin, a failing
\* accept, a signal or a crash.
Fairness == \A p \in Run : WF_vars(Main(p)) /\ WF_vars(Agent(p)) /\ WF_vars(PauseWait(p))

Spec == Init /\ [][Next]_vars
FairSpec == Spec /\ Fairness

-----------------------------------------------------------------------------
(* Properties.                                                             *)

\* Types; a run has an agent only with a queue, and the semaphore is 0 or 1.
TypeOK ==
    /\ named \in Run \cup {NULL}
    /\ msgs \in [Run -> Seq(Run)] /\ \A q \in Run : Len(msgs[q]) <= MaxQueue
    /\ port \in Run \cup {NULL} /\ time_wait \in BOOLEAN
    /\ pc \in [Run -> {"new", "queue", "agent", "sem", "bind", "accept", "close",
                       "unlink", "exit", "dead"}]
    /\ broadcast_queue \in [Run -> Run \cup {NULL}]
    /\ agent \in [Run -> {"none", "receive", "wait", "send", "stuck"}]
    /\ got \in [Run -> Run \cup {NULL}]
    /\ broadcast_sem \in [Run -> 0..1]
    /\ admin \in [Run -> {"idle", "pausing", "paused", "resumed"}]
    /\ sends \in [Run -> 0..MaxSends]
    /\ signalled \subseteq Run /\ returned \subseteq Run
    /\ before \in [Run -> SUBSET Run] /\ dispatched \in [Run -> SUBSET Run]
    /\ \A p \in Run : agent[p] # "none" => broadcast_queue[p] # NULL

\* The users of a run are sent the messages of an earlier one only if that one did
\* not come to the end of main (it crashed, or could not bind), or had not when this
\* one started; and only such a message can leave an agent asleep for good in a
\* semaphore that was not initialised yet (broadcastagent.c:70, :74).
LeftoversOfCrashes ==
    \A p \in Run : ({got[p]} \cup dispatched[p]) \cap before[p] = {}

InQueue(p) == \E q \in Run : broadcast_queue[p] = q /\ p \in ToSet(msgs[q])

\* What the clients of a server send leaves the queue and the hands of its agent,
\* unless the chat is paused, or the agent could not be started or fell asleep
\* before sem_init.
Served ==
    <>[](\A p \in Run :
            InQueue(p) \/ got[p] = p
            => ~ Serves(p) \/ admin[p] = "paused" \/ agent[p] \in {"none", "stuck"})

\* pause_broadcast comes back, unless broadcast_agent_init gave up before sem_init,
\* which nobody notices (application.c:124).
PauseReturns ==
    <>[](\A p \in Run : Serves(p) /\ admin[p] = "pausing" => agent[p] = "none")

\* "Handle Ctrl+C gracefully", "Shutting down SubSystems" (application.c:214, :224):
\* a run that got SIGINT ends.
InterruptEnds ==
    \A p \in Run : p \in signalled ~> pc[p] = "dead"
=============================================================================
