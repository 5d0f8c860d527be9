-------------------------------- MODULE Logger --------------------------------
(***************************************************************************)
(* logger.c: any thread logs into one buffer under LogLock and flushes it  *)
(* to the files of the threads that logged; threads are entered in a list  *)
(* of file names without any lock; the handler of SIGINT (application.c)    *)
(* runs on top of a thread, changes the format and logs too; log_shutdown  *)
(* flushes without the lock.                                               *)
(*                                                                         *)
(* A context is a thread, or the handler that interrupts it.  What is      *)
(* printed to the terminal, before the lock, is left out.                  *)
(***************************************************************************)
EXTENDS Integers, Sequences, FiniteSets, SequencesExt

CONSTANTS
    Thread, Main,
    Name, MainName, \* names threads are registered under; that of main
    NameLength,     \* strlen of each name
    NULL,
    MaxBuffered,    \* MAX_BUFFERED_MESSAGES
    BufferLevels,   \* the levels set_buffer_Level is called with
    Level,          \* the log levels threads use
    Started,        \* threads that have logged before they are given a name
    MaxCells,       \* bound: malloc can hand out so many entries
    MaxEvents,      \* bound: so many calls, signals and failures of fopen
    MaxSignals,     \* bound: so many signals among them
    Interruptible   \* bound: the threads the system gives a signal to

\* A thread, or the handler on top of it.
Context == Thread \X {"base", "handler"}
\* What is logged, by whom; a call of log_output, and where its caller goes on.
Line == [id : Nat, thread : Thread]
Restart == {"h_restore", "h_warn", "h_info"}    \* in the handler
Job == [level : 0..5, next : {"idle", "final"} \cup Restart]

ASSUME LoggerAssumption ==
    /\ Main \in Thread /\ Started \subseteq Thread \ {Main} /\ MainName \in Name
    /\ Thread \cap Name = {} /\ NameLength \in [Name -> Nat]
    /\ IsFiniteSet(Started)
    /\ NULL \notin Context /\ NULL \notin Line /\ NULL \notin Job
    /\ MaxBuffered \in Nat /\ MaxBuffered > 1
    /\ BufferLevels \subseteq Int /\ Level \subseteq 0..5
    /\ MaxCells \in Nat \ {0}
    /\ MaxEvents \in Nat /\ MaxSignals \in Nat /\ Interruptible \subseteq Thread

VARIABLES
    LogLock,        \* the context that holds the mutex
    slot, count,    \* Log_Message_Buffer
    log_level_for_buffer,
    cells,          \* the entries malloc gave, oldest first: thread and path
    chain,          \* what firstEntry and the next pointers lead to
    lastEntry,
    file,           \* the lines of each file; none: there is no file
    fmt, backup,    \* m_GeneralLogFormat and its _BACKUP
    pc, job,        \* where each context is, and the call of log_output it is in
    x, path,        \* its loop index or new entry, and its file name
    events,         \* history: for the bound
    logged,         \* history: the lines that got into the buffer, in order
    lost,           \* history: lines of a failed fopen, of a replaced file
    regs,           \* history: who was registered, and as what
    odd,            \* history: what has happened that bears on a promise
    owed,           \* history: what was logged when log_shutdown was called
    down            \* main has returned

bufferVars == <<LogLock, slot, count>>
mapVars == <<cells, chain, lastEntry>>
formatVars == <<fmt, backup>>
ioVars == <<file, lost>>
vars == <<bufferVars, log_level_for_buffer, mapVars, formatVars, ioVars, pc, job,
          x, path, events, odd, logged, regs, owed, down>>

Base(t) == <<t, "base">>
Handler(t) == <<t, "handler">>

\* "./logs/thread_log_<t>.log", and "./logs/<n>.log" with what strncpy leaves of
\* a longer path behind it: the length tells which tail it is.
ThreadLog(t) == <<t, 0>>
NameLog(n) == <<n, NameLength[n]>>
Path == {ThreadLog(t) : t \in Thread} \cup {<<n, NameLength[m]>> : n, m \in Name}

Label == {"idle", "lock", "flush", "create", "append", "final",
          "link", "last", "rename"} \cup Restart

\* A base context stands still while a handler runs on top of it.
Runs(c, label) ==
    /\ ~ down
    /\ pc[c] = label
    /\ c[2] = "base" => pc[Handler(c[1])] = "idle"
Go(c, from, to) == Runs(c, from) /\ pc' = [pc EXCEPT ![c] = to]

Happens(signals) ==
    /\ events.all < MaxEvents /\ events.signals + signals <= MaxSignals
    /\ events' = [all |-> events.all + 1, signals |-> events.signals + signals]
Event == Happens(0)

\* log_init has run: old files are gone and main has its entry; some threads have
\* a file under their number.
Init ==
    /\ LogLock = NULL /\ slot = [i \in 1..MaxBuffered |-> NULL] /\ count = 0
    /\ log_level_for_buffer = 0
    /\ cells = <<[thread |-> Main, path |-> NameLog(MainName)]>>
    /\ chain = <<1>> /\ lastEntry = 1
    /\ logged = SetToSeq({[id |-> 0, thread |-> t] : t \in Started})
    /\ file = [p \in Path |-> IF \E t \in Started : p = ThreadLog(t)
                              THEN <<[id |-> 0, thread |-> p[1]]>> ELSE <<>>]
    /\ fmt = "general" /\ backup = "general"
    /\ pc = [c \in Context |-> "idle"] /\ job = [c \in Context |-> NULL]
    /\ x = [c \in Context |-> 0] /\ path = [c \in Context |-> NULL]
    /\ events = [all |-> 0, signals |-> 0]
    /\ lost = {} /\ regs = {<<Main, MainName>>} /\ odd = {}
    /\ owed = {} /\ down = FALSE

-----------------------------------------------------------------------------
(* log_output and output_Message                                           *)

\* Fatal, Error and Warn have formats of their own.
FormatOf(level) == IF level <= 2 THEN "specific" ELSE fmt

LogCall(c, from, level, next) ==
    /\ Go(c, from, "lock")
    /\ job' = [job EXCEPT ![c] = [level |-> level, next |-> next]]
    /\ UNCHANGED <<bufferVars, log_level_for_buffer, mapVars, ioVars, x, path,
                   logged, regs, down>>

Log(t, level) ==
    /\ Event
    /\ LogCall(Base(t), "idle", level, "idle")
    /\ UNCHANGED <<formatVars, odd, owed>>

MustFlush(n, level) ==
    n >= MaxBuffered - 1 \/ level < 6 - log_level_for_buffer

\* The critical section of output_Message; it is open for long only if it flushes.
Store(c) ==
    /\ Runs(c, "lock")
    /\ LogLock = NULL
    /\ LET line == [id |-> Len(logged) + 1, thread |-> c[1]] IN
       /\ slot' = [slot EXCEPT ![count + 1] = line]
       /\ logged' = Append(logged, line)
    /\ count' = count + 1
    /\ IF MustFlush(count + 1, job[c].level)
       THEN /\ Go(c, "lock", "flush")
            /\ LogLock' = c /\ x' = [x EXCEPT ![c] = 1]
            /\ UNCHANGED job
       ELSE /\ Go(c, "lock", job[c].next)
            /\ job' = [job EXCEPT ![c] = NULL]
            /\ UNCHANGED <<LogLock, x>>
    /\ UNCHANGED <<log_level_for_buffer, mapVars, formatVars, ioVars, path,
                   events, odd, regs, owed, down>>

-----------------------------------------------------------------------------
(* WriteMessagesToFile                                                     *)

\* f_find_Entry: the first entry of t that the list still leads to.
EntriesOf(t) == {i \in DOMAIN chain : cells[chain[i]].thread = t}
IsEntered(t) == EntriesOf(t) # {}
EntryOf(t) == chain[CHOOSE i \in EntriesOf(t) : \A j \in EntriesOf(t) : i <= j]

PathOf(t) == IF IsEntered(t) THEN cells[EntryOf(t)].path ELSE ThreadLog(t)

\* access; the file of a thread without a name is created when it is not there
Probe(c) ==
    /\ Runs(c, "flush") /\ x[c] <= count
    /\ LET t == slot[x[c]].thread IN
       /\ path' = [path EXCEPT ![c] = PathOf(t)]
       /\ Go(c, "flush", IF ~ IsEntered(t) /\ file[ThreadLog(t)] = <<>>
                         THEN "create" ELSE "append")
    /\ UNCHANGED <<bufferVars, log_level_for_buffer, mapVars, formatVars, ioVars, job,
                   x, events, odd, logged, regs, owed, down>>

\* A line that goes to the new name of a thread before its old file is renamed.
EarlyLine(c) ==
    \E t \in Thread : pc[Base(t)] \in {"link", "last", "rename"} /\ path[Base(t)] = path[c]

\* Create_Log_File opens with "w", which empties a file that came to be since; then
\* the file is opened once more, to append the line.
Emptied(c) == IF pc[c] = "create" THEN [file EXCEPT ![path[c]] = <<>>] ELSE file

WriteLine(c) ==
    /\ Runs(c, "create") \/ Runs(c, "append")
    /\ pc' = [pc EXCEPT ![c] = "flush"]
    /\ x' = [x EXCEPT ![c] = @ + 1] /\ path' = [path EXCEPT ![c] = NULL]
    /\ \/ /\ file' = [Emptied(c) EXCEPT ![path[c]] = Append(@, slot[x[c]])]
          /\ odd' = IF EarlyLine(c) THEN odd \cup {"early"} ELSE odd
          /\ lost' = lost \cup (ToSet(file[path[c]]) \ ToSet(file'[path[c]]))
          /\ UNCHANGED events
       \/ /\ Event     \* fopen fails
          /\ file' = Emptied(c)
          /\ odd' = odd \cup {"fail"}
          /\ lost' = lost \cup {slot[x[c]]}
                    \cup (ToSet(file[path[c]]) \ ToSet(file'[path[c]]))
    /\ UNCHANGED <<bufferVars, log_level_for_buffer, mapVars, formatVars, job,
                   logged, regs, owed, down>>

CountKept(c) == count        \* slip: the count is not reset

CountAfter(c) == 0

LockKept(c) == c             \* slip: a return without the unlock

LockAfter(c) == NULL

FlushEnd(c) ==
    /\ Runs(c, "flush") /\ x[c] > count
    /\ job[c] # NULL
    /\ Go(c, "flush", job[c].next)
    /\ count' = CountAfter(c) /\ LogLock' = LockAfter(c)
    /\ job' = [job EXCEPT ![c] = NULL] /\ x' = [x EXCEPT ![c] = 0]
    /\ UNCHANGED <<slot, log_level_for_buffer, mapVars, formatVars, ioVars,
                   path, events, odd, logged, regs, owed, down>>

-----------------------------------------------------------------------------
(* log_shutdown, in main                                                   *)

Shutdown ==
    /\ Event
    /\ LogCall(Base(Main), "idle", 5, "final")
    /\ owed' = ToSet(logged)
    /\ UNCHANGED <<formatVars, odd>>

FinalSkipped(c) ==           \* slip: log_shutdown does not flush
    /\ Go(c, "final", "idle")
    /\ down' = TRUE
    /\ UNCHANGED <<bufferVars, log_level_for_buffer, mapVars, formatVars, ioVars, job,
                   x, path, events, odd, logged, regs, owed>>

\* WriteMessagesToFile once more, without the lock; the count stays, and main
\* returns.
Final(c) ==
    /\ Go(c, "final", "flush")
    /\ x' = [x EXCEPT ![c] = 1]
    /\ odd' = odd \cup {"final"}
    /\ UNCHANGED <<bufferVars, log_level_for_buffer, mapVars, formatVars, ioVars, job,
                   path, events, logged, regs, owed, down>>

FinalEnd(c) ==
    /\ Runs(c, "flush") /\ x[c] > count
    /\ job[c] = NULL
    /\ Go(c, "flush", "idle")
    /\ down' = TRUE
    /\ UNCHANGED <<bufferVars, log_level_for_buffer, mapVars, formatVars, ioVars, job,
                   x, path, events, odd, logged, regs, owed>>

-----------------------------------------------------------------------------
(* register_thread_log_under_Name, set_buffer_Level                        *)

Overwritten(p, n) ==
    <<n, IF NameLength[n] < p[2] THEN p[2] ELSE NameLength[n]>>

\* add_Thread_Name_Mapping up to the point where the list changes
Register(t, n) ==
    LET c == Base(t) IN
    /\ t # Main /\ Event
    /\ path' = [path EXCEPT ![c] = NameLog(n)]
    /\ regs' = regs \cup {<<t, n>>}
    /\ odd' = odd \cup (IF <<t, n>> \in regs THEN {"again"} ELSE {})
                  \cup (IF ~ IsEntered(t) /\ Len(cells) = MaxCells THEN {"memory"} ELSE {})
    /\ \/ /\ IsEntered(t)
          /\ Go(c, "idle", "rename")
          /\ cells' = [cells EXCEPT ![EntryOf(t)].path = Overwritten(@, n)]
          /\ UNCHANGED x
       \/ /\ ~ IsEntered(t) /\ Len(cells) < MaxCells
          /\ Go(c, "idle", "link")
          /\ cells' = Append(cells, [thread |-> t, path |-> NameLog(n)])
          /\ x' = [x EXCEPT ![c] = Len(cells) + 1]
       \/ /\ ~ IsEntered(t) /\ Len(cells) = MaxCells    \* malloc fails
          /\ Go(c, "idle", "rename")
          /\ UNCHANGED <<cells, x>>
    /\ UNCHANGED <<bufferVars, log_level_for_buffer, chain, lastEntry, formatVars, ioVars,
                   job, logged, owed, down>>

\* lastEntry->next = newEntry
Link(t) ==
    LET c == Base(t) IN
    /\ Go(c, "link", "last")
    /\ chain' = IF \E i \in DOMAIN chain : chain[i] = lastEntry
                THEN Append(SubSeq(chain, 1, CHOOSE i \in DOMAIN chain : chain[i] = lastEntry),
                            x[c])
                ELSE chain
    /\ odd' = IF \E u \in Thread : pc[Base(u)] = "last" THEN odd \cup {"race"} ELSE odd
    /\ UNCHANGED <<bufferVars, log_level_for_buffer, cells, lastEntry, formatVars, ioVars,
                   job, x, path, events, logged, regs, owed, down>>

SetLastMissing(t) ==         \* slip: lastEntry stays where it was
    /\ Go(Base(t), "last", "rename")
    /\ UNCHANGED <<bufferVars, log_level_for_buffer, mapVars, formatVars, ioVars,
                   job, x, path, events, odd, logged, regs, owed, down>>

SetLast(t) ==
    /\ Go(Base(t), "last", "rename")
    /\ lastEntry' = x[Base(t)]
    /\ UNCHANGED <<bufferVars, log_level_for_buffer, cells, chain, formatVars, ioVars,
                   job, x, path, events, odd, logged, regs, owed, down>>

\* rename replaces what had the new name.
Rename(t) ==
    LET c == Base(t)
        old == file[ThreadLog(t)]
        replaced == file[path[c]] IN
    /\ Go(c, "rename", "idle")
    /\ IF old = <<>> THEN UNCHANGED <<file, lost>>
       ELSE /\ file' = [file EXCEPT ![path[c]] = old, ![ThreadLog(t)] = <<>>]
            /\ lost' = lost \cup ToSet(replaced)
    /\ x' = [x EXCEPT ![c] = 0] /\ path' = [path EXCEPT ![c] = NULL]
    /\ UNCHANGED <<bufferVars, log_level_for_buffer, mapVars, formatVars,
                   job, events, odd, logged, regs, owed, down>>

SetBufferLevel(n) ==
    \/ /\ n \in 0..4
       /\ Runs(Base(Main), "idle")
       /\ log_level_for_buffer' = n
       /\ UNCHANGED <<bufferVars, mapVars, formatVars, ioVars, pc, job, x, path,
                      events, odd, logged, regs, owed, down>>
    \/ n \notin 0..4 /\ Log(Main, 1)

-----------------------------------------------------------------------------
(* sigint_Handler                                                          *)

Interrupted == \E t \in Thread : pc[Handler(t)] # "idle"

\* The signal goes to main; while main handles one, to another thread.  Then
\* set_Formatting("$C") and the first line.
Signal(t) ==
    LET h == Handler(t) IN
    /\ Happens(1)
    /\ t \in Interruptible
    /\ t = Main \/ pc[Handler(Main)] # "idle"
    /\ odd' = IF Interrupted THEN odd \cup {"overlap"} ELSE odd
    /\ backup' = fmt /\ fmt' = "bare"
    /\ LogCall(h, "idle", 5, "h_restore")
    /\ UNCHANGED owed

FormatKept == fmt            \* slip: no use_Formatting_Backup

FormatAfter == backup

\* use_Formatting_Backup and the separator
HandlerRestore(h) ==
    /\ fmt' = FormatAfter
    /\ LogCall(h, "h_restore", 5, "h_warn")
    /\ UNCHANGED <<backup, events, odd, owed>>

\* "Detected Shutdown signal", "Shutting down SubSystems": others log in between.
HandlerLog(h) ==
    /\ \/ LogCall(h, "h_warn", 2, "h_info")
       \/ LogCall(h, "h_info", 3, "idle")
    /\ UNCHANGED <<formatVars, events, odd, owed>>

-----------------------------------------------------------------------------
Step(c) ==
    \/ Store(c)
    \/ Probe(c) \/ WriteLine(c) \/ FlushEnd(c)
    \/ Final(c) \/ FinalEnd(c)
    \/ HandlerRestore(c) \/ HandlerLog(c)

Naming(t) == Link(t) \/ SetLast(t) \/ Rename(t)

Next ==
    \/ \E c \in Context : Step(c)
    \/ \E t \in Thread :
          \/ \E level \in Level : Log(t, level)
          \/ \E n \in Name : Register(t, n)
          \/ Naming(t)
          \/ Signal(t)
    \/ \E n \in BufferLevels : SetBufferLevel(n)
    \/ Shutdown

\* A thread that is inside the logger goes on when it, or the handler on top of it,
\* can.
Fairness ==
    \A t \in Thread : WF_vars(Step(Base(t)) \/ Step(Handler(t)) \/ Naming(t))

Spec == Init /\ [][Next]_vars
FairSpec == Spec /\ Fairness

-----------------------------------------------------------------------------
(* Properties.                                                             *)

\* Types; and the buffer, whose size nobody checks before writing to it, has
\* room whenever the lock is free (logger.c:344 against :350).
TypeOK ==
    /\ LogLock \in Context \cup {NULL}
    /\ slot \in [1..MaxBuffered -> Line \cup {NULL}]
    /\ count \in 0..MaxBuffered
    /\ LogLock = NULL => count < MaxBuffered
    /\ log_level_for_buffer \in 0..4
    /\ cells \in Seq([thread : Thread, path : Path]) /\ Len(cells) <= MaxCells
    /\ chain \in Seq(DOMAIN cells) /\ lastEntry \in DOMAIN cells
    /\ file \in [Path -> Seq(Line)] /\ logged \in Seq(Line)
    /\ {fmt, backup} \subseteq {"general", "bare"}
    /\ pc \in [Context -> Label] /\ job \in [Context -> Job \cup {NULL}]
    /\ x \in [Context -> Nat]
    /\ path \in [Context -> Path \cup {NULL}]
    /\ lost \subseteq Line /\ owed \subseteq Line
    /\ regs \subseteq Thread \X Name
    /\ odd \subseteq {"early", "race", "overlap", "fail", "final", "memory", "again"}
    /\ down \in BOOLEAN

\* Where a line is.
Places(m) == UNION {{<<p, i>> : i \in {j \in DOMAIN file[p] : file[p][j] = m}} : p \in Path}

\* What of the buffer is not in a file yet.
First == IF LogLock = NULL THEN 1 ELSE x[LogLock]
Pending == {slot[i] : i \in First..count}

Reused == \E r, s \in regs : r[1] # s[1] /\ r[2] = s[2]

\* Until the final flush, which takes no lock, every line that got into the
\* buffer is in it or exactly once in a file, whoever logs, flushes, registers or
\* is interrupted.  Lines disappear only with a failing fopen, or when a thread
\* is registered under a name that was in use before, its own one included, or when
\* a line under its new name is written before its old file is renamed over it.
LinesKept ==
    "final" \notin odd =>
        /\ \A m \in ToSet(logged) \ lost :
              Cardinality(Places(m)) = IF m \in Pending THEN 0 ELSE 1
        /\ lost # {} => odd \cap {"fail", "again", "early"} # {} \/ Reused

\* "write buffered messages to logFile": what was logged when log_shutdown was
\* called is in a file when main has returned, although its flush takes no lock
\* and others may flush, reset the count and refill the buffer meanwhile; but for
\* the lines of a file that fails to open, is replaced or is created twice.
FlushedAtShutdown ==
    down => \A m \in owed \ lost : Places(m) # {}

\* A thread that was registered is found, and if it was registered once its
\* lines go to the file of its name; unless two threads were linking their
\* entries at once, or there was no memory.
EntryFound ==
    \A t \in Thread : \A n \in Name :
        /\ <<t, n>> \in regs
        /\ pc[Base(t)] \notin {"link", "last"}
        /\ odd \cap {"race", "memory"} = {}
        => /\ IsEntered(t)
           /\ (\A r \in regs : r[1] = t => r[2] = n) => PathOf(t) = NameLog(n)

\* What is logged while no handler runs gets its tags and its line end, unless two
\* handlers have run at the same time: there is one backup for both.
FormatRestored ==
    ~ Interrupted /\ "overlap" \notin odd => \A level \in 0..5 : FormatOf(level) # "bare"

\* The handler waits for a lock that the thread under it holds.
SelfBlocked == \E t \in Thread : pc[Handler(t)] = "lock" /\ LogLock = Base(t)

\* When no more calls come, every thread comes out of the logger, unless a signal
\* arrived while its thread held the lock: then nobody logs any more.
LogReturns ==
    <>[]((\A c \in Context : pc[c] = "idle") \/ SelfBlocked \/ down)
=============================================================================
