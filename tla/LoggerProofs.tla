----------------------------- MODULE LoggerProofs -----------------------------
(***************************************************************************)
(* Proofs about Logger: what is promised of the lines, the files, the      *)
(* entries and the format, for any number of threads, names, messages in   *)
(* the buffer, calls, signals and failures of fopen.                       *)
(***************************************************************************)
EXTENDS Logger, SequenceTheorems, FiniteSetTheorems, WellFoundedInduction, TLAPS

\* Labels are told apart all over the proofs.
USE DEF Restart

-----------------------------------------------------------------------------
(* The inductive invariant.                                                *)

Flushing == {"flush", "create", "append"}
Registering == {"link", "last", "rename"}

\* Where a context is: inside the buffer only with the lock, but for main in the
\* last flush; and a call of log_output goes on where its caller left.
ContextOK(c) ==
    /\ LogLock = c <=> pc[c] \in Flushing /\ job[c] # NULL
    /\ pc[c] = "lock" => job[c] # NULL
    /\ pc[c] \notin Flushing \cup {"lock"} => job[c] = NULL
    /\ job[c] # NULL => job[c].next \in {"idle", "final"} \cup Restart
    /\ pc[c] \in Flushing /\ job[c] = NULL => c = Base(Main) /\ "final" \in odd
    /\ pc[c] = "final" \/ (job[c] # NULL /\ job[c].next = "final") => c = Base(Main)
    /\ pc[c] \in Restart \/ (job[c] # NULL /\ job[c].next \in Restart) => c[2] = "handler"
    /\ pc[c] \in Registering => c[2] = "base"
ControlOK == \A c \in Context : ContextOK(c)

\* What is read from the buffer has been written to it.
ReadsOK(c) ==
    /\ pc[c] \in Flushing => x[c] >= 1
    /\ pc[c] \in {"create", "append"} => x[c] \in 1..MaxBuffered /\ slot[x[c]] \in Line
    /\ pc[c] \in Registering \cup {"create", "append"} => path[c] \in Path
    /\ pc[c] \in {"link", "last"} => x[c] \in DOMAIN cells
BufferOK ==
    /\ \A i \in 1..count : slot[i] \in Line
    /\ \A c \in Context : ReadsOK(c)

\* One handler at most has the format changed, and the backup is not its own.
Restores(t) ==
    LET h == Handler(t) IN
    pc[h] = "h_restore" \/ (job[h] # NULL /\ job[h].next = "h_restore")
FormatOK ==
    "overlap" \notin odd =>
        /\ backup = "general"
        /\ \A t, u \in Thread : pc[Handler(t)] # "idle" /\ pc[Handler(u)] # "idle" => t = u
        /\ fmt = "bare" => \E t \in Thread : Restores(t)

\* The path of an entry is that of a name its thread was registered under.
CellsOK ==
    \A i \in DOMAIN cells :
        /\ <<cells[i].thread, cells[i].path[1]>> \in regs
        /\ \A n \in Name : (\A r \in regs : r[1] = cells[i].thread => r[2] = n) =>
              cells[i].path = NameLog(n)

\* The list leads to each entry once, but for those still to be linked.
InList(k) == \E i \in DOMAIN chain : chain[i] = k
Linked ==
    /\ Len(chain) > 0
    /\ \A i, j \in DOMAIN chain : chain[i] = chain[j] => i = j
    /\ \A i, j \in DOMAIN cells : cells[i].thread = cells[j].thread => i = j
    /\ \A k \in DOMAIN cells : InList(k) <=> pc[Base(cells[k].thread)] # "link"
    /\ \A t \in Thread : pc[Base(t)] \in {"link", "last"} => cells[x[Base(t)]].thread = t
    /\ \A t, u \in Thread : pc[Base(t)] = "last" /\ pc[Base(u)] = "last" => t = u
    /\ \A t \in Thread : pc[Base(t)] = "last" => chain[Len(chain)] = x[Base(t)]
    /\ (\A t \in Thread : pc[Base(t)] # "last") => chain[Len(chain)] = lastEntry
ListOK == "race" \notin odd => Linked
EntriesOK ==
    "memory" \notin odd =>
        \A r \in regs : \E k \in DOMAIN cells : cells[k].thread = r[1]

\* A line that is seen anywhere has been logged, with an id of its own.
LoggedOK ==
    /\ \A m \in ToSet(logged) : m.id <= Len(logged)
    /\ \A i \in 1..MaxBuffered : slot[i] # NULL => slot[i] \in ToSet(logged)
    /\ \A p \in Path : \A i \in DOMAIN file[p] : file[p][i] \in ToSet(logged)

InFile(m) == \E p \in Path : \E i \in DOMAIN file[p] : file[p][i] = m

\* A line is in one place only.
OnceOK ==
    "final" \notin odd =>
        /\ \A p, q \in Path : \A i \in DOMAIN file[p], j \in DOMAIN file[q] :
              file[p][i] = file[q][j] => p = q /\ i = j
        /\ \A i, j \in 1..count : slot[i] = slot[j] => i = j
        /\ \A i \in First..count : ~ InFile(slot[i])
        /\ \A c \in Context : pc[c] \in {"create", "append"} => x[c] <= count

\* A line is somewhere; what the last flush owes, it has still before it.
LastFlush == pc[Base(Main)] \in Flushing /\ job[Base(Main)] = NULL
KeptOK ==
    /\ \A m \in ToSet(logged) \ lost : InFile(m) \/ m \in Pending
    /\ owed \subseteq ToSet(logged)
    /\ LastFlush => \A m \in owed \ lost :
          InFile(m) \/ \E i \in First..count : slot[i] = m /\ i >= x[Base(Main)]
    /\ down => \A m \in owed \ lost : InFile(m)

\* Only the file of a thread, or of a name that was registered, is written.
InUse(p) == (\E t \in Thread : p = ThreadLog(t)) \/ \E r \in regs : r[2] = p[1]
PathsOK ==
    /\ \A c \in Context : pc[c] \in {"create", "append"} => InUse(path[c])
    /\ \A p \in Path : file[p] # <<>> => InUse(p)
    /\ \A t \in Thread : pc[Base(t)] \in Registering =>
          \E n \in Name : path[Base(t)] = NameLog(n) /\ <<t, n>> \in regs
    /\ \A c \in Context : pc[c] = "create" => \E t \in Thread : path[c] = ThreadLog(t)

\* No file is emptied that has lines in it, or replaced by another one.
LossOK ==
    /\ "final" \notin odd =>
          \A c \in Context : pc[c] = "create" => file[path[c]] = <<>>
    /\ odd \cap {"final", "fail", "again", "early"} = {} /\ ~ Reused =>
          /\ lost = {}
          /\ \A t \in Thread : pc[Base(t)] \in Registering => file[path[Base(t)]] = <<>>

LoggerInv ==
    /\ TypeOK /\ ControlOK /\ BufferOK /\ FormatOK
    /\ CellsOK /\ ListOK /\ EntriesOK
    /\ LoggedOK /\ OnceOK /\ KeptOK /\ PathsOK /\ LossOK
-----------------------------------------------------------------------------
(* Numbers, contexts and paths.                                            *)

\* Every set of numbers that is not empty has a smallest one.
LEMMA Smallest ==
    ASSUME NEW E \in SUBSET Nat, E # {}
    PROVE  \E i \in E : \A j \in E : i <= j
<1> DEFINE Less == {ss \in Nat \X Nat : ss[1] < ss[2]}
<1>1. IsWellFoundedOn(Less, Nat)
  BY NatLessThanWellFounded, Zenon DEF OpToRel
<1>2. PICK i \in E : \A j \in E : ~ (<<j, i>> \in Less)
  BY <1>1, WFMin
<1>3. \A j \in E : ~ (j < i)
  BY <1>2
<1> QED
  BY <1>3

LEMMA Contexts ==
    /\ NULL \notin Context
    /\ \A t \in Thread : Base(t) \in Context /\ Handler(t) \in Context
    /\ \A t \in Thread : Base(t)[1] = t /\ Handler(t)[1] = t
    /\ \A t \in Thread : Base(t)[2] = "base" /\ Handler(t)[2] = "handler"
    /\ \A t, u : (Base(t) = Base(u) => t = u) /\ (Handler(t) = Handler(u) => t = u)
    /\ \A t, u : Base(t) # Handler(u)
    /\ \A c \in Context : /\ c[1] \in Thread /\ c[2] \in {"base", "handler"}
                          /\ c[2] = "base" => c = Base(c[1])
                          /\ c[2] = "handler" => c = Handler(c[1])
    /\ Main \in Thread
BY LoggerAssumption DEF Context, Base, Handler

\* The paths there are, and which of them are one.
LEMMA Paths ==
    /\ \A t \in Thread : ThreadLog(t) \in Path
    /\ \A n \in Name : NameLog(n) \in Path /\ NameLog(n)[1] = n
    /\ \A t \in Thread, n \in Name : ThreadLog(t) # NameLog(n)
    /\ \A n, m \in Name : NameLog(n) = NameLog(m) => n = m
    /\ \A t, u \in Thread : ThreadLog(t) = ThreadLog(u) => t = u
    /\ \A p \in Path, n \in Name : Overwritten(p, n) \in Path /\ Overwritten(p, n)[1] = n
    /\ \A n \in Name : Overwritten(NameLog(n), n) = NameLog(n)
    /\ \A t \in Thread : ThreadLog(t)[1] = t
    /\ \A n \in Name : n \notin Thread
<1>1. Thread \cap Name = {} /\ \A n \in Name : NameLength[n] \in Nat
  BY LoggerAssumption
<1>2. \A p \in Path, n \in Name : Overwritten(p, n) \in Path /\ Overwritten(p, n)[1] = n
  <2> SUFFICES ASSUME NEW p \in Path, NEW n \in Name
               PROVE  Overwritten(p, n) \in Path /\ Overwritten(p, n)[1] = n
    OBVIOUS
  <2>1. CASE NameLength[n] < p[2]
    <3>1. Overwritten(p, n) = <<n, p[2]>>
      BY <2>1 DEF Overwritten
    <3>2. CASE \E t \in Thread : p = ThreadLog(t)
      BY <1>1, <2>1, <3>2 DEF ThreadLog
    <3>3. ASSUME NEW k \in Name, NEW m \in Name, p = <<k, NameLength[m]>>
          PROVE  Overwritten(p, n) \in Path
      BY <3>1, <3>3 DEF Path
    <3> QED
      BY <3>1, <3>2, <3>3 DEF Path
  <2>2. CASE ~ (NameLength[n] < p[2])
    BY <2>2 DEF Overwritten, Path
  <2> QED
    BY <2>1, <2>2
<1>3. \A n \in Name : Overwritten(NameLog(n), n) = NameLog(n)
  BY <1>1 DEF Overwritten, NameLog
<1> QED
  BY <1>1, <1>2, <1>3 DEF ThreadLog, NameLog, Path

LEMMA ListTypes ==
    ASSUME TypeOK
    PROVE  /\ DOMAIN chain = 1..Len(chain) /\ Len(chain) \in Nat
           /\ \A i \in DOMAIN chain : chain[i] \in DOMAIN cells
           /\ DOMAIN cells = 1..Len(cells) /\ Len(cells) \in Nat
           /\ \A k \in DOMAIN cells : /\ cells[k] \in [thread : Thread, path : Path]
                                      /\ cells[k].thread \in Thread /\ cells[k].path \in Path
           /\ \A p \in Path : /\ file[p] \in Seq(Line) /\ Len(file[p]) \in Nat
                              /\ DOMAIN file[p] = 1..Len(file[p])
                              /\ \A i \in DOMAIN file[p] : file[p][i] \in Line
<1>1. chain \in Seq(DOMAIN cells) /\ cells \in Seq([thread : Thread, path : Path])
  BY DEF TypeOK
<1>2. /\ DOMAIN chain = 1..Len(chain) /\ Len(chain) \in Nat
      /\ \A i \in DOMAIN chain : chain[i] \in DOMAIN cells
  BY <1>1, LenProperties, ElementOfSeq
<1>3. /\ DOMAIN cells = 1..Len(cells) /\ Len(cells) \in Nat
      /\ \A k \in DOMAIN cells : cells[k] \in [thread : Thread, path : Path]
  BY <1>1, LenProperties, ElementOfSeq
<1>4. \A k \in DOMAIN cells : cells[k].thread \in Thread /\ cells[k].path \in Path
  BY <1>3
<1>5. ASSUME NEW p \in Path
      PROVE  /\ file[p] \in Seq(Line) /\ Len(file[p]) \in Nat
             /\ DOMAIN file[p] = 1..Len(file[p])
             /\ \A i \in DOMAIN file[p] : file[p][i] \in Line
  <2>1. file[p] \in Seq(Line)
    BY DEF TypeOK
  <2> QED
    BY <2>1, LenProperties, ElementOfSeq
<1> QED
  BY <1>2, <1>3, <1>4, <1>5

\* f_find_Entry finds an entry of the thread, which the list leads to.
LEMMA EntryFacts ==
    ASSUME TypeOK, NEW t \in Thread
    PROVE  /\ IsEntered(t) =>
                 /\ EntryOf(t) \in DOMAIN cells /\ cells[EntryOf(t)].thread = t
                 /\ \E i \in DOMAIN chain : chain[i] = EntryOf(t)
           /\ PathOf(t) \in Path
<1>1. /\ DOMAIN chain = 1..Len(chain) /\ Len(chain) \in Nat
      /\ \A i \in DOMAIN chain : chain[i] \in DOMAIN cells
      /\ \A k \in DOMAIN cells : cells[k].path \in Path
  BY ListTypes
<1>2. ASSUME IsEntered(t)
      PROVE  /\ EntryOf(t) \in DOMAIN cells /\ cells[EntryOf(t)].thread = t
             /\ \E i \in DOMAIN chain : chain[i] = EntryOf(t)
  <2>1. EntriesOf(t) \in SUBSET Nat /\ EntriesOf(t) # {}
    BY <1>1, <1>2 DEF EntriesOf, IsEntered
  <2>2. \E i \in EntriesOf(t) : \A j \in EntriesOf(t) : i <= j
    BY <2>1, Smallest
  <2>3. PICK i \in EntriesOf(t) : EntryOf(t) = chain[i]
    BY <2>2 DEF EntryOf
  <2> QED
    BY <1>1, <2>3 DEF EntriesOf
<1> QED
  BY <1>1, <1>2, Paths DEF PathOf

-----------------------------------------------------------------------------
(* The steps: every call of log_output does the same to the logger.        *)

\* Context c calls log_output; it goes on at next.
Calling(c, level, next) ==
    /\ pc[c] \in {"idle"} \cup Restart /\ ~ down
    /\ level \in 0..5
    /\ \/ next = "idle"
       \/ next = "final" /\ c = Base(Main)
       \/ next \in Restart /\ (c[2] = "handler" \/ pc[c] \in Restart)
    /\ pc' = [pc EXCEPT ![c] = "lock"]
    /\ job' = [job EXCEPT ![c] = [level |-> level, next |-> next]]
    /\ UNCHANGED <<bufferVars, log_level_for_buffer, mapVars, ioVars, x, path,
                   logged, regs, down>>
    /\ owed' = owed \/ (owed' = ToSet(logged) /\ c = Base(Main) /\ pc[c] = "idle")
    /\ odd' = odd \/ odd' = odd \cup {"overlap"}
    /\ fmt' \in {fmt, backup, "bare"} /\ backup' \in {fmt, backup}
Call(c) == \E level, next : Calling(c, level, next)

\* set_buffer_Level with a level there is.
LevelSet ==
    /\ log_level_for_buffer' \in 0..4
    /\ UNCHANGED <<bufferVars, mapVars, formatVars, ioVars, pc, job, x, path,
                   events, odd, logged, regs, owed, down>>

LEMMA LogIsCall == \A t \in Thread : \A level \in 0..5 : Log(t, level) => Call(Base(t))
BY DEF Log, LogCall, Go, Runs, Call, Calling, formatVars

LEMMA Calls ==
    /\ \A t \in Thread : \A level \in Level : Log(t, level) => Call(Base(t))
    /\ \A t \in Thread : Signal(t) => Call(Handler(t))
    /\ \A h \in Context : HandlerRestore(h) \/ HandlerLog(h) => Call(h)
    /\ \A n \in BufferLevels : SetBufferLevel(n) => LevelSet \/ Call(Base(Main))
    /\ Shutdown => Call(Base(Main))
<1>1. \A t \in Thread : \A level \in Level : Log(t, level) => Call(Base(t))
  BY LogIsCall, LoggerAssumption
<1>2. ASSUME NEW t \in Thread, Signal(t) PROVE Calling(Handler(t), 5, "h_restore")
  <2>1. Handler(t)[2] = "handler" /\ odd' \in {odd, odd \cup {"overlap"}} /\ fmt' = "bare" /\ backup' = fmt
    BY <1>2, Contexts DEF Signal
  <2>2. LogCall(Handler(t), "idle", 5, "h_restore") /\ owed' = owed
    BY <1>2 DEF Signal
  <2> QED
    BY <2>1, <2>2 DEF LogCall, Go, Runs, Calling
<1>3. ASSUME NEW h \in Context, HandlerRestore(h) \/ HandlerLog(h) PROVE Call(h)
  <2> SUFFICES ASSUME NEW level \in {5, 2, 3}, NEW from \in Restart,
                      NEW next \in {"idle"} \cup Restart,
                      from = "h_info" => next = "idle",
                      LogCall(h, from, level, next), UNCHANGED <<odd, owed>>,
                      fmt' \in {fmt, backup}, backup' = backup
               PROVE  Call(h)
    BY <1>3 DEF HandlerRestore, HandlerLog, FormatAfter, formatVars
  <2>1. Calling(h, level, next)
    BY DEF LogCall, Go, Runs, Calling
  <2> QED
    BY <2>1 DEF Call
<1>4. \A n \in BufferLevels : SetBufferLevel(n) => LevelSet \/ Call(Base(Main))
  BY LogIsCall, Contexts DEF SetBufferLevel, LevelSet
<1>5. ASSUME Shutdown PROVE Calling(Base(Main), 5, "final")
  BY <1>5 DEF Shutdown, LogCall, Go, Runs, Calling, formatVars
<1> QED
  BY <1>1, <1>2, <1>3, <1>4, <1>5 DEF Call

LEMMA NextCases ==
    ASSUME [Next]_vars
    PROVE  \/ UNCHANGED vars
           \/ \E c \in Context : Call(c)
           \/ LevelSet
           \/ \E c \in Context :
                 Store(c) \/ Probe(c) \/ WriteLine(c) \/ FlushEnd(c) \/ Final(c) \/ FinalEnd(c)
           \/ \E t \in Thread :
                 (\E n \in Name : Register(t, n)) \/ Link(t) \/ SetLast(t) \/ Rename(t)
<1>1. CASE UNCHANGED vars
  BY <1>1
<1>2. CASE \E c \in Context : Step(c)
  BY <1>2, Calls DEF Step
<1>3. ASSUME NEW t \in Thread,
             \/ \E level \in Level : Log(t, level)
             \/ \E n \in Name : Register(t, n)
             \/ Naming(t)
             \/ Signal(t)
      PROVE  \/ \E c \in Context : Call(c)
             \/ (\E n \in Name : Register(t, n)) \/ Link(t) \/ SetLast(t) \/ Rename(t)
  BY <1>3, Calls, Contexts DEF Naming
<1>4. CASE (\E n \in BufferLevels : SetBufferLevel(n)) \/ Shutdown
  BY <1>4, Calls, Contexts
<1> QED
  BY <1>1, <1>2, <1>3, <1>4 DEF Next

-----------------------------------------------------------------------------
(* The initial states.                                                     *)

LEMMA InitLines ==
    ASSUME Init
    PROVE  /\ logged \in Seq(Line)
           /\ \A m : m \in ToSet(logged) <=> \E t \in Started : m = [id |-> 0, thread |-> t]
<1> DEFINE S == {[id |-> 0, thread |-> t] : t \in Started}
           n == Cardinality(S)
           line == [t \in Started |-> [id |-> 0, thread |-> t]]
<1>1. S \subseteq Line /\ IsFiniteSet(Started)
  BY LoggerAssumption DEF Line
<1>2. line \in Surjection(Started, S)
  BY DEF Surjection
<1>3. IsFiniteSet(S)
  BY <1>1, <1>2, FS_Surjection
<1>4. n \in Nat /\ ExistsBijection(1..n, S)
  BY <1>3, FS_CardinalityType
<1>5. PICK f : f \in Bijection(1..n, S)
  BY <1>4 DEF ExistsBijection
<1>6. f \in [1..n -> S] /\ IsInjective(f)
  BY <1>5 DEF Bijection, Injection
<1>7. logged \in [1..n -> S] /\ IsInjective(logged)
  <2>1. logged = CHOOSE g \in [1..n -> S] : IsInjective(g)
    BY DEF Init, SetToSeq
  <2> QED
    BY <1>6, <2>1
<1>8. logged \in Surjection(1..n, S)
  <2>1. logged \in Injection(1..n, S)
    BY <1>7 DEF Injection
  <2>2. Cardinality(1..n) = n
    BY <1>4, FS_CountingElements, FS_Interval
  <2> QED
    BY <1>3, <2>1, <2>2, FS_Injection
<1>9. \A m : m \in ToSet(logged) <=> m \in S
  BY <1>7, <1>8 DEF Surjection, ToSet
<1> HIDE DEF n
<1>10. logged \in Seq(Line)
  BY <1>1, <1>4, <1>7
<1> QED
  BY <1>9, <1>10
-----------------------------------------------------------------------------
(* Control and types.                                                      *)

LEMMA ControlStep ==
    ASSUME TypeOK, ControlOK, [Next]_vars
    PROVE  ControlOK'
<1> USE DEF Flushing, Registering
<1> SUFFICES ASSUME NEW c \in Context PROVE ContextOK(c)'
  BY DEF ControlOK
<1> DEFINE Goal == ContextOK(c)'
           Kept == /\ pc'[c] = pc[c] /\ job'[c] = job[c] /\ odd \subseteq odd'
                   /\ LogLock' = c <=> LogLock = c
<1>1. ContextOK(c) /\ pc \in [Context -> Label]
  BY DEF ControlOK, TypeOK
<1>2. Kept => Goal
  BY <1>1 DEF ContextOK
<1>3. CASE UNCHANGED <<LogLock, pc, job, odd>>
  BY <1>2, <1>3
<1>4. ASSUME NEW d \in Context, Call(d) PROVE Goal
  <2>1. PICK level, next : Calling(d, level, next)
    BY <1>4 DEF Call
  <2>2. /\ pc' = [pc EXCEPT ![d] = "lock"] /\ pc[d] \in {"idle"} \cup Restart
        /\ job' = [job EXCEPT ![d] = [level |-> level, next |-> next]]
        /\ LogLock' = LogLock /\ odd \subseteq odd'
        /\ \/ next = "idle"
           \/ next = "final" /\ d = Base(Main)
           \/ next \in Restart /\ (d[2] = "handler" \/ pc[d] \in Restart)
    BY <2>1 DEF Calling, bufferVars
  <2>3. [level |-> level, next |-> next] \in Job
    BY <2>1 DEF Calling, Job
  <2>4. [level |-> level, next |-> next] # NULL
    BY <2>3, LoggerAssumption
  <2>5. CASE c = d
    BY <1>1, <2>2, <2>4, <2>5 DEF ContextOK, TypeOK
  <2>6. CASE c # d
    BY <1>2, <2>2, <2>6 DEF TypeOK
  <2> QED
    BY <2>5, <2>6
<1>5. ASSUME NEW d \in Context, Store(d) PROVE Goal
  <2>1. pc[d] = "lock" /\ LogLock = NULL /\ odd' = odd /\ job[d] # NULL
    BY <1>5 DEF Store, Runs, ControlOK, ContextOK
  <2>2. ~ (pc[c] \in Flushing /\ job[c] # NULL) /\ d # NULL /\ c # NULL
    BY <1>1, <2>1, Contexts DEF ContextOK
  <2>3. CASE pc' = [pc EXCEPT ![d] = "flush"] /\ LogLock' = d /\ job' = job
    <3>1. CASE c = d
      BY <1>1, <2>1, <2>2, <2>3, <3>1 DEF ContextOK, TypeOK
    <3>2. CASE c # d
      BY <1>2, <2>1, <2>2, <2>3, <3>2 DEF TypeOK
    <3> QED
      BY <3>1, <3>2
  <2>4. CASE /\ pc' = [pc EXCEPT ![d] = job[d].next] /\ LogLock' = LogLock
             /\ job' = [job EXCEPT ![d] = NULL]
    <3>1. CASE c = d
      BY <1>1, <2>1, <2>2, <2>4, <3>1 DEF ContextOK, TypeOK
    <3>2. CASE c # d
      BY <1>2, <2>1, <2>2, <2>4, <3>2 DEF TypeOK
    <3> QED
      BY <3>1, <3>2
  <2> QED
    BY <1>5, <2>3, <2>4 DEF Store, Go
<1>6. ASSUME NEW d \in Context, Probe(d) PROVE Goal
  <2>1. /\ pc[d] = "flush" /\ UNCHANGED <<LogLock, job, odd>>
        /\ pc' = [pc EXCEPT ![d] = "create"] \/ pc' = [pc EXCEPT ![d] = "append"]
    BY <1>6 DEF Probe, Go, Runs, bufferVars
  <2> QED
    BY <1>1, <2>1 DEF ContextOK, TypeOK
<1>7. ASSUME NEW d \in Context, WriteLine(d) PROVE Goal
  <2>1. /\ pc[d] \in {"create", "append"} /\ UNCHANGED <<LogLock, job>>
        /\ pc' = [pc EXCEPT ![d] = "flush"] /\ odd \subseteq odd'
    BY <1>7 DEF WriteLine, Runs, bufferVars
  <2> QED
    BY <1>1, <2>1 DEF ContextOK, TypeOK
<1>8. ASSUME NEW d \in Context, FlushEnd(d) PROVE Goal
  <2>1. /\ pc[d] = "flush" /\ job[d] # NULL /\ LogLock' = NULL /\ odd' = odd
        /\ pc' = [pc EXCEPT ![d] = job[d].next] /\ job' = [job EXCEPT ![d] = NULL]
    BY <1>8 DEF FlushEnd, Go, Runs, LockAfter
  <2>2. LogLock = d /\ c # NULL
    BY <2>1, Contexts DEF ControlOK, ContextOK
  <2>3. CASE c = d
    BY <1>1, <2>1, <2>2, <2>3 DEF ContextOK, TypeOK
  <2>4. CASE c # d
    BY <1>2, <2>1, <2>2, <2>4 DEF TypeOK
  <2> QED
    BY <2>3, <2>4
<1>9. ASSUME NEW d \in Context, Final(d) PROVE Goal
  <2>1. /\ pc[d] = "final" /\ UNCHANGED <<LogLock, job>>
        /\ pc' = [pc EXCEPT ![d] = "flush"] /\ odd' = odd \cup {"final"}
    BY <1>9 DEF Final, Go, Runs, bufferVars
  <2> QED
    BY <1>1, <2>1 DEF ContextOK, TypeOK
<1>10. ASSUME NEW d \in Context, FinalEnd(d) PROVE Goal
  <2>1. /\ pc[d] = "flush" /\ job[d] = NULL /\ UNCHANGED <<LogLock, job, odd>>
        /\ pc' = [pc EXCEPT ![d] = "idle"]
    BY <1>10 DEF FinalEnd, Go, Runs, bufferVars
  <2> QED
    BY <1>1, <2>1 DEF ContextOK, TypeOK
<1>11. ASSUME NEW t \in Thread, NEW n \in Name, Register(t, n) PROVE Goal
  <2>1. /\ pc[Base(t)] = "idle" /\ UNCHANGED <<LogLock, job>>
        /\ pc' = [pc EXCEPT ![Base(t)] = "rename"] \/ pc' = [pc EXCEPT ![Base(t)] = "link"]
    BY <1>11 DEF Register, Go, Runs, bufferVars
  <2>2. odd \subseteq odd' /\ Base(t)[2] = "base"
    BY <1>11, Contexts DEF Register
  <2> QED
    BY <1>1, <2>1, <2>2 DEF ContextOK, TypeOK
<1>12. ASSUME NEW t \in Thread, Link(t) \/ SetLast(t) \/ Rename(t) PROVE Goal
  <2>1. /\ pc[Base(t)] \in Registering /\ UNCHANGED <<LogLock, job>>
        /\ \E label \in {"last", "rename", "idle"} : pc' = [pc EXCEPT ![Base(t)] = label]
    BY <1>12 DEF Link, SetLast, Rename, Go, Runs, bufferVars
  <2>2. odd \subseteq odd' /\ Base(t)[2] = "base"
    BY <1>12, Contexts DEF Link, SetLast, Rename
  <2> QED
    BY <1>1, <2>1, <2>2 DEF ContextOK, TypeOK
<1> QED
  BY <1>3, <1>4, <1>5, <1>6, <1>7, <1>8, <1>9, <1>10, <1>11, <1>12, NextCases
  DEF vars, bufferVars, LevelSet

LEMMA SeqGrows ==
    ASSUME NEW S, NEW T, S \subseteq T, NEW s \in Seq(S)
    PROVE  s \in Seq(T)
OBVIOUS

\* The entries after a registration.
LEMMA RegisterCells ==
    ASSUME TypeOK, NEW t \in Thread, NEW n \in Name, Register(t, n)
    PROVE  /\ cells' \in Seq([thread : Thread, path : Path]) /\ Len(cells') <= MaxCells
           /\ DOMAIN cells \subseteq DOMAIN cells'
           /\ x'[Base(t)] \in Nat
           /\ pc'[Base(t)] \in {"link", "last"} => x'[Base(t)] \in DOMAIN cells'
           /\ \A i \in DOMAIN cells : cells'[i].thread = cells[i].thread
           /\ \A i \in DOMAIN cells' : \/ cells'[i].path = NameLog(n) /\ cells'[i].thread = t
                                       \/ i \in DOMAIN cells /\ cells'[i] = cells[i]
                                       \/ /\ i \in DOMAIN cells /\ cells[i].thread = t
                                          /\ cells'[i].path = Overwritten(cells[i].path, n)
<1> DEFINE R == [thread : Thread, path : Path]
<1>1. /\ cells \in Seq(R) /\ Len(cells) \in Nat /\ Len(cells) <= MaxCells
      /\ DOMAIN cells = 1..Len(cells) /\ \A i \in DOMAIN cells : cells[i] \in R
      /\ x \in [Context -> Nat] /\ pc \in [Context -> Label]
  BY ListTypes DEF TypeOK
<1>2. Base(t) \in Context /\ NameLog(n) \in Path
  BY Contexts, Paths
<1>3. CASE /\ IsEntered(t) /\ pc' = [pc EXCEPT ![Base(t)] = "rename"] /\ x' = x
           /\ cells' = [cells EXCEPT ![EntryOf(t)].path = Overwritten(@, n)]
  <2> DEFINE e == EntryOf(t)
  <2>1. e \in DOMAIN cells /\ cells[e].thread = t /\ cells[e] \in R
    BY <1>1, <1>3, EntryFacts
  <2>2. Overwritten(cells[e].path, n) \in Path
    BY <2>1, Paths
  <2> HIDE DEF e
  <2>3. cells' = [cells EXCEPT ![e] = [cells[e] EXCEPT !.path = Overwritten(cells[e].path, n)]]
    BY <1>3 DEF e
  <2>4. /\ [cells[e] EXCEPT !.path = Overwritten(cells[e].path, n)] \in R
        /\ [cells[e] EXCEPT !.path = Overwritten(cells[e].path, n)].thread = t
        /\ [cells[e] EXCEPT !.path = Overwritten(cells[e].path, n)].path
              = Overwritten(cells[e].path, n)
    BY <2>1, <2>2
  <2>5. cells' \in [1..Len(cells) -> R]
    BY <1>1, <2>3, <2>4
  <2>6. cells' \in Seq(R) /\ Len(cells') = Len(cells) /\ DOMAIN cells' = DOMAIN cells
    BY <1>1, <2>5
  <2> QED
    BY <1>1, <1>2, <1>3, <2>1, <2>3, <2>4, <2>6
<1>4. CASE /\ Len(cells) < MaxCells /\ pc' = [pc EXCEPT ![Base(t)] = "link"]
           /\ cells' = Append(cells, [thread |-> t, path |-> NameLog(n)])
           /\ x' = [x EXCEPT ![Base(t)] = Len(cells) + 1]
  <2> DEFINE new == [thread |-> t, path |-> NameLog(n)]
  <2>1. new \in R /\ new.path = NameLog(n) /\ new.thread = t
    BY <1>2
  <2> HIDE DEF new
  <2>2. cells' = Append(cells, new)
    BY <1>4 DEF new
  <2>3. /\ cells' \in Seq(R) /\ Len(cells') = Len(cells) + 1
        /\ \A i \in 1..Len(cells) : cells'[i] = cells[i]
        /\ cells'[Len(cells) + 1] = new
    BY <1>1, <2>1, <2>2, AppendProperties
  <2>4. DOMAIN cells' = 1..(Len(cells) + 1)
    BY <2>3, LenProperties
  <2>5. x'[Base(t)] = Len(cells) + 1 /\ Len(cells') <= MaxCells
    BY <1>1, <1>2, <1>4, <2>3, LoggerAssumption
  <2>6. \A i \in DOMAIN cells' : i \in DOMAIN cells \/ i = Len(cells) + 1
    BY <1>1, <2>4
  <2> QED
    BY <1>1, <2>1, <2>3, <2>4, <2>5, <2>6
<1>5. CASE pc' = [pc EXCEPT ![Base(t)] = "rename"] /\ UNCHANGED <<cells, x>>
  BY <1>1, <1>2, <1>5
<1> QED
  BY <1>3, <1>4, <1>5 DEF Register, Go

\* What a write leaves in the files.
LEMMA WriteFiles ==
    ASSUME TypeOK, BufferOK, NEW c \in Context, WriteLine(c)
    PROVE  /\ path[c] \in Path /\ slot[x[c]] \in Line
           /\ \A p \in Path \ {path[c]} : file'[p] = file[p]
           /\ file' \in [Path -> Seq(Line)]
           /\ \/ file'[path[c]] = Emptied(c)[path[c]] /\ "fail" \in odd'
                 /\ lost' = lost \cup {slot[x[c]]} \cup (ToSet(file[path[c]]) \ ToSet(file'[path[c]]))
              \/ file'[path[c]] = Append(Emptied(c)[path[c]], slot[x[c]])
                 /\ lost' = lost \cup (ToSet(file[path[c]]) \ ToSet(file'[path[c]]))
                 /\ odd' = IF EarlyLine(c) THEN odd \cup {"early"} ELSE odd
           /\ Emptied(c)[path[c]] \in Seq(Line)
           /\ Emptied(c)[path[c]] = IF pc[c] = "create" THEN <<>> ELSE file[path[c]]
<1>1. path[c] \in Path /\ slot[x[c]] \in Line
  BY DEF WriteLine, Runs, BufferOK, ReadsOK
<1>2. file \in [Path -> Seq(Line)]
  BY DEF TypeOK
<1>3. /\ Emptied(c) \in [Path -> Seq(Line)]
      /\ \A p \in Path \ {path[c]} : Emptied(c)[p] = file[p]
      /\ Emptied(c)[path[c]] = IF pc[c] = "create" THEN <<>> ELSE file[path[c]]
  BY <1>1, <1>2 DEF Emptied
<1>4. Emptied(c)[path[c]] \in Seq(Line)
  BY <1>1, <1>3
<1>5. Append(Emptied(c)[path[c]], slot[x[c]]) \in Seq(Line)
  BY <1>1, <1>4, AppendProperties
<1>6. CASE /\ file' = [Emptied(c) EXCEPT ![path[c]] = Append(@, slot[x[c]])]
           /\ odd' = IF EarlyLine(c) THEN odd \cup {"early"} ELSE odd
           /\ lost' = lost \cup (ToSet(file[path[c]]) \ ToSet(file'[path[c]]))
  BY <1>1, <1>3, <1>4, <1>5, <1>6
<1>7. CASE /\ file' = Emptied(c) /\ odd' = odd \cup {"fail"}
           /\ lost' = lost \cup {slot[x[c]]} \cup (ToSet(file[path[c]]) \ ToSet(file'[path[c]]))
  BY <1>1, <1>3, <1>4, <1>7
<1> QED
  BY <1>6, <1>7 DEF WriteLine

\* What a rename leaves in them.
LEMMA RenameFiles ==
    ASSUME TypeOK, BufferOK, PathsOK, NEW t \in Thread, Rename(t)
    PROVE  /\ path[Base(t)] \in Path /\ ThreadLog(t) \in Path /\ path[Base(t)] # ThreadLog(t)
           /\ file' \in [Path -> Seq(Line)]
           /\ \/ file[ThreadLog(t)] = <<>> /\ UNCHANGED <<file, lost>>
              \/ /\ file[ThreadLog(t)] # <<>>
                 /\ file'[path[Base(t)]] = file[ThreadLog(t)] /\ file'[ThreadLog(t)] = <<>>
                 /\ \A p \in Path \ {path[Base(t)], ThreadLog(t)} : file'[p] = file[p]
                 /\ lost' = lost \cup ToSet(file[path[Base(t)]])
<1>1. pc[Base(t)] = "rename" /\ Base(t) \in Context
  BY Contexts DEF Rename, Go, Runs
<1>2. path[Base(t)] \in Path
  BY <1>1 DEF BufferOK, ReadsOK, Registering
<1>3. ThreadLog(t) \in Path /\ path[Base(t)] # ThreadLog(t)
  BY <1>1, Paths DEF PathsOK, Registering
<1>4. file \in [Path -> Seq(Line)] /\ <<>> \in Seq(Line)
  BY DEF TypeOK
<1>5. CASE file[ThreadLog(t)] = <<>>
  BY <1>2, <1>3, <1>4, <1>5 DEF Rename
<1>6. CASE file[ThreadLog(t)] # <<>>
  <2>1. /\ file' = [file EXCEPT ![path[Base(t)]] = file[ThreadLog(t)], ![ThreadLog(t)] = <<>>]
        /\ lost' = lost \cup ToSet(file[path[Base(t)]])
    BY <1>6 DEF Rename
  <2> QED
    BY <1>2, <1>3, <1>4, <1>6, <2>1
<1> QED
  BY <1>5, <1>6

\* What is linked is in front of the entry the list now ends with.
LEMMA LinkList ==
    ASSUME TypeOK, BufferOK, NEW t \in Thread, Link(t)
    PROVE  /\ chain' \in Seq(DOMAIN cells) /\ x[Base(t)] \in DOMAIN cells
           /\ \/ chain' = chain /\ ~ \E i \in DOMAIN chain : chain[i] = lastEntry
              \/ \E k \in DOMAIN chain :
                    /\ chain[k] = lastEntry /\ Len(chain') = k + 1
                    /\ DOMAIN chain' = 1..(k + 1)
                    /\ \A i \in 1..k : chain'[i] = chain[i]
                    /\ chain'[k + 1] = x[Base(t)]
<1> DEFINE S == DOMAIN cells
<1>1. /\ chain \in Seq(S) /\ DOMAIN chain = 1..Len(chain) /\ Len(chain) \in Nat
      /\ \A i \in 1..Len(chain) : chain[i] \in S
  BY ListTypes DEF TypeOK
<1>2. x[Base(t)] \in S
  BY Contexts DEF Link, Go, Runs, BufferOK, ReadsOK
<1> HIDE DEF S
<1>3. CASE ~ \E i \in DOMAIN chain : chain[i] = lastEntry
  BY <1>1, <1>2, <1>3 DEF Link, S
<1>4. CASE \E i \in DOMAIN chain : chain[i] = lastEntry
  <2>1. PICK k \in DOMAIN chain :
           /\ chain[k] = lastEntry
           /\ chain' = Append(SubSeq(chain, 1, k), x[Base(t)])
    BY <1>4 DEF Link
  <2> DEFINE front == SubSeq(chain, 1, k)
  <2>2. k \in Nat /\ k <= Len(chain)
    BY <1>1
  <2>3. /\ front \in Seq(S) /\ Len(front) = k
        /\ \A i \in 1..k : front[i] = chain[i]
    BY <1>1, <2>2
  <2> HIDE DEF front
  <2>4. chain' = Append(front, x[Base(t)])
    BY <2>1 DEF front
  <2>5. /\ chain' \in Seq(S) /\ Len(chain') = k + 1
        /\ \A i \in 1..k : chain'[i] = front[i]
        /\ chain'[k + 1] = x[Base(t)]
    BY <1>2, <2>3, <2>4, AppendProperties
  <2>6. DOMAIN chain' = 1..(k + 1)
    BY <2>5, LenProperties
  <2> QED
    BY <1>2, <2>1, <2>3, <2>5, <2>6 DEF S
<1> QED
  BY <1>3, <1>4

\* A line that is stored has a place in the buffer, and is new.
LEMMA StoreFacts ==
    ASSUME TypeOK, ControlOK, NEW c \in Context, Store(c)
    PROVE  \E line \in Line :
              /\ line.id = Len(logged) + 1
              /\ slot' = [slot EXCEPT ![count + 1] = line] /\ logged' = Append(logged, line)
              /\ count \in Nat /\ count < MaxBuffered /\ count' = count + 1
              /\ count + 1 \in 1..MaxBuffered
              /\ LogLock = NULL /\ pc[c] = "lock" /\ job[c] \in Job /\ ~ down
              /\ \/ /\ LogLock' = c /\ pc' = [pc EXCEPT ![c] = "flush"]
                    /\ x' = [x EXCEPT ![c] = 1] /\ job' = job
                 \/ /\ LogLock' = NULL /\ pc' = [pc EXCEPT ![c] = job[c].next]
                    /\ x' = x /\ job' = [job EXCEPT ![c] = NULL]
                    /\ count + 1 < MaxBuffered
<1> DEFINE line == [id |-> Len(logged) + 1, thread |-> c[1]]
<1>1. /\ line \in Line /\ line.id = Len(logged) + 1
  BY Contexts, LenProperties DEF TypeOK, Line
<1>2. slot' = [slot EXCEPT ![count + 1] = line] /\ logged' = Append(logged, line)
  BY DEF Store
<1> HIDE DEF line
<1>3. /\ LogLock = NULL /\ pc[c] = "lock" /\ count' = count + 1 /\ ~ down
      /\ job[c] \in Job
  BY DEF Store, Runs, ControlOK, ContextOK, TypeOK
<1>4. /\ count \in Nat /\ MaxBuffered \in Nat /\ MaxBuffered > 1 /\ count < MaxBuffered
  BY <1>3, LoggerAssumption DEF TypeOK
<1>5. count + 1 \in 1..MaxBuffered
  BY <1>4
<1>6. CASE MustFlush(count + 1, job[c].level)
  BY <1>1, <1>2, <1>3, <1>4, <1>5, <1>6 DEF Store, Go
<1>7. CASE ~ MustFlush(count + 1, job[c].level)
  <2>1. count + 1 < MaxBuffered
    BY <1>4, <1>7 DEF MustFlush
  <2> QED
    BY <1>1, <1>2, <1>3, <1>4, <1>5, <1>7, <2>1 DEF Store, Go
<1> QED
  BY <1>6, <1>7

\* Every step keeps the types.
LEMMA TypeStep ==
    ASSUME TypeOK, ControlOK, BufferOK, PathsOK, [Next]_vars
    PROVE  TypeOK'
<1>1. CASE UNCHANGED vars
  BY <1>1 DEF TypeOK, vars, bufferVars, mapVars, formatVars, ioVars
<1>2. ASSUME NEW d \in Context, Call(d) PROVE TypeOK'
  <2>1. PICK level, next : Calling(d, level, next)
    BY <1>2 DEF Call
  <2>2. [level |-> level, next |-> next] \in Job
    BY <2>1 DEF Calling, Job
  <2>3. job' \in [Context -> Job \cup {NULL}] /\ pc' \in [Context -> Label]
    BY <2>1, <2>2 DEF Calling, TypeOK, Label
  <2>4. ToSet(logged) \subseteq Line
    BY ElementOfSeq DEF TypeOK, ToSet
  <2>5. owed' \subseteq Line /\ {fmt', backup'} \subseteq {"general", "bare"}
    BY <2>1, <2>4 DEF Calling, TypeOK
  <2>6. odd' \subseteq {"early", "race", "overlap", "fail", "final", "memory", "again"}
    BY <2>1 DEF Calling, TypeOK
  <2> QED
    BY <2>1, <2>3, <2>5, <2>6 DEF Calling, TypeOK, bufferVars, mapVars, ioVars
<1>3. CASE LevelSet
  BY <1>3 DEF LevelSet, TypeOK, bufferVars, mapVars, formatVars, ioVars
<1>4. ASSUME NEW d \in Context, Store(d) PROVE TypeOK'
  <2>1. PICK line \in Line :
           /\ slot' = [slot EXCEPT ![count + 1] = line] /\ logged' = Append(logged, line)
           /\ count \in Nat /\ count < MaxBuffered /\ count' = count + 1
           /\ count + 1 \in 1..MaxBuffered
           /\ LogLock = NULL /\ pc[d] = "lock" /\ job[d] \in Job
           /\ \/ /\ LogLock' = d /\ pc' = [pc EXCEPT ![d] = "flush"]
                 /\ x' = [x EXCEPT ![d] = 1] /\ job' = job
              \/ /\ LogLock' = NULL /\ pc' = [pc EXCEPT ![d] = job[d].next]
                 /\ x' = x /\ job' = [job EXCEPT ![d] = NULL]
                 /\ count + 1 < MaxBuffered
    BY <1>4, StoreFacts
  <2>2. logged' \in Seq(Line)
    BY <2>1, AppendProperties DEF TypeOK
  <2>3. slot' \in [1..MaxBuffered -> Line \cup {NULL}] /\ count' \in 0..MaxBuffered
    BY <2>1 DEF TypeOK
  <2>4. LogLock' \in Context \cup {NULL} /\ (LogLock' = NULL => count' < MaxBuffered)
    BY <2>1, Contexts
  <2>5. job[d].next \in Label
    BY <2>1 DEF Job, Label
  <2>6. /\ pc' \in [Context -> Label] /\ job' \in [Context -> Job \cup {NULL}]
        /\ x' \in [Context -> Nat]
    <3>1. pc \in [Context -> Label] /\ x \in [Context -> Nat] /\ job \in [Context -> Job \cup {NULL}]
      BY DEF TypeOK
    <3>2. pc' \in [Context -> Label]
      BY <2>1, <2>5, <3>1 DEF Label
    <3>3. job' \in [Context -> Job \cup {NULL}] /\ x' \in [Context -> Nat]
      <4>1. job' = job \/ job' = [job EXCEPT ![d] = NULL]
        BY <2>1
      <4>2. x' = x \/ x' = [x EXCEPT ![d] = 1]
        BY <2>1
      <4>3. job' \in [Context -> Job \cup {NULL}]
        BY <3>1, <4>1
      <4>4. x' \in [Context -> Nat]
        BY <3>1, <4>2
      <4> QED
        BY <4>3, <4>4
    <3> QED
      BY <3>2, <3>3
  <2> QED
    BY <1>4, <2>2, <2>3, <2>4, <2>6 DEF Store, TypeOK, mapVars, formatVars, ioVars
<1>5. ASSUME NEW d \in Context, Probe(d) PROVE TypeOK'
  <2>1. slot[x[d]] \in Line
    BY <1>5 DEF Probe, Runs, BufferOK, ReadsOK, Flushing, TypeOK
  <2>2. PathOf(slot[x[d]].thread) \in Path
    BY <2>1, EntryFacts DEF Line
  <2>3. path' \in [Context -> Path \cup {NULL}] /\ pc' \in [Context -> Label]
    BY <1>5, <2>2 DEF Probe, Go, TypeOK, Label
  <2> QED
    BY <1>5, <2>3 DEF Probe, TypeOK, bufferVars, mapVars, formatVars, ioVars
<1>6. ASSUME NEW d \in Context, WriteLine(d) PROVE TypeOK'
  <2>1. /\ slot[x[d]] \in Line /\ path[d] \in Path /\ file' \in [Path -> Seq(Line)]
    BY <1>6, WriteFiles
  <2>2. ToSet(file[path[d]]) \subseteq Line
    BY <2>1, ListTypes DEF ToSet
  <2>3. lost' \subseteq Line
    <3>1. \/ lost' = lost \cup (ToSet(file[path[d]]) \ ToSet(file'[path[d]]))
          \/ lost' = lost \cup {slot[x[d]]} \cup (ToSet(file[path[d]]) \ ToSet(file'[path[d]]))
      BY <1>6 DEF WriteLine
    <3> QED
      BY <2>1, <2>2, <3>1 DEF TypeOK
  <2>4. /\ pc' \in [Context -> Label] /\ x' \in [Context -> Nat]
        /\ path' \in [Context -> Path \cup {NULL}]
    <3>1. pc' \in [Context -> Label]
      BY <1>6 DEF WriteLine, TypeOK, Label
    <3>2. x' \in [Context -> Nat]
      BY <1>6 DEF WriteLine, TypeOK
    <3>3. path' \in [Context -> Path \cup {NULL}]
      BY <1>6 DEF WriteLine, TypeOK
    <3> QED
      BY <3>1, <3>2, <3>3
  <2>5. odd' \subseteq {"early", "race", "overlap", "fail", "final", "memory", "again"}
    BY <1>6 DEF WriteLine, TypeOK
  <2> QED
    BY <1>6, <2>1, <2>3, <2>4, <2>5 DEF WriteLine, TypeOK, bufferVars, mapVars, formatVars
<1>7. ASSUME NEW d \in Context, FlushEnd(d) PROVE TypeOK'
  <2>1. job[d].next \in Label
    BY <1>7 DEF FlushEnd, TypeOK, Job, Label
  <2>2. /\ pc' \in [Context -> Label] /\ x' \in [Context -> Nat]
        /\ job' \in [Context -> Job \cup {NULL}]
    BY <1>7, <2>1 DEF FlushEnd, Go, TypeOK
  <2>3. count' \in 0..MaxBuffered /\ count' < MaxBuffered /\ LogLock' = NULL
    BY <1>7, LoggerAssumption DEF FlushEnd, CountAfter, LockAfter
  <2> QED
    BY <1>7, <2>2, <2>3 DEF FlushEnd, TypeOK, mapVars, formatVars, ioVars
<1>8. ASSUME NEW d \in Context, Final(d) \/ FinalEnd(d) PROVE TypeOK'
  <2>1. pc' \in [Context -> Label] /\ x' \in [Context -> Nat] /\ down' \in BOOLEAN
    <3>1. pc' \in [Context -> Label]
      BY <1>8 DEF Final, FinalEnd, Go, TypeOK, Label
    <3>2. x' \in [Context -> Nat]
      <4>1. x \in [Context -> Nat] /\ (x' = [x EXCEPT ![d] = 1] \/ x' = x)
        BY <1>8 DEF Final, FinalEnd, TypeOK
      <4> QED
        BY <4>1
    <3>3. down' \in BOOLEAN
      BY <1>8 DEF Final, FinalEnd, TypeOK
    <3> QED
      BY <3>1, <3>2, <3>3
  <2>2. odd' \subseteq {"early", "race", "overlap", "fail", "final", "memory", "again"}
    BY <1>8 DEF Final, FinalEnd, TypeOK
  <2> QED
    BY <1>8, <2>1, <2>2 DEF Final, FinalEnd, TypeOK, bufferVars, mapVars, formatVars, ioVars
<1>9. ASSUME NEW t \in Thread, NEW n \in Name, Register(t, n) PROVE TypeOK'
  <2>1. /\ cells' \in Seq([thread : Thread, path : Path]) /\ Len(cells') <= MaxCells
        /\ DOMAIN cells \subseteq DOMAIN cells'
    BY <1>9, RegisterCells
  <2>2. /\ chain' = chain /\ lastEntry' = lastEntry /\ chain \in Seq(DOMAIN cells)
        /\ lastEntry \in DOMAIN cells
    BY <1>9 DEF Register, TypeOK
  <2>3. chain' \in Seq(DOMAIN cells') /\ lastEntry' \in DOMAIN cells'
    BY <2>1, <2>2, SeqGrows
  <2>4. /\ pc' \in [Context -> Label] /\ path' \in [Context -> Path \cup {NULL}]
        /\ x' \in [Context -> Nat]
    <3>1. pc' \in [Context -> Label]
      BY <1>9 DEF Register, Go, TypeOK, Label
    <3>2. path' \in [Context -> Path \cup {NULL}]
      BY <1>9, Paths DEF Register, TypeOK
    <3>3. x' \in [Context -> Nat]
      <4>1. Len(cells) + 1 \in Nat /\ x \in [Context -> Nat]
        BY ListTypes DEF TypeOK
      <4>2. x' = x \/ x' = [x EXCEPT ![Base(t)] = Len(cells) + 1]
        BY <1>9 DEF Register
      <4> QED
        BY <4>1, <4>2
    <3> QED
      BY <3>1, <3>2, <3>3
  <2>5. /\ odd' \subseteq {"early", "race", "overlap", "fail", "final", "memory", "again"}
        /\ regs' \subseteq Thread \X Name
    BY <1>9 DEF Register, TypeOK
  <2> QED
    BY <1>9, <2>1, <2>3, <2>4, <2>5 DEF Register, TypeOK, bufferVars, formatVars, ioVars
<1>10. ASSUME NEW t \in Thread, Link(t) PROVE TypeOK'
  <2>1. chain' \in Seq(DOMAIN cells)
    BY <1>10, LinkList
  <2>2. /\ pc' \in [Context -> Label]
        /\ odd' \subseteq {"early", "race", "overlap", "fail", "final", "memory", "again"}
    BY <1>10 DEF Link, Go, TypeOK, Label
  <2> QED
    BY <1>10, <2>1, <2>2 DEF Link, TypeOK, bufferVars, formatVars, ioVars
<1>11. ASSUME NEW t \in Thread, SetLast(t) PROVE TypeOK'
  <2>1. x[Base(t)] \in DOMAIN cells
    BY <1>11, Contexts DEF SetLast, Go, Runs, BufferOK, ReadsOK
  <2>2. pc' \in [Context -> Label]
    BY <1>11 DEF SetLast, Go, TypeOK, Label
  <2> QED
    BY <1>11, <2>1, <2>2 DEF SetLast, TypeOK, bufferVars, formatVars, ioVars
<1>12. ASSUME NEW t \in Thread, Rename(t) PROVE TypeOK'
  <2>1. /\ file' \in [Path -> Seq(Line)] /\ path[Base(t)] \in Path
        /\ lost' = lost \/ lost' = lost \cup ToSet(file[path[Base(t)]])
    BY <1>12, RenameFiles
  <2>2. ToSet(file[path[Base(t)]]) \subseteq Line
    BY <2>1, ListTypes DEF ToSet
  <2>3. /\ pc' \in [Context -> Label] /\ x' \in [Context -> Nat]
        /\ path' \in [Context -> Path \cup {NULL}]
    BY <1>12 DEF Rename, Go, TypeOK, Label
  <2>4. lost' \subseteq Line
    BY <2>1, <2>2 DEF TypeOK
  <2> QED
    BY <1>12, <2>1, <2>3, <2>4 DEF Rename, TypeOK, bufferVars, mapVars, formatVars
<1> QED
  BY <1>1, <1>2, <1>3, <1>4, <1>5, <1>6, <1>7, <1>8, <1>9, <1>10, <1>11, <1>12, NextCases

LEMMA BufferStep ==
    ASSUME TypeOK, ControlOK, BufferOK, [Next]_vars
    PROVE  BufferOK'
<1> USE DEF Flushing, Registering
<1> DEFINE Slots == \A i \in 1..count' : slot'[i] \in Line
           \* What a step of d does to the others.
           Others(d) == /\ UNCHANGED slot /\ DOMAIN cells \subseteq DOMAIN cells'
                        /\ \A c \in Context \ {d} : pc'[c] = pc[c] /\ x'[c] = x[c] /\ path'[c] = path[c]
<1>1. /\ \A i \in 1..count : slot[i] \in Line
      /\ \A c \in Context : ReadsOK(c)
      /\ pc \in [Context -> Label] /\ x \in [Context -> Nat] /\ path \in [Context -> Path \cup {NULL}]
      /\ count \in Nat
  BY DEF BufferOK, TypeOK
<1>2. ASSUME NEW d \in Context, Others(d), ReadsOK(d)' PROVE \A c \in Context : ReadsOK(c)'
  <2> SUFFICES ASSUME NEW c \in Context, c # d PROVE ReadsOK(c)'
    BY <1>2
  <2> QED
    BY <1>1, <1>2 DEF ReadsOK
<1>3. CASE UNCHANGED <<slot, count, cells, pc, x, path>>
  BY <1>3 DEF BufferOK, ReadsOK
<1>4. ASSUME NEW d \in Context, Call(d) PROVE BufferOK'
  <2>1. UNCHANGED <<slot, count, cells, x, path>> /\ pc' = [pc EXCEPT ![d] = "lock"]
    BY <1>4 DEF Call, Calling, bufferVars, mapVars
  <2>2. ReadsOK(d)' /\ Others(d)
    BY <1>1, <2>1 DEF ReadsOK
  <2> QED
    BY <1>1, <1>2, <2>1, <2>2 DEF BufferOK
<1>5. ASSUME NEW d \in Context, Store(d) PROVE BufferOK'
  <2>1. PICK line \in Line :
           /\ slot' = [slot EXCEPT ![count + 1] = line]
           /\ count' = count + 1 /\ count + 1 \in 1..MaxBuffered
           /\ pc[d] = "lock" /\ job[d] \in Job
           /\ \/ pc' = [pc EXCEPT ![d] = "flush"] /\ x' = [x EXCEPT ![d] = 1]
              \/ pc' = [pc EXCEPT ![d] = job[d].next] /\ x' = x
    BY <1>5, StoreFacts
  <2>2. path' = path /\ cells' = cells /\ slot \in [1..MaxBuffered -> Line \cup {NULL}]
    BY <1>5 DEF Store, mapVars, TypeOK
  <2>3. Slots
    <3> SUFFICES ASSUME NEW i \in 1..(count + 1) PROVE slot'[i] \in Line
      BY <2>1
    <3>1. i = count + 1 \/ i \in 1..count
      BY <1>1
    <3> QED
      BY <1>1, <2>1, <2>2, <3>1
  <2>4. ReadsOK(d)'
    <3>1. CASE pc' = [pc EXCEPT ![d] = "flush"] /\ x' = [x EXCEPT ![d] = 1]
      BY <1>1, <3>1 DEF ReadsOK
    <3>2. CASE pc' = [pc EXCEPT ![d] = job[d].next] /\ x' = x
      <4>1. pc'[d] \in {"idle", "final"} \cup Restart
        BY <1>1, <2>1, <3>2 DEF Job
      <4> QED
        BY <4>1 DEF ReadsOK
    <3> QED
      BY <2>1, <3>1, <3>2
  <2>5. ASSUME NEW c \in Context, c # d PROVE ReadsOK(c)'
    <3>1. pc'[c] = pc[c] /\ x'[c] = x[c] /\ ReadsOK(c)
      BY <1>1, <2>1, <2>5
    <3>2. \A i \in 1..MaxBuffered : slot[i] \in Line => slot'[i] \in Line
      BY <2>1, <2>2
    <3> QED
      BY <2>2, <3>1, <3>2 DEF ReadsOK
  <2> QED
    BY <2>3, <2>4, <2>5 DEF BufferOK
<1>6. ASSUME NEW d \in Context, Probe(d) PROVE BufferOK'
  <2>1. /\ UNCHANGED <<slot, count, cells, x>> /\ pc[d] = "flush" /\ x[d] <= count
        /\ path' = [path EXCEPT ![d] = PathOf(slot[x[d]].thread)]
    BY <1>6 DEF Probe, Runs, bufferVars, mapVars
  <2>2. x[d] \in 1..count /\ count <= MaxBuffered
    BY <1>1, <2>1 DEF ReadsOK, TypeOK
  <2>3. slot[x[d]] \in Line /\ x[d] \in 1..MaxBuffered
    BY <1>1, <2>2, LoggerAssumption
  <2>4. path'[d] \in Path
    BY <1>1, <2>1, <2>3, EntryFacts DEF Line
  <2>5. pc'[d] \in {"create", "append"} /\ \A c \in Context \ {d} : pc'[c] = pc[c]
    BY <1>1, <1>6 DEF Probe, Go
  <2>6. ReadsOK(d)' /\ Others(d)
    BY <1>1, <2>1, <2>3, <2>4, <2>5 DEF ReadsOK
  <2> QED
    BY <1>1, <1>2, <2>1, <2>6 DEF BufferOK
<1>7. ASSUME NEW d \in Context, WriteLine(d) PROVE BufferOK'
  <2>1. /\ UNCHANGED <<slot, count, cells>> /\ pc[d] \in {"create", "append"}
        /\ pc' = [pc EXCEPT ![d] = "flush"] /\ x' = [x EXCEPT ![d] = x[d] + 1]
        /\ path' = [path EXCEPT ![d] = NULL]
    BY <1>7 DEF WriteLine, Runs, bufferVars, mapVars
  <2>2. ReadsOK(d)' /\ Others(d)
    BY <1>1, <2>1 DEF ReadsOK
  <2> QED
    BY <1>1, <1>2, <2>1, <2>2 DEF BufferOK
<1>8. ASSUME NEW d \in Context, FlushEnd(d) PROVE BufferOK'
  <2>1. /\ UNCHANGED <<slot, cells, path>> /\ count' = 0 /\ job[d] \in Job
        /\ pc' = [pc EXCEPT ![d] = job[d].next] /\ x' = [x EXCEPT ![d] = 0]
    BY <1>8 DEF FlushEnd, Go, CountAfter, mapVars, TypeOK
  <2>2. pc'[d] \in {"idle", "final"} \cup Restart
    BY <1>1, <2>1 DEF Job
  <2>3. ReadsOK(d)' /\ Others(d)
    BY <1>1, <2>1, <2>2 DEF ReadsOK
  <2>4. Slots
    BY <2>1
  <2> QED
    BY <1>2, <2>3, <2>4 DEF BufferOK
<1>9. ASSUME NEW d \in Context, Final(d) PROVE BufferOK'
  <2>1. /\ UNCHANGED <<slot, count, cells, path>>
        /\ pc' = [pc EXCEPT ![d] = "flush"] /\ x' = [x EXCEPT ![d] = 1]
    BY <1>9 DEF Final, Go, bufferVars, mapVars
  <2>2. ReadsOK(d)' /\ Others(d)
    BY <1>1, <2>1 DEF ReadsOK
  <2> QED
    BY <1>1, <1>2, <2>1, <2>2 DEF BufferOK
<1>10. ASSUME NEW d \in Context, FinalEnd(d) PROVE BufferOK'
  <2>1. UNCHANGED <<slot, count, cells, path, x>> /\ pc' = [pc EXCEPT ![d] = "idle"]
    BY <1>10 DEF FinalEnd, Go, bufferVars, mapVars
  <2>2. ReadsOK(d)' /\ Others(d)
    BY <1>1, <2>1 DEF ReadsOK
  <2> QED
    BY <1>1, <1>2, <2>1, <2>2 DEF BufferOK
<1>11. ASSUME NEW t \in Thread, NEW n \in Name, Register(t, n) PROVE BufferOK'
  <2> DEFINE d == Base(t)
  <2>1. /\ UNCHANGED <<slot, count>> /\ path' = [path EXCEPT ![d] = NameLog(n)]
        /\ NameLog(n) \in Path /\ d \in Context
    BY <1>11, Paths, Contexts DEF Register, bufferVars
  <2>2. /\ DOMAIN cells \subseteq DOMAIN cells'
        /\ pc'[d] \in {"link", "last"} => x'[d] \in DOMAIN cells'
    BY <1>11, RegisterCells
  <2> HIDE DEF d
  <2>3. /\ pc' = [pc EXCEPT ![d] = "rename"] \/ pc' = [pc EXCEPT ![d] = "link"]
        /\ x' = x \/ x' = [x EXCEPT ![d] = Len(cells) + 1]
    BY <1>11 DEF Register, Go, d
  <2>4. ReadsOK(d)' /\ Others(d)
    BY <1>1, <2>1, <2>2, <2>3 DEF ReadsOK
  <2> QED
    BY <1>1, <1>2, <2>1, <2>4 DEF BufferOK
<1>12. ASSUME NEW t \in Thread, Link(t) \/ SetLast(t) PROVE BufferOK'
  <2> DEFINE d == Base(t)
  <2>1. /\ UNCHANGED <<slot, count, cells, x, path>> /\ d \in Context
        /\ \/ pc[d] = "link" /\ pc' = [pc EXCEPT ![d] = "last"]
           \/ pc[d] = "last" /\ pc' = [pc EXCEPT ![d] = "rename"]
    BY <1>12, Contexts DEF Link, SetLast, Go, Runs, bufferVars
  <2> HIDE DEF d
  <2>2. ReadsOK(d)' /\ Others(d)
    BY <1>1, <2>1 DEF ReadsOK
  <2> QED
    BY <1>1, <1>2, <2>1, <2>2 DEF BufferOK
<1>13. ASSUME NEW t \in Thread, Rename(t) PROVE BufferOK'
  <2> DEFINE d == Base(t)
  <2>1. /\ UNCHANGED <<slot, count, cells>> /\ pc' = [pc EXCEPT ![d] = "idle"] /\ d \in Context
        /\ x' = [x EXCEPT ![d] = 0] /\ path' = [path EXCEPT ![d] = NULL]
    BY <1>13, Contexts DEF Rename, Go, bufferVars, mapVars
  <2> HIDE DEF d
  <2>2. ReadsOK(d)' /\ Others(d)
    BY <1>1, <2>1 DEF ReadsOK
  <2> QED
    BY <1>1, <1>2, <2>1, <2>2 DEF BufferOK
<1> QED
  BY <1>3, <1>4, <1>5, <1>6, <1>7, <1>8, <1>9, <1>10, <1>11, <1>12, <1>13, NextCases
  DEF vars, bufferVars, mapVars, LevelSet

-----------------------------------------------------------------------------
(* The format.                                                             *)

LEMMA FormatStep ==
    ASSUME TypeOK, ControlOK, FormatOK, [Next]_vars
    PROVE  FormatOK'
<1> SUFFICES ASSUME "overlap" \notin odd'
             PROVE  /\ backup' = "general"
                    /\ \A t, u \in Thread : pc'[Handler(t)] # "idle" /\ pc'[Handler(u)] # "idle" => t = u
                    /\ fmt' = "bare" => \E t \in Thread : Restores(t)'
  BY DEF FormatOK
<1> DEFINE Goal == /\ backup' = "general"
                   /\ \A t, u \in Thread : pc'[Handler(t)] # "idle" /\ pc'[Handler(u)] # "idle" => t = u
                   /\ fmt' = "bare" => \E t \in Thread : Restores(t)'
           Quiet == /\ UNCHANGED formatVars /\ odd \subseteq odd'
                    /\ \A t \in Thread : pc'[Handler(t)] # "idle" => pc[Handler(t)] # "idle"
                    /\ \A t \in Thread : Restores(t) => Restores(t)'
           Same(t) == pc'[Handler(t)] = pc[Handler(t)] /\ job'[Handler(t)] = job[Handler(t)]
<1>1. Quiet => Goal
  BY DEF FormatOK, formatVars
<1>2. \A t \in Thread : Same(t) => (Restores(t) => Restores(t)')
  BY DEF Restores
<1>3. /\ pc \in [Context -> Label] /\ job \in [Context -> Job \cup {NULL}]
      /\ \A c \in Context : ContextOK(c)
  BY DEF TypeOK, ControlOK
<1>4. CASE UNCHANGED <<formatVars, odd, pc, job>>
  BY <1>1, <1>2, <1>4
<1>5. ASSUME NEW t \in Thread, NEW level \in Level, Log(t, level) PROVE Goal
  <2>1. \A u \in Thread : Same(u)
    BY <1>3, <1>5, Contexts DEF Log, LogCall, Go
  <2> QED
    BY <1>1, <1>2, <1>5, <2>1 DEF Log
<1>6. CASE Shutdown
  <2>1. \A u \in Thread : Same(u)
    BY <1>3, <1>6, Contexts DEF Shutdown, LogCall, Go
  <2> QED
    BY <1>1, <1>2, <1>6, <2>1 DEF Shutdown
<1>7. ASSUME NEW n \in BufferLevels, SetBufferLevel(n) PROVE Goal
  <2>1. \A u \in Thread : Same(u)
    BY <1>3, <1>7, Contexts DEF SetBufferLevel, Log, LogCall, Go
  <2> QED
    BY <1>1, <1>2, <1>7, <2>1 DEF SetBufferLevel, Log
<1>8. ASSUME NEW t \in Thread, Signal(t) PROVE Goal
  <2>1. odd' = odd /\ ~ Interrupted
    BY <1>8 DEF Signal
  <2>2. \A u \in Thread : pc[Handler(u)] = "idle" /\ ~ Restores(u)
    BY <1>3, <2>1, Contexts DEF Interrupted, Restores, ContextOK, Flushing
  <2>3. backup' = "general"
    BY <1>8, <2>1, <2>2 DEF Signal, FormatOK, TypeOK
  <2>4. /\ pc' = [pc EXCEPT ![Handler(t)] = "lock"]
        /\ job' = [job EXCEPT ![Handler(t)] = [level |-> 5, next |-> "h_restore"]]
    BY <1>8 DEF Signal, LogCall, Go
  <2>5. \A u \in Thread : u # t => pc'[Handler(u)] = "idle"
    BY <1>3, <2>2, <2>4, Contexts
  <2>6. [level |-> 5, next |-> "h_restore"] # NULL
    <3>1. [level |-> 5, next |-> "h_restore"] \in Job
      BY DEF Job
    <3> QED
      BY <3>1, LoggerAssumption
  <2>7. Restores(t)'
    BY <1>3, <2>4, <2>6, Contexts DEF Restores
  <2> QED
    BY <2>3, <2>5, <2>7
<1>9. ASSUME NEW d \in Context, HandlerLog(d) PROVE Goal
  <2>1. /\ UNCHANGED <<formatVars, odd>> /\ pc[d] \in {"h_warn", "h_info"}
        /\ pc' = [pc EXCEPT ![d] = "lock"]
        /\ \A c \in Context : c # d => job'[c] = job[c]
    BY <1>3, <1>9 DEF HandlerLog, LogCall, Go, Runs
  <2>2. job[d] = NULL
    BY <1>3, <2>1 DEF ContextOK, Flushing
  <2>3. \A u \in Thread : Restores(u) => Same(u)
    BY <1>3, <2>1, <2>2, Contexts DEF Restores
  <2>4. \A u \in Thread : pc'[Handler(u)] # "idle" => pc[Handler(u)] # "idle"
    BY <1>3, <2>1, Contexts
  <2> QED
    BY <1>1, <1>2, <2>1, <2>3, <2>4
<1>12. ASSUME NEW d \in Context, HandlerRestore(d) PROVE Goal
  <2>1. /\ pc[d] = "h_restore" /\ odd' = odd /\ fmt' = backup /\ backup' = backup
        /\ pc' = [pc EXCEPT ![d] = "lock"]
    BY <1>12 DEF HandlerRestore, LogCall, Go, Runs, FormatAfter
  <2>2. \A u \in Thread : pc'[Handler(u)] # "idle" => pc[Handler(u)] # "idle"
    BY <1>3, <2>1, Contexts
  <2> QED
    BY <2>1, <2>2 DEF FormatOK
<1>10. ASSUME NEW d \in Context,
              Store(d) \/ Probe(d) \/ WriteLine(d) \/ FlushEnd(d) \/ Final(d) \/ FinalEnd(d)
       PROVE  Goal
  <2>1. UNCHANGED formatVars /\ odd \subseteq odd' /\ pc[d] # "idle"
    BY <1>10 DEF Store, Probe, WriteLine, FlushEnd, Final, FinalEnd, Runs, Go
  <2>2. \A c \in Context \ {d} : pc'[c] = pc[c] /\ job'[c] = job[c]
    BY <1>3, <1>10 DEF Store, Probe, WriteLine, FlushEnd, Final, FinalEnd, Go
  <2>3. ASSUME NEW t \in Thread, d = Handler(t), Restores(t) PROVE Restores(t)'
    <3>1. ContextOK(d) /\ d # Base(Main)
      BY <1>3, <2>3, Contexts
    <3>2. \/ pc'[d] = job[d].next
          \/ job'[d] = job[d] /\ pc'[d] # "h_restore" /\ pc[d] # "h_restore"
      BY <1>3, <1>10, <3>1 DEF Store, Probe, WriteLine, FlushEnd, Final, FinalEnd, Runs, Go,
                               ContextOK, Flushing
    <3>3. pc[d] # "h_restore"
      BY <1>10 DEF Store, Probe, WriteLine, FlushEnd, Final, FinalEnd, Runs, Go
    <3> QED
      BY <2>3, <3>2, <3>3 DEF Restores
  <2>4. \A t \in Thread : d # Handler(t) => Same(t)
    BY <2>2, Contexts
  <2>5. \A t \in Thread : Restores(t) => Restores(t)'
    BY <1>2, <2>3, <2>4
  <2>6. \A t \in Thread : pc'[Handler(t)] # "idle" => pc[Handler(t)] # "idle"
    BY <2>1, <2>4
  <2> QED
    BY <1>1, <2>1, <2>5, <2>6
<1>11. ASSUME NEW t \in Thread, (\E n \in Name : Register(t, n)) \/ Naming(t) PROVE Goal
  <2>1. UNCHANGED <<formatVars, job>> /\ odd \subseteq odd'
    BY <1>11 DEF Naming, Register, Link, SetLast, Rename
  <2>2. \A u \in Thread : pc'[Handler(u)] = pc[Handler(u)]
    BY <1>3, <1>11, Contexts DEF Naming, Register, Link, SetLast, Rename, Go
  <2> QED
    BY <1>1, <1>2, <2>1, <2>2
<1> QED
  BY <1>4, <1>5, <1>6, <1>7, <1>8, <1>9, <1>10, <1>11, <1>12 DEF Next, Step, vars

-----------------------------------------------------------------------------
(* The list of entries.                                                    *)

\* Everything but a registration leaves the list alone.
LEMMA ListAlone ==
    ASSUME TypeOK, ControlOK, [Next]_vars,
           ~ \E t \in Thread : (\E n \in Name : Register(t, n)) \/ Link(t) \/ SetLast(t)
    PROVE  /\ UNCHANGED <<cells, chain, lastEntry, regs>> /\ odd \subseteq odd'
           /\ "race" \in odd' <=> "race" \in odd
           /\ "memory" \in odd' <=> "memory" \in odd
           /\ \A t \in Thread :
                 LET c == Base(t) IN
                 /\ pc'[c] = "link" <=> pc[c] = "link"
                 /\ pc'[c] = "last" <=> pc[c] = "last"
                 /\ pc[c] \in {"link", "last"} => x'[c] = x[c]
<1> DEFINE Kept(c) == /\ pc'[c] = "link" <=> pc[c] = "link"
                      /\ pc'[c] = "last" <=> pc[c] = "last"
                      /\ pc[c] \in {"link", "last"} => x'[c] = x[c]
           List == /\ UNCHANGED <<cells, chain, lastEntry, regs>> /\ odd \subseteq odd'
                   /\ "race" \in odd' <=> "race" \in odd
                   /\ "memory" \in odd' <=> "memory" \in odd
           Goal == List /\ \A t \in Thread : Kept(Base(t))
<1>1. /\ pc \in [Context -> Label] /\ x \in [Context -> Nat]
      /\ \A c \in Context : ContextOK(c)
      /\ \A t \in Thread : Base(t) \in Context
  BY Contexts DEF TypeOK, ControlOK
<1>2. CASE UNCHANGED <<cells, chain, lastEntry, regs, odd, pc, x>>
  BY <1>2
<1>3. ASSUME NEW d \in Context, Call(d) PROVE Goal
  <2>1. /\ List /\ pc[d] \in {"idle"} \cup Restart /\ pc' = [pc EXCEPT ![d] = "lock"] /\ x' = x
    BY <1>3 DEF Call, Calling, mapVars
  <2> QED
    BY <1>1, <2>1
<1>4. ASSUME NEW d \in Context, Store(d) \/ FlushEnd(d) PROVE Goal
  <2>1. /\ List /\ pc[d] \in {"lock", "flush"} /\ x' \in [Context -> Int]
        /\ \E label : /\ pc' = [pc EXCEPT ![d] = label]
                      /\ label \in {"flush", job[d].next}
        /\ \A c \in Context \ {d} : x'[c] = x[c]
        /\ job[d] # NULL
    BY <1>1, <1>4 DEF Store, FlushEnd, Go, Runs, mapVars, ContextOK
  <2>2. job[d].next \in {"idle", "final"} \cup Restart
    BY <1>1, <2>1 DEF ContextOK
  <2> QED
    BY <1>1, <2>1, <2>2
<1>5. ASSUME NEW d \in Context, Probe(d) \/ WriteLine(d) \/ Final(d) \/ FinalEnd(d) PROVE Goal
  <2>1. List
    BY <1>5 DEF Probe, WriteLine, Final, FinalEnd, mapVars
  <2>2. /\ pc[d] \in {"flush", "create", "append", "final"}
        /\ pc'[d] \in {"flush", "create", "append", "idle"}
        /\ \A c \in Context \ {d} : x'[c] = x[c] /\ pc'[c] = pc[c]
    BY <1>1, <1>5 DEF Probe, WriteLine, Final, FinalEnd, Runs, Go
  <2> QED
    BY <1>1, <2>1, <2>2
<1>6. ASSUME NEW t \in Thread, Rename(t) PROVE Goal
  <2>1. /\ List /\ pc[Base(t)] = "rename" /\ pc' = [pc EXCEPT ![Base(t)] = "idle"]
        /\ x' = [x EXCEPT ![Base(t)] = 0]
    BY <1>6 DEF Rename, Go, Runs, mapVars
  <2> QED
    BY <1>1, <2>1, Contexts
<1> QED
  BY <1>2, <1>3, <1>4, <1>5, <1>6, NextCases DEF vars, mapVars, LevelSet

\* An entry has the path of a name of its thread.
LEMMA CellsStep ==
    ASSUME TypeOK, ControlOK, CellsOK, [Next]_vars
    PROVE  CellsOK'
<1>1. CASE UNCHANGED <<cells, regs>>
  BY <1>1 DEF CellsOK
<1>2. ASSUME NEW t \in Thread, NEW n \in Name, Register(t, n) PROVE CellsOK'
  <2>1. regs' = regs \cup {<<t, n>>} /\ regs \subseteq Thread \X Name
    BY <1>2 DEF Register, TypeOK
  <2>2. /\ \A i \in DOMAIN cells : cells'[i].thread = cells[i].thread
        /\ \A i \in DOMAIN cells' : \/ cells'[i].path = NameLog(n) /\ cells'[i].thread = t
                                    \/ i \in DOMAIN cells /\ cells'[i] = cells[i]
                                    \/ /\ i \in DOMAIN cells /\ cells[i].thread = t
                                       /\ cells'[i].path = Overwritten(cells[i].path, n)
    BY <1>2, RegisterCells
  <2> SUFFICES ASSUME NEW i \in DOMAIN cells'
               PROVE  /\ <<cells'[i].thread, cells'[i].path[1]>> \in regs'
                      /\ \A m \in Name : (\A r \in regs' : r[1] = cells'[i].thread => r[2] = m) =>
                             cells'[i].path = NameLog(m)
    BY DEF CellsOK
  <2>3. \A m \in Name : (\A r \in regs' : r[1] = t => r[2] = m) => m = n
    <3>1. <<t, n>> \in regs' /\ <<t, n>>[1] = t /\ <<t, n>>[2] = n
      BY <2>1
    <3> QED
      BY <3>1, Zenon
  <2>4. CASE cells'[i].path = NameLog(n) /\ cells'[i].thread = t
    BY <2>1, <2>3, <2>4, Paths
  <2>5. CASE i \in DOMAIN cells /\ cells'[i] = cells[i]
    BY <2>1, <2>5 DEF CellsOK
  <2>6. CASE /\ i \in DOMAIN cells /\ cells[i].thread = t
             /\ cells'[i].path = Overwritten(cells[i].path, n)
    <3>1. cells[i].path \in Path /\ cells'[i].thread = t
      BY <2>2, <2>6, ListTypes
    <3>2. cells'[i].path[1] = n
      BY <2>6, <3>1, Paths
    <3>3. ASSUME NEW m \in Name, \A r \in regs' : r[1] = t => r[2] = m
          PROVE  cells'[i].path = NameLog(m)
      <4>1. m = n
        BY <2>3, <3>3
      <4>2. cells[i].path = NameLog(n)
        BY <2>1, <2>6, <3>3, <4>1 DEF CellsOK
      <4> QED
        BY <2>6, <4>1, <4>2, Paths
    <3> QED
      BY <2>1, <3>1, <3>2, <3>3
  <2> QED
    BY <2>2, <2>4, <2>5, <2>6
<1>3. ASSUME NEW t \in Thread, Link(t) \/ SetLast(t) PROVE CellsOK'
  BY <1>1, <1>3 DEF Link, SetLast
<1> QED
  BY <1>1, <1>2, <1>3, ListAlone

\* Who was registered has an entry, unless there was no memory.
LEMMA EntriesStep ==
    ASSUME TypeOK, ControlOK, EntriesOK, [Next]_vars
    PROVE  EntriesOK'
<1>1. CASE UNCHANGED <<cells, regs>> /\ ("memory" \in odd' <=> "memory" \in odd)
  BY <1>1 DEF EntriesOK
<1>2. ASSUME NEW t \in Thread, NEW n \in Name, Register(t, n) PROVE EntriesOK'
  <2> SUFFICES ASSUME "memory" \notin odd', NEW r \in regs'
               PROVE  \E k \in DOMAIN cells' : cells'[k].thread = r[1]
    BY DEF EntriesOK
  <2>1. /\ regs' = regs \cup {<<t, n>>} /\ "memory" \notin odd
        /\ ~ (~ IsEntered(t) /\ Len(cells) = MaxCells)
    BY <1>2 DEF Register
  <2>2. /\ DOMAIN cells \subseteq DOMAIN cells'
        /\ \A i \in DOMAIN cells : cells'[i].thread = cells[i].thread
    BY <1>2, RegisterCells
  <2>3. CASE r \in regs
    BY <2>1, <2>2, <2>3 DEF EntriesOK
  <2>4. CASE r = <<t, n>>
    <3>1. CASE IsEntered(t)
      BY <2>2, <2>4, <3>1, EntryFacts
    <3>2. CASE ~ IsEntered(t)
      <4> DEFINE new == [thread |-> t, path |-> NameLog(n)]
      <4>1. cells' = Append(cells, new)
        BY <1>2, <2>1, <3>2 DEF Register
      <4>2. cells'[Len(cells) + 1] = new /\ Len(cells') = Len(cells) + 1
        BY <4>1, ListTypes, Paths, AppendProperties DEF TypeOK
      <4>3. Len(cells) + 1 \in DOMAIN cells'
        BY <1>2, <4>2, RegisterCells, LenProperties, ListTypes
      <4> QED
        BY <2>4, <4>2, <4>3
    <3> QED
      BY <3>1, <3>2
  <2> QED
    BY <2>1, <2>3, <2>4
<1>3. ASSUME NEW t \in Thread, Link(t) \/ SetLast(t) PROVE EntriesOK'
  BY <1>1, <1>3 DEF Link, SetLast
<1> QED
  BY <1>1, <1>2, <1>3, ListAlone

\* The list stays what it was, in what is said of it.
LEMMA ListSame ==
    ASSUME ListOK, UNCHANGED <<cells, chain, lastEntry>>, "race" \in odd => "race" \in odd',
           \A t \in Thread :
              LET c == Base(t) IN
              /\ pc'[c] = "link" <=> pc[c] = "link"
              /\ pc'[c] = "last" <=> pc[c] = "last"
              /\ pc[c] \in {"link", "last"} => x'[c] = x[c],
           TypeOK
    PROVE  ListOK'
<1>1. \A k \in DOMAIN cells : cells[k].thread \in Thread
  BY ListTypes
<1>2. DOMAIN cells' = DOMAIN cells /\ DOMAIN chain' = DOMAIN chain /\ Len(chain') = Len(chain)
  OBVIOUS
<1>3. \A k : InList(k)' <=> InList(k)
  BY DEF InList
<1> QED
  BY <1>1, <1>2, <1>3 DEF ListOK, Linked

\* A list that leads to an entry of the thread is one that finds the thread.
LEMMA Entered ==
    ASSUME NEW k, NEW t, InList(k), cells[k].thread = t
    PROVE  IsEntered(t)
BY DEF InList, IsEntered, EntriesOf

\* Without a race the list stays one that leads to each entry once.
LEMMA ListStep ==
    ASSUME TypeOK, ControlOK, BufferOK, ListOK, [Next]_vars
    PROVE  ListOK'
<1>1. /\ pc \in [Context -> Label] /\ x \in [Context -> Nat]
      /\ \A t \in Thread : Base(t) \in Context
      /\ \A t, u \in Thread : Base(t) = Base(u) => t = u
      /\ DOMAIN cells = 1..Len(cells) /\ Len(cells) \in Nat
      /\ DOMAIN chain = 1..Len(chain) /\ Len(chain) \in Nat
      /\ \A i \in DOMAIN chain : chain[i] \in DOMAIN cells
      /\ \A k \in DOMAIN cells : cells[k].thread \in Thread
  BY Contexts, ListTypes DEF TypeOK
<1>2. CASE ~ \E t \in Thread : (\E n \in Name : Register(t, n)) \/ Link(t) \/ SetLast(t)
  BY <1>2, ListAlone, ListSame
<1>3. ASSUME NEW t \in Thread, NEW n \in Name, Register(t, n) PROVE ListOK'
  <2>1. /\ UNCHANGED <<chain, lastEntry>> /\ pc[Base(t)] = "idle"
        /\ "race" \in odd => "race" \in odd'
    BY <1>3 DEF Register, Go, Runs
  <2>2. CASE IsEntered(t) \/ Len(cells) = MaxCells
    <3>1. /\ pc' = [pc EXCEPT ![Base(t)] = "rename"] /\ x' = x
      BY <1>3, <2>2, LoggerAssumption DEF Register, Go
    <3>2. \/ cells' = cells
          \/ /\ IsEntered(t)
             /\ cells' = [cells EXCEPT ![EntryOf(t)].path = Overwritten(@, n)]
      BY <1>3, <2>2 DEF Register
    <3>3. DOMAIN cells' = DOMAIN cells
      BY <3>2
    <3>4. \A k \in DOMAIN cells : cells'[k].thread = cells[k].thread
      BY <1>3, RegisterCells
    <3>5. \A u \in Thread : LET c == Base(u) IN
              /\ pc'[c] = "link" <=> pc[c] = "link"
              /\ pc'[c] = "last" <=> pc[c] = "last"
      BY <1>1, <2>1, <3>1
    <3>6. \A k : InList(k)' <=> InList(k)
      BY <2>1 DEF InList
    <3>7. \A u \in Thread : pc[Base(u)] \in {"link", "last"} => x[Base(u)] \in DOMAIN cells
      BY <1>1 DEF BufferOK, ReadsOK
    <3> QED
      BY <1>1, <2>1, <3>1, <3>3, <3>4, <3>5, <3>6, <3>7 DEF ListOK, Linked
  <2>3. CASE ~ IsEntered(t) /\ Len(cells) # MaxCells
    <3> DEFINE new == [thread |-> t, path |-> NameLog(n)]
               e == Len(cells) + 1
    <3>1. /\ pc' = [pc EXCEPT ![Base(t)] = "link"] /\ x' = [x EXCEPT ![Base(t)] = e]
          /\ cells' = Append(cells, new)
      BY <1>3, <2>3 DEF Register, Go
    <3>2. /\ cells'[e] = new /\ Len(cells') = e
          /\ \A k \in 1..Len(cells) : cells'[k] = cells[k]
      BY <3>1, ListTypes, Paths, AppendProperties DEF TypeOK
    <3>3. DOMAIN cells' = 1..e
      BY <1>1, <1>3, <3>2, RegisterCells, LenProperties
    <3>4. new.thread = t
      OBVIOUS
    <3>5. e \notin DOMAIN cells
      BY <1>1
    <3>6. \A k \in DOMAIN cells' : k \in DOMAIN cells \/ k = e
      BY <1>1, <3>3
    <3> HIDE DEF new, e
    <3>7. SUFFICES ASSUME "race" \notin odd, Linked PROVE Linked'
      BY <2>1 DEF ListOK
    <3>8. \A k \in DOMAIN cells : cells[k].thread # t
      BY <2>1, <2>3, <3>7, Entered DEF Linked
    <3>9. \A k \in DOMAIN cells : cells'[k].thread = cells[k].thread
      BY <1>1, <3>2
    <3>10. \A k \in DOMAIN cells' : InList(k)' <=> pc'[Base(cells'[k].thread)] # "link"
      <4>1. ~ InList(e)
        BY <1>1, <3>5 DEF InList
      <4>2. \A k : InList(k)' <=> InList(k)
        BY <2>1 DEF InList
      <4>3. \A k \in DOMAIN cells : pc'[Base(cells'[k].thread)] = pc[Base(cells[k].thread)]
        BY <1>1, <3>1, <3>8, <3>9
      <4>4. pc'[Base(cells'[e].thread)] = "link"
        BY <1>1, <3>1, <3>2, <3>4
      <4> QED
        BY <3>6, <3>7, <4>1, <4>2, <4>3, <4>4 DEF Linked
    <3>11. \A i, j \in DOMAIN cells' : cells'[i].thread = cells'[j].thread => i = j
      BY <3>2, <3>4, <3>6, <3>7, <3>8, <3>9 DEF Linked
    <3>12. \A u \in Thread : pc'[Base(u)] \in {"link", "last"} => cells'[x'[Base(u)]].thread = u
      BY <1>1, <3>1, <3>2, <3>4, <3>7, <3>9 DEF BufferOK, ReadsOK, Linked
    <3>13. \A u \in Thread : (pc'[Base(u)] = "last" <=> pc[Base(u)] = "last")
      BY <1>1, <2>1, <3>1
    <3>14. \A u \in Thread : pc'[Base(u)] = "last" => x'[Base(u)] = x[Base(u)]
      BY <1>1, <2>1, <3>1
    <3> QED
      BY <2>1, <3>7, <3>10, <3>11, <3>12, <3>13, <3>14 DEF Linked
  <2> QED
    BY <2>2, <2>3
<1>4. ASSUME NEW t \in Thread, Link(t) PROVE ListOK'
  <2> DEFINE e == x[Base(t)]
  <2>1. /\ UNCHANGED <<cells, lastEntry, x>> /\ pc[Base(t)] = "link"
        /\ pc' = [pc EXCEPT ![Base(t)] = "last"]
        /\ odd' = IF \E u \in Thread : pc[Base(u)] = "last" THEN odd \cup {"race"} ELSE odd
    BY <1>4 DEF Link, Go, Runs
  <2>2. e \in DOMAIN cells
    BY <1>4, LinkList
  <2>3. \/ chain' = chain /\ ~ \E i \in DOMAIN chain : chain[i] = lastEntry
        \/ \E k \in DOMAIN chain :
              /\ chain[k] = lastEntry /\ Len(chain') = k + 1
              /\ DOMAIN chain' = 1..(k + 1)
              /\ \A i \in 1..k : chain'[i] = chain[i]
              /\ chain'[k + 1] = e
    BY <1>4, LinkList
  <2> HIDE DEF e
  <2> SUFFICES ASSUME "race" \notin odd' PROVE Linked'
    BY DEF ListOK
  <2>4. Linked /\ \A u \in Thread : pc[Base(u)] # "last"
    BY <2>1 DEF ListOK, Linked
  <2>5. cells[e].thread = t /\ ~ InList(e)
    BY <1>1, <2>1, <2>2, <2>4 DEF e, Linked
  <2>6. PICK k \in DOMAIN chain :
           /\ chain[k] = lastEntry /\ Len(chain') = k + 1
           /\ DOMAIN chain' = 1..(k + 1)
           /\ \A i \in 1..k : chain'[i] = chain[i]
           /\ chain'[k + 1] = e
    <3>1. Len(chain) \in DOMAIN chain /\ chain[Len(chain)] = lastEntry
      BY <1>1, <2>4 DEF Linked
    <3> QED
      BY <2>3, <3>1
  <2>7. k = Len(chain)
    BY <1>1, <2>4, <2>6 DEF Linked
  <2>8. /\ Len(chain') = Len(chain) + 1 /\ DOMAIN chain' = 1..(Len(chain) + 1)
        /\ \A i \in DOMAIN chain : chain'[i] = chain[i]
        /\ chain'[Len(chain) + 1] = e
    BY <1>1, <2>6, <2>7
  <2>9. \A i \in DOMAIN chain' : i \in DOMAIN chain \/ i = Len(chain) + 1
    BY <1>1, <2>8
  <2>10. \A i, j \in DOMAIN chain' : chain'[i] = chain'[j] => i = j
    BY <2>4, <2>5, <2>8, <2>9 DEF InList, Linked
  <2>11. \A j : InList(j)' <=> InList(j) \/ j = e
    BY <1>1, <2>8, <2>9 DEF InList
  <2>12. \A j \in DOMAIN cells' : InList(j)' <=> pc'[Base(cells'[j].thread)] # "link"
    <3>1. \A j \in DOMAIN cells : cells[j].thread = t => j = e
      BY <2>2, <2>4, <2>5 DEF Linked
    <3>2. \A j \in DOMAIN cells \ {e} :
             pc'[Base(cells'[j].thread)] = pc[Base(cells[j].thread)]
      BY <1>1, <2>1, <3>1
    <3>3. pc'[Base(cells'[e].thread)] = "last"
      BY <1>1, <2>1, <2>5
    <3> QED
      BY <2>1, <2>4, <2>11, <3>2, <3>3 DEF Linked
  <2>13. \A u \in Thread : pc'[Base(u)] = "last" => u = t
    BY <1>1, <2>1, <2>4 DEF Linked
  <2>14. \A u \in Thread : pc'[Base(u)] \in {"link", "last"} => cells'[x'[Base(u)]].thread = u
    BY <1>1, <2>1, <2>4 DEF Linked
  <2>15. chain'[Len(chain')] = e /\ x'[Base(t)] = e /\ Len(chain') > 0
    BY <1>1, <2>1, <2>8 DEF e
  <2>16. pc'[Base(t)] = "last"
    BY <1>1, <2>1
  <2> QED
    BY <2>1, <2>4, <2>10, <2>12, <2>13, <2>14, <2>15, <2>16 DEF Linked
<1>5. ASSUME NEW t \in Thread, SetLast(t) PROVE ListOK'
  <2>1. /\ UNCHANGED <<cells, chain, x, odd>> /\ pc[Base(t)] = "last"
        /\ pc' = [pc EXCEPT ![Base(t)] = "rename"] /\ lastEntry' = x[Base(t)]
    BY <1>5 DEF SetLast, Go, Runs
  <2> SUFFICES ASSUME "race" \notin odd' PROVE Linked'
    BY DEF ListOK
  <2>2. Linked
    BY <2>1 DEF ListOK, Linked
  <2>3. \A u \in Thread : /\ pc'[Base(u)] = "link" <=> pc[Base(u)] = "link"
                          /\ pc'[Base(u)] = "last" <=> pc[Base(u)] = "last" /\ u # t
    BY <1>1, <2>1
  <2>4. \A k : InList(k)' <=> InList(k)
    BY <2>1 DEF InList
  <2>5. \A u \in Thread : pc[Base(u)] = "last" => u = t
    BY <2>1, <2>2 DEF Linked
  <2>6. chain'[Len(chain')] = lastEntry'
    BY <2>1, <2>2 DEF Linked
  <2>7. \A k \in DOMAIN cells' : cells'[k].thread \in Thread
    BY <1>1, <2>1
  <2> QED
    BY <2>1, <2>2, <2>3, <2>4, <2>5, <2>6, <2>7 DEF Linked
<1> QED
  BY <1>2, <1>3, <1>4, <1>5

-----------------------------------------------------------------------------
(* Where the lines go.                                                     *)

\* Who has the lock flushes; until the last flush, who flushes has it.
LEMMA LockHolder ==
    ASSUME ControlOK
    PROVE  /\ LogLock # NULL /\ LogLock \in Context => pc[LogLock] \in Flushing
           /\ \A c \in Context : "final" \notin odd /\ pc[c] \in Flushing => LogLock = c
           /\ \A c \in Context : pc[c] \in Flushing /\ job[c] # NULL => LogLock = c
           /\ \A c \in Context : pc[c] \notin Flushing => LogLock # c
BY DEF ControlOK, ContextOK

\* Nothing but these steps moves a line.
LEMMA Quiet ==
    ASSUME TypeOK, ControlOK, [Next]_vars,
           ~ \E c \in Context : Store(c) \/ WriteLine(c) \/ FlushEnd(c),
           ~ \E t \in Thread : Rename(t)
    PROVE  /\ UNCHANGED <<LogLock, slot, count, logged, file, lost>>
           /\ First' = First /\ odd \subseteq odd'
<1> DEFINE Goal == /\ UNCHANGED <<LogLock, slot, count, logged, file, lost>>
                   /\ First' = First /\ odd \subseteq odd'
           Still == UNCHANGED <<LogLock, slot, count, logged, file, lost>>
<1>1. /\ x \in [Context -> Nat] /\ LogLock \in Context \cup {NULL}
      /\ \A c \in Context : pc[c] \notin Flushing => LogLock # c
      /\ \A t \in Thread : Base(t) \in Context
  BY Contexts, LockHolder DEF TypeOK
<1>2. CASE UNCHANGED <<LogLock, slot, count, logged, file, lost, x, odd>>
  BY <1>2 DEF First
<1>3. ASSUME NEW d \in Context, Call(d) \/ Probe(d) \/ FinalEnd(d) PROVE Goal
  <2>1. Still /\ x' = x /\ odd \subseteq odd'
    BY <1>3 DEF Call, Calling, Probe, FinalEnd, bufferVars, ioVars
  <2> QED
    BY <2>1 DEF First
<1>4. ASSUME NEW d \in Context, Final(d) PROVE Goal
  <2>1. Still /\ x' = [x EXCEPT ![d] = 1] /\ odd \subseteq odd' /\ pc[d] = "final"
    BY <1>4 DEF Final, Go, Runs, bufferVars, ioVars
  <2> QED
    BY <1>1, <2>1 DEF First, Flushing
<1>5. ASSUME NEW t \in Thread, NEW n \in Name, Register(t, n) PROVE Goal
  <2>1. /\ Still /\ odd \subseteq odd' /\ pc[Base(t)] = "idle"
        /\ x' = x \/ x' = [x EXCEPT ![Base(t)] = Len(cells) + 1]
    BY <1>5 DEF Register, Go, Runs, bufferVars, ioVars
  <2> QED
    BY <1>1, <2>1 DEF First, Flushing
<1>6. ASSUME NEW t \in Thread, Link(t) \/ SetLast(t) PROVE Goal
  <2>1. Still /\ x' = x /\ odd \subseteq odd'
    BY <1>6 DEF Link, SetLast, bufferVars, ioVars
  <2> QED
    BY <2>1 DEF First
<1> QED
  BY <1>2, <1>3, <1>4, <1>5, <1>6, NextCases DEF vars, bufferVars, ioVars, LevelSet

\* What has happened stays.
LEMMA HistoryGrows ==
    ASSUME TypeOK, ControlOK, [Next]_vars
    PROVE  odd \subseteq odd' /\ regs \subseteq regs'
<1>1. ASSUME NEW d \in Context, Call(d) \/ Probe(d) \/ Final(d) \/ FinalEnd(d)
      PROVE  odd \subseteq odd' /\ regs \subseteq regs'
  BY <1>1 DEF Call, Calling, Probe, Final, FinalEnd
<1>2. ASSUME NEW d \in Context, Store(d) \/ WriteLine(d) \/ FlushEnd(d)
      PROVE  odd \subseteq odd' /\ regs \subseteq regs'
  BY <1>2 DEF Store, WriteLine, FlushEnd
<1>3. ASSUME NEW t \in Thread,
             (\E n \in Name : Register(t, n)) \/ Link(t) \/ SetLast(t) \/ Rename(t)
      PROVE  odd \subseteq odd' /\ regs \subseteq regs'
  BY <1>3 DEF Register, Link, SetLast, Rename
<1> QED
  BY <1>1, <1>2, <1>3, NextCases DEF vars, LevelSet

LEMMA Appended ==
    ASSUME NEW S, NEW s \in Seq(S), NEW e \in S
    PROVE  /\ Len(Append(s, e)) = Len(s) + 1 /\ Len(s) \in Nat
           /\ DOMAIN s = 1..Len(s) /\ DOMAIN Append(s, e) = 1..(Len(s) + 1)
           /\ \A i \in DOMAIN s : Append(s, e)[i] = s[i]
           /\ Append(s, e)[Len(s) + 1] = e
           /\ \A i \in DOMAIN Append(s, e) : i \in DOMAIN s \/ i = Len(s) + 1
           /\ ToSet(Append(s, e)) = ToSet(s) \cup {e}
<1> DEFINE r == Append(s, e)
<1>1. /\ r \in Seq(S) /\ Len(r) = Len(s) + 1 /\ r[Len(s) + 1] = e
      /\ \A i \in 1..Len(s) : r[i] = s[i]
  BY AppendProperties
<1> HIDE DEF r
<1>2. Len(s) \in Nat /\ DOMAIN s = 1..Len(s) /\ DOMAIN r = 1..(Len(s) + 1)
  BY <1>1, LenProperties
<1>3. \A i \in DOMAIN r : i \in DOMAIN s \/ i = Len(s) + 1
  BY <1>2
<1>4. Len(s) + 1 \in DOMAIN r /\ DOMAIN s \subseteq DOMAIN r
  BY <1>2
<1>5. ToSet(r) = ToSet(s) \cup {e}
  BY <1>1, <1>2, <1>3, <1>4 DEF ToSet
<1> QED
  BY <1>1, <1>2, <1>3, <1>5 DEF r

\* A write leaves each line where it was, or it is lost, and adds one.
LEMMA WriteKeeps ==
    ASSUME TypeOK, BufferOK, NEW c \in Context, WriteLine(c)
    PROVE  /\ \A m : InFile(m) => InFile(m)' \/ m \in lost'
           /\ \A m : m = slot[x[c]] => InFile(m)' \/ m \in lost'
           /\ \A p \in Path : \A i \in DOMAIN file'[p] :
                 \/ i \in DOMAIN file[p] /\ file'[p][i] = file[p][i]
                 \/ /\ p = path[c] /\ file'[p][i] = slot[x[c]] /\ i = Len(Emptied(c)[p]) + 1
                    /\ pc[c] = "append" => i \notin DOMAIN file[p]
           /\ lost \subseteq lost'
<1> DEFINE p0 == path[c]
           e == slot[x[c]]
           s == Emptied(c)[p0]
           gone == ToSet(file[p0]) \ ToSet(file'[p0])
<1>1. /\ p0 \in Path /\ e \in Line /\ s \in Seq(Line)
      /\ \A p \in Path \ {p0} : file'[p] = file[p]
      /\ \/ file'[p0] = s /\ lost' = lost \cup {e} \cup gone
         \/ file'[p0] = Append(s, e) /\ lost' = lost \cup gone
      /\ s = IF pc[c] = "create" THEN <<>> ELSE file[p0]
  BY WriteFiles
<1>2. DOMAIN <<>> = {} /\ Len(<<>>) = 0 /\ file[p0] \in Seq(Line)
  BY <1>1 DEF TypeOK
<1> HIDE DEF p0, e, s
<1>3. /\ \A i \in DOMAIN s : i \in DOMAIN file[p0] /\ s[i] = file[p0][i]
      /\ Len(s) \in Nat /\ DOMAIN s = 1..Len(s)
  BY <1>1, <1>2, LenProperties
<1>4. \/ file'[p0] = s /\ e \in lost'
      \/ /\ DOMAIN file'[p0] = 1..(Len(s) + 1) /\ file'[p0][Len(s) + 1] = e
         /\ \A i \in DOMAIN s : file'[p0][i] = s[i]
         /\ \A i \in DOMAIN file'[p0] : i \in DOMAIN s \/ i = Len(s) + 1
  BY <1>1, Appended
<1>5. ASSUME NEW m, InFile(m) PROVE InFile(m)' \/ m \in lost'
  <2>1. PICK p \in Path : \E i \in DOMAIN file[p] : file[p][i] = m
    BY <1>5 DEF InFile
  <2>2. CASE p # p0
    BY <1>1, <2>1, <2>2 DEF InFile
  <2>3. CASE p = p0
    <3>1. m \in ToSet(file[p0])
      BY <2>1, <2>3 DEF ToSet
    <3>2. m \in ToSet(file'[p0]) => \E i \in DOMAIN file'[p0] : file'[p0][i] = m
      BY DEF ToSet
    <3> QED
      BY <1>1, <3>1, <3>2 DEF InFile
  <2> QED
    BY <2>2, <2>3
<1>6. ASSUME NEW m, m = e PROVE InFile(m)' \/ m \in lost'
  <2>1. CASE DOMAIN file'[p0] = 1..(Len(s) + 1) /\ file'[p0][Len(s) + 1] = e
    <3>1. Len(s) + 1 \in DOMAIN file'[p0]
      BY <1>3, <2>1
    <3> QED
      BY <1>1, <1>6, <2>1, <3>1 DEF InFile
  <2> QED
    BY <1>4, <1>6, <2>1
<1>7. ASSUME NEW p \in Path, NEW i \in DOMAIN file'[p]
      PROVE  \/ i \in DOMAIN file[p] /\ file'[p][i] = file[p][i]
             \/ /\ p = p0 /\ file'[p][i] = e /\ i = Len(s) + 1
                /\ pc[c] = "append" => i \notin DOMAIN file[p]
  <2>1. CASE p # p0
    BY <1>1, <2>1
  <2>2. CASE p = p0
    <3>1. pc[c] = "append" => Len(s) + 1 \notin DOMAIN file[p0]
      BY <1>1, <1>3
    <3> QED
      BY <1>3, <1>4, <2>2, <3>1
  <2> QED
    BY <2>1, <2>2
<1>8. lost \subseteq lost'
  BY <1>1
<1> QED
  BY <1>5, <1>6, <1>7, <1>8 DEF p0, e, s

\* A rename moves the lines of a file, or loses those of the other.
LEMMA RenameKeeps ==
    ASSUME TypeOK, BufferOK, PathsOK, NEW t \in Thread, Rename(t)
    PROVE  /\ \A m : InFile(m) => InFile(m)' \/ m \in lost'
           /\ \A p \in Path : \A i \in DOMAIN file'[p] :
                 \E q \in Path :
                    /\ i \in DOMAIN file[q] /\ file'[p][i] = file[q][i]
                    /\ q = p \/ (p = path[Base(t)] /\ q = ThreadLog(t) /\ file'[q] = <<>>)
           /\ lost \subseteq lost'
<1>1. /\ path[Base(t)] \in Path /\ ThreadLog(t) \in Path /\ path[Base(t)] # ThreadLog(t)
      /\ \/ file[ThreadLog(t)] = <<>> /\ UNCHANGED <<file, lost>>
         \/ /\ file[ThreadLog(t)] # <<>>
            /\ file'[path[Base(t)]] = file[ThreadLog(t)] /\ file'[ThreadLog(t)] = <<>>
            /\ \A p \in Path \ {path[Base(t)], ThreadLog(t)} : file'[p] = file[p]
            /\ lost' = lost \cup ToSet(file[path[Base(t)]])
  BY RenameFiles
<1>2. CASE file[ThreadLog(t)] = <<>> /\ UNCHANGED <<file, lost>>
  BY <1>2 DEF InFile
<1> DEFINE a == ThreadLog(t)
           b == path[Base(t)]
<1>3. CASE /\ file'[b] = file[a] /\ file'[a] = <<>>
           /\ \A p \in Path \ {b, a} : file'[p] = file[p]
           /\ lost' = lost \cup ToSet(file[b])
  <2>1. a \in Path /\ b \in Path /\ a # b /\ DOMAIN <<>> = {}
    BY <1>1
  <2> HIDE DEF a, b
  <2>2. ASSUME NEW m, InFile(m) PROVE InFile(m)' \/ m \in lost'
    <3>1. PICK p \in Path : \E i \in DOMAIN file[p] : file[p][i] = m
      BY <2>2 DEF InFile
    <3>2. CASE p = b
      BY <1>3, <3>1, <3>2 DEF ToSet
    <3>3. CASE p = a
      BY <1>3, <2>1, <3>1, <3>3 DEF InFile
    <3>4. CASE p # a /\ p # b
      BY <1>3, <3>1, <3>4 DEF InFile
    <3> QED
      BY <3>2, <3>3, <3>4
  <2>3. ASSUME NEW p \in Path, NEW i \in DOMAIN file'[p]
        PROVE  \E q \in Path :
                  /\ i \in DOMAIN file[q] /\ file'[p][i] = file[q][i]
                  /\ q = p \/ (p = b /\ q = a /\ file'[q] = <<>>)
    BY <1>3, <2>1, <2>3
  <2> QED
    BY <1>3, <2>2, <2>3 DEF a, b
<1> QED
  BY <1>1, <1>2, <1>3

\* What is seen in the buffer or in a file has been logged.
LEMMA LoggedStep ==
    ASSUME TypeOK, ControlOK, BufferOK, PathsOK, LoggedOK, [Next]_vars
    PROVE  LoggedOK'
<1>1. /\ logged \in Seq(Line) /\ Len(logged) \in Nat
      /\ slot \in [1..MaxBuffered -> Line \cup {NULL}]
  BY LenProperties DEF TypeOK
<1>2. CASE UNCHANGED <<logged, slot, file>>
  BY <1>2 DEF LoggedOK
<1>3. ASSUME NEW d \in Context, Store(d) PROVE LoggedOK'
  <2>1. PICK line \in Line :
           /\ line.id = Len(logged) + 1
           /\ slot' = [slot EXCEPT ![count + 1] = line] /\ logged' = Append(logged, line)
           /\ count + 1 \in 1..MaxBuffered
    BY <1>3, StoreFacts
  <2>2. file' = file
    BY <1>3 DEF Store, ioVars
  <2>3. Len(logged') = Len(logged) + 1 /\ ToSet(logged') = ToSet(logged) \cup {line}
    BY <1>1, <2>1, Appended
  <2>4. \A m \in ToSet(logged) : m.id <= Len(logged) /\ m \in Line
    BY <1>1, ElementOfSeq DEF LoggedOK, ToSet
  <2>5. \A m \in ToSet(logged') : m.id <= Len(logged')
    BY <1>1, <2>1, <2>3, <2>4 DEF Line
  <2>6. \A i \in 1..MaxBuffered : slot'[i] # NULL => slot'[i] \in ToSet(logged')
    BY <1>1, <2>1, <2>3 DEF LoggedOK
  <2> QED
    BY <2>2, <2>3, <2>5, <2>6 DEF LoggedOK
<1>4. ASSUME NEW d \in Context, WriteLine(d) PROVE LoggedOK'
  <2>1. UNCHANGED <<logged, slot>>
    BY <1>4 DEF WriteLine, bufferVars
  <2>2. slot[x[d]] \in Line /\ x[d] \in 1..MaxBuffered
    BY <1>4 DEF WriteLine, Runs, BufferOK, ReadsOK
  <2>3. slot[x[d]] \in ToSet(logged)
    BY <2>2, LoggerAssumption DEF LoggedOK
  <2>4. \A p \in Path : \A i \in DOMAIN file'[p] :
           file'[p][i] = slot[x[d]] \/ (i \in DOMAIN file[p] /\ file'[p][i] = file[p][i])
    BY <1>4, WriteKeeps
  <2>5. \A p \in Path : \A i \in DOMAIN file'[p] : file'[p][i] \in ToSet(logged)
    BY <2>3, <2>4 DEF LoggedOK
  <2> QED
    BY <2>1, <2>5 DEF LoggedOK
<1>5. ASSUME NEW d \in Context, FlushEnd(d) PROVE LoggedOK'
  BY <1>2, <1>5 DEF FlushEnd, ioVars
<1>6. ASSUME NEW t \in Thread, Rename(t) PROVE LoggedOK'
  <2>1. UNCHANGED <<logged, slot>>
    BY <1>6 DEF Rename, bufferVars
  <2>2. \A p \in Path : \A i \in DOMAIN file'[p] :
           \E q \in Path : i \in DOMAIN file[q] /\ file'[p][i] = file[q][i]
    BY <1>6, RenameKeeps
  <2> QED
    BY <2>1, <2>2 DEF LoggedOK
<1> QED
  BY <1>2, <1>3, <1>4, <1>5, <1>6, Quiet

\* A line that is stored is new; a line that is written leaves the buffer.
LEMMA OnceStep ==
    ASSUME TypeOK, ControlOK, BufferOK, PathsOK, LoggedOK, OnceOK, [Next]_vars
    PROVE  OnceOK'
<1>1. /\ count \in Nat /\ slot \in [1..MaxBuffered -> Line \cup {NULL}]
      /\ pc \in [Context -> Label] /\ x \in [Context -> Nat]
      /\ LogLock \in Context \cup {NULL} /\ NULL \notin Context
      /\ logged \in Seq(Line) /\ Len(logged) \in Nat /\ count <= MaxBuffered
  <2>1. LogLock \in Context \cup {NULL} /\ NULL \notin Context /\ count <= MaxBuffered
    BY Contexts, LoggerAssumption DEF TypeOK
  <2>2. logged \in Seq(Line) /\ Len(logged) \in Nat
    BY LenProperties DEF TypeOK
  <2> QED
    BY <2>1, <2>2 DEF TypeOK
<1> DEFINE Files == \A p, q \in Path : \A i \in DOMAIN file[p], j \in DOMAIN file[q] :
                       file[p][i] = file[q][j] => p = q /\ i = j
           Slots == \A i, j \in 1..count : slot[i] = slot[j] => i = j
           Open == \A i \in First..count : ~ InFile(slot[i])
           Reads == \A c \in Context : pc[c] \in {"create", "append"} => x[c] <= count
<1>2. SUFFICES ASSUME "final" \notin odd' PROVE Files' /\ Slots' /\ Open' /\ Reads'
  BY DEF OnceOK
<1>3. odd \subseteq odd'
  BY HistoryGrows
<1>4. "final" \notin odd /\ Files /\ Slots /\ Open /\ Reads
  BY <1>2, <1>3 DEF OnceOK
<1>5. \A c \in Context : pc[c] \in Flushing => LogLock = c /\ First = x[c] /\ x[c] >= 1
  BY <1>1, <1>4, LockHolder DEF First, BufferOK, ReadsOK
<1>6. CASE ~ (\E c \in Context : Store(c) \/ WriteLine(c) \/ FlushEnd(c))
           /\ ~ \E t \in Thread : Rename(t)
  <2>1. UNCHANGED <<slot, count, file>> /\ First' = First
    BY <1>6, Quiet
  <2>2. Files' /\ Slots'
    BY <1>4, <2>1
  <2>3. Open'
    BY <1>4, <2>1 DEF InFile
  <2>4. Reads'
    <3>1. CASE UNCHANGED <<pc, x>>
      BY <1>4, <2>1, <3>1
    <3>2. ASSUME NEW d \in Context, Call(d) \/ FinalEnd(d) PROVE Reads'
      <4>1. x' = x /\ pc' \in [Context -> {"lock", "idle"} \cup Label]
            /\ \A c \in Context : pc'[c] = pc[c] \/ pc'[c] \in {"lock", "idle"}
        BY <1>1, <3>2 DEF Call, Calling, FinalEnd, Go
      <4> QED
        BY <1>4, <2>1, <4>1
    <3>3. ASSUME NEW d \in Context, Probe(d) PROVE Reads'
      <4>1. x' = x /\ x[d] <= count /\ \A c \in Context : c # d => pc'[c] = pc[c]
        BY <1>1, <3>3 DEF Probe, Runs, Go
      <4> QED
        BY <1>4, <2>1, <4>1
    <3>4. ASSUME NEW d \in Context, Final(d) PROVE Reads'
      BY <1>2, <3>4 DEF Final
    <3>5. ASSUME NEW t \in Thread,
                 (\E n \in Name : Register(t, n)) \/ Link(t) \/ SetLast(t)
          PROVE  Reads'
      <4>1. /\ pc'[Base(t)] \in Registering
            /\ \A c \in Context : c # Base(t) => pc'[c] = pc[c] /\ x'[c] = x[c]
        BY <1>1, <3>5, Contexts DEF Register, Link, SetLast, Go, Registering
      <4> QED
        BY <1>4, <2>1, <4>1, Contexts DEF Registering
    <3> QED
      BY <1>6, <3>1, <3>2, <3>3, <3>4, <3>5, NextCases DEF vars, LevelSet
  <2> QED
    BY <2>2, <2>3, <2>4
<1>7. ASSUME NEW d \in Context, Store(d) PROVE Files' /\ Slots' /\ Open' /\ Reads'
  <2>1. PICK line \in Line :
           /\ line.id = Len(logged) + 1
           /\ slot' = [slot EXCEPT ![count + 1] = line] /\ logged' = Append(logged, line)
           /\ count + 1 \in 1..MaxBuffered /\ count' = count + 1
           /\ LogLock = NULL
           /\ \/ /\ LogLock' = d /\ pc' = [pc EXCEPT ![d] = "flush"]
                 /\ x' = [x EXCEPT ![d] = 1]
              \/ LogLock' = NULL
    BY <1>7, StoreFacts
  <2>2. file' = file
    BY <1>7 DEF Store, ioVars
  <2>3. line \notin ToSet(logged)
    BY <1>1, <2>1 DEF LoggedOK
  <2>4. First = 1 /\ First' = 1
    BY <1>1, <2>1 DEF First
  <2>5. \A i \in 1..count : slot[i] \in ToSet(logged) /\ slot'[i] = slot[i]
    BY <1>1, <2>1, LoggerAssumption DEF LoggedOK, BufferOK
  <2>6. slot'[count + 1] = line
    BY <1>1, <2>1
  <2>7. \A i \in 1..count' : i \in 1..count \/ i = count + 1
    BY <1>1, <2>1
  <2>8. Slots'
    BY <1>4, <2>3, <2>5, <2>6, <2>7
  <2>9. ~ InFile(line)
    BY <2>3 DEF InFile, LoggedOK
  <2>10. \A m : InFile(m)' <=> InFile(m)
    BY <2>2 DEF InFile
  <2>11. \A i \in First'..count' : ~ InFile(slot'[i])
    BY <1>4, <2>4, <2>5, <2>6, <2>7, <2>9
  <2>12. Open'
    BY <2>2, <2>11 DEF InFile
  <2>13. Reads'
    <3>1. \A c \in Context : pc[c] \notin Flushing
      BY <1>1, <1>5, <2>1
    <3>2. \A c \in Context \ {d} : pc'[c] = pc[c]
      BY <1>1, <1>7 DEF Store, Go
    <3>3. pc'[d] \notin {"create", "append"}
      <4>1. job[d] # NULL
        BY <1>7 DEF Store, Runs, ControlOK, ContextOK
      <4>2. job[d].next \in {"idle", "final"} \cup Restart
        BY <4>1 DEF ControlOK, ContextOK
      <4> QED
        BY <1>1, <1>7, <4>2 DEF Store, Go
    <3> QED
      BY <3>1, <3>2, <3>3 DEF Flushing
  <2> QED
    BY <1>4, <2>2, <2>8, <2>12, <2>13
<1>8. ASSUME NEW d \in Context, WriteLine(d) PROVE Files' /\ Slots' /\ Open' /\ Reads'
  <2> DEFINE e == slot[x[d]]
  <2>1. /\ UNCHANGED <<slot, count, LogLock>> /\ pc[d] \in {"create", "append"}
        /\ pc' = [pc EXCEPT ![d] = "flush"] /\ x' = [x EXCEPT ![d] = x[d] + 1]
    BY <1>8 DEF WriteLine, Runs, bufferVars
  <2>2. LogLock = d /\ First = x[d] /\ x[d] <= count /\ x[d] >= 1 /\ First' = x[d] + 1
    BY <1>1, <1>4, <1>5, <2>1 DEF First, Flushing
  <2>3. ~ InFile(e)
    BY <1>1, <1>4, <2>2
  <2>4. \A p \in Path : \A i \in DOMAIN file'[p] :
           \/ i \in DOMAIN file[p] /\ file'[p][i] = file[p][i]
           \/ p = path[d] /\ file'[p][i] = e /\ i = Len(Emptied(d)[p]) + 1
    BY <1>8, WriteKeeps
  <2> HIDE DEF e
  <2>5. \A p \in Path : \A i \in DOMAIN file[p] : file[p][i] # e
    BY <2>3 DEF InFile
  <2>6. Files'
    <3>1. SUFFICES ASSUME NEW p \in Path, NEW q \in Path,
                          NEW i \in DOMAIN file'[p], NEW j \in DOMAIN file'[q],
                          file'[p][i] = file'[q][j]
                   PROVE  p = q /\ i = j
      OBVIOUS
    <3>2. CASE file'[p][i] = e
      <4>1. p = path[d] /\ i = Len(Emptied(d)[p]) + 1
        BY <2>4, <2>5, <3>2
      <4>2. q = path[d] /\ j = Len(Emptied(d)[q]) + 1
        BY <2>4, <2>5, <3>1, <3>2
      <4> QED
        BY <4>1, <4>2
    <3>3. CASE file'[p][i] # e
      <4>1. i \in DOMAIN file[p] /\ file'[p][i] = file[p][i]
        BY <2>4, <3>3
      <4>2. j \in DOMAIN file[q] /\ file'[q][j] = file[q][j]
        BY <2>4, <3>1, <3>3
      <4>3. file[p][i] = file[q][j]
        BY <3>1, <4>1, <4>2
      <4> QED
        BY <1>4, <4>1, <4>2, <4>3
    <3> QED
      BY <3>2, <3>3
  <2>7. Open'
    <3>1. SUFFICES ASSUME NEW i \in First'..count', InFile(slot[i])' PROVE FALSE
      BY <2>1
    <3>2. i \in First..count /\ i \in 1..count /\ x[d] \in 1..count /\ i # x[d]
      BY <1>1, <2>1, <2>2
    <3>3. slot[i] # e
      BY <1>4, <3>2 DEF e
    <3>4. PICK p \in Path : \E j \in DOMAIN file'[p] : file'[p][j] = slot[i]
      BY <2>1, <3>1 DEF InFile
    <3> QED
      BY <1>4, <2>4, <3>2, <3>3, <3>4 DEF InFile
  <2>8. Reads'
    BY <1>1, <1>4, <2>1
  <2> QED
    BY <1>4, <2>1, <2>6, <2>7, <2>8
<1>9. ASSUME NEW d \in Context, FlushEnd(d) PROVE Files' /\ Slots' /\ Open' /\ Reads'
  <2>1. /\ file' = file /\ count' = 0 /\ LogLock' = NULL /\ pc[d] = "flush" /\ job[d] # NULL
        /\ pc' = [pc EXCEPT ![d] = job[d].next]
    BY <1>9 DEF FlushEnd, Go, Runs, CountAfter, LockAfter, ioVars
  <2>2. First' = 1 /\ 1..0 = {}
    BY <2>1 DEF First
  <2>3. job[d].next \in {"idle", "final"} \cup Restart
    BY <2>1 DEF ControlOK, ContextOK
  <2>4. \A c \in Context : pc'[c] \notin {"create", "append"}
    BY <1>1, <1>5, <2>1, <2>3 DEF Flushing
  <2> QED
    BY <1>4, <2>1, <2>2, <2>4
<1>10. ASSUME NEW t \in Thread, Rename(t) PROVE Files' /\ Slots' /\ Open' /\ Reads'
  <2>1. /\ UNCHANGED <<slot, count, LogLock>> /\ pc[Base(t)] = "rename"
        /\ pc' = [pc EXCEPT ![Base(t)] = "idle"] /\ x' = [x EXCEPT ![Base(t)] = 0]
        /\ Base(t) \in Context
    BY <1>10, Contexts DEF Rename, Go, Runs, bufferVars
  <2>2. LogLock # Base(t)
    BY <2>1, LockHolder DEF Flushing
  <2>3. First' = First
    BY <1>1, <2>1, <2>2 DEF First
  <2>4. \A p \in Path : \A i \in DOMAIN file'[p] :
           \E q \in Path :
              /\ i \in DOMAIN file[q] /\ file'[p][i] = file[q][i]
              /\ q = p \/ (p = path[Base(t)] /\ q = ThreadLog(t) /\ file'[q] = <<>>)
    BY <1>10, RenameKeeps
  <2>5. \A m : InFile(m)' => InFile(m)
    BY <2>4 DEF InFile
  <2>6. Files'
    <3>1. SUFFICES ASSUME NEW p \in Path, NEW q \in Path,
                          NEW i \in DOMAIN file'[p], NEW j \in DOMAIN file'[q],
                          file'[p][i] = file'[q][j]
                   PROVE  p = q /\ i = j
      OBVIOUS
    <3>2. PICK p1 \in Path :
             /\ i \in DOMAIN file[p1] /\ file'[p][i] = file[p1][i]
             /\ p1 = p \/ (p = path[Base(t)] /\ p1 = ThreadLog(t) /\ file'[p1] = <<>>)
      BY <2>4
    <3>3. PICK q1 \in Path :
             /\ j \in DOMAIN file[q1] /\ file'[q][j] = file[q1][j]
             /\ q1 = q \/ (q = path[Base(t)] /\ q1 = ThreadLog(t) /\ file'[q1] = <<>>)
      BY <2>4
    <3>4. file[p1][i] = file[q1][j]
      BY <3>1, <3>2, <3>3
    <3>5. p1 = q1 /\ i = j
      BY <1>4, <3>2, <3>3, <3>4
    <3>6. DOMAIN file'[p] # {} /\ DOMAIN file'[q] # {} /\ DOMAIN <<>> = {}
      OBVIOUS
    <3> QED
      BY <3>2, <3>3, <3>5, <3>6
  <2>7. Open'
    <3>1. \A i \in First'..count' : ~ InFile(slot[i])
      BY <1>4, <2>1, <2>3
    <3>2. \A i : InFile(slot[i])' => InFile(slot[i])
      <4>1. \A i, m : m = slot[i] => (InFile(m)' <=> InFile(slot[i])')
        BY <2>1 DEF InFile
      <4> QED
        BY <2>5, <4>1
    <3> QED
      BY <3>1, <3>2
  <2>8. Reads'
    BY <1>1, <1>4, <2>1
  <2> QED
    BY <1>4, <2>1, <2>6, <2>7, <2>8
<1> QED
  BY <1>6, <1>7, <1>8, <1>9, <1>10

\* The file of a thread, or that of a name which was registered, is what is written.
LEMMA PathsStep ==
    ASSUME TypeOK, ControlOK, BufferOK, CellsOK, PathsOK, [Next]_vars
    PROVE  PathsOK'
<1> DEFINE Named(t) == \E n \in Name : path[Base(t)] = NameLog(n) /\ <<t, n>> \in regs
           Own(c) == \E t \in Thread : path[c] = ThreadLog(t)
           Used == \A c \in Context : pc[c] \in {"create", "append"} => InUse(path[c])
           Files == \A p \in Path : file[p] # <<>> => InUse(p)
           Names == \A t \in Thread : pc[Base(t)] \in Registering => Named(t)
           Creates == \A c \in Context : pc[c] = "create" => Own(c)
<1>1. /\ pc \in [Context -> Label] /\ path \in [Context -> Path \cup {NULL}]
      /\ \A t \in Thread : Base(t) \in Context
      /\ \A t, u \in Thread : Base(t) = Base(u) => t = u
  BY Contexts DEF TypeOK
<1>2. Used /\ Files /\ Names /\ Creates
  BY DEF PathsOK
<1>3. SUFFICES Used' /\ Files' /\ Names' /\ Creates'
  BY DEF PathsOK
<1>4. \A p : regs \subseteq regs' /\ InUse(p) => InUse(p)'
  BY DEF InUse
<1>5. CASE UNCHANGED <<path, file, pc, regs>>
  BY <1>2, <1>5 DEF InUse
<1> DEFINE Goal == Used' /\ Files' /\ Names' /\ Creates'
<1>6. ASSUME NEW d \in Context,
             Call(d) \/ Store(d) \/ FlushEnd(d) \/ Final(d) \/ FinalEnd(d)
      PROVE  Goal
  <2>1. /\ UNCHANGED <<path, file, regs>>
        /\ \A c \in Context : pc'[c] = pc[c] \/ pc'[c] \notin Registering \cup {"create", "append"}
    <3>1. CASE Call(d)
      BY <1>1, <3>1 DEF Call, Calling, ioVars, Registering
    <3>2. CASE Final(d) \/ FinalEnd(d)
      BY <1>1, <3>2 DEF Final, FinalEnd, Go, ioVars, Registering
    <3>3. CASE Store(d) \/ FlushEnd(d)
      <4>1. job[d] # NULL
        BY <3>3 DEF Store, FlushEnd, Runs, ControlOK, ContextOK
      <4>2. job[d].next \in {"idle", "final"} \cup Restart
        BY <4>1 DEF ControlOK, ContextOK
      <4>3. \E label \in {"flush", "idle", "final"} \cup Restart : pc' = [pc EXCEPT ![d] = label]
        BY <3>3, <4>2 DEF Store, FlushEnd, Go
      <4> QED
        BY <1>1, <3>3, <4>3 DEF Store, FlushEnd, ioVars, Registering
    <3> QED
      BY <1>6, <3>1, <3>2, <3>3
  <2> QED
    BY <1>1, <1>2, <2>1 DEF InUse
<1>7. ASSUME NEW d \in Context, Probe(d) PROVE Goal
  <2> DEFINE t == slot[x[d]].thread
             p == PathOf(t)
  <2>1. /\ UNCHANGED <<file, regs>> /\ path' = [path EXCEPT ![d] = p]
        /\ pc' = [pc EXCEPT ![d] = IF ~ IsEntered(t) /\ file[ThreadLog(t)] = <<>>
                                   THEN "create" ELSE "append"]
    BY <1>7 DEF Probe, Go, ioVars
  <2>2. slot[x[d]] \in Line
    BY <1>7 DEF Probe, Runs, BufferOK, ReadsOK, Flushing, TypeOK
  <2>3. t \in Thread /\ p \in Path
    BY <2>2, EntryFacts DEF Line
  <2>4. ~ IsEntered(t) => p = ThreadLog(t)
    BY DEF PathOf
  <2>5. IsEntered(t) => InUse(p)
    <3> SUFFICES ASSUME IsEntered(t) PROVE InUse(p)
      OBVIOUS
    <3>1. p = cells[EntryOf(t)].path /\ EntryOf(t) \in DOMAIN cells
      BY <2>3, EntryFacts DEF PathOf
    <3>2. <<cells[EntryOf(t)].thread, p[1]>> \in regs
      BY <3>1 DEF CellsOK
    <3> QED
      BY <3>2 DEF InUse
  <2> HIDE DEF t, p
  <2>6. InUse(p)
    BY <2>3, <2>4, <2>5 DEF InUse
  <2>7. \A c \in Context : c # d => pc'[c] = pc[c] /\ path'[c] = path[c]
    BY <1>1, <2>1
  <2>8. path'[d] = p /\ pc'[d] \in {"create", "append"}
    BY <1>1, <2>1
  <2>9. pc'[d] = "create" => p = ThreadLog(t)
    BY <1>1, <2>1, <2>4
  <2>10. \A q : InUse(q)' <=> InUse(q)
    BY <2>1 DEF InUse
  <2>11. \A c \in Context : pc'[c] \in {"create", "append"} => \E q : q = path'[c] /\ InUse(q)'
    BY <1>2, <2>6, <2>7, <2>8, <2>10
  <2>12. Used'
    BY <2>1, <2>11 DEF InUse
  <2>13. Files'
    BY <1>2, <2>1, <2>10
  <2>14. Names'
    BY <1>1, <1>2, <2>1, <2>7, <2>8 DEF Registering
  <2>15. Creates'
    BY <1>2, <2>3, <2>7, <2>8, <2>9
  <2> QED
    BY <2>12, <2>13, <2>14, <2>15
<1>8. ASSUME NEW d \in Context, WriteLine(d) PROVE Goal
  <2>1. /\ UNCHANGED regs /\ pc[d] \in {"create", "append"}
        /\ pc' = [pc EXCEPT ![d] = "flush"] /\ path' = [path EXCEPT ![d] = NULL]
    BY <1>8 DEF WriteLine, Runs
  <2>2. \A c \in Context : c # d => pc'[c] = pc[c] /\ path'[c] = path[c]
    BY <1>1, <2>1
  <2>3. pc'[d] = "flush"
    BY <1>1, <2>1
  <2>4. \A p \in Path : file'[p] # <<>> => file[p] # <<>> \/ p = path[d]
    BY <1>8, WriteFiles
  <2>5. \A q : InUse(q)' <=> InUse(q)
    BY <2>1 DEF InUse
  <2>6. Files'
    BY <1>2, <2>1, <2>4, <2>5
  <2>7. Used'
    BY <1>2, <2>1, <2>2, <2>3 DEF InUse
  <2>8. Names' /\ Creates'
    BY <1>1, <1>2, <2>1, <2>2, <2>3 DEF Registering
  <2> QED
    BY <2>6, <2>7, <2>8
<1>9. ASSUME NEW t \in Thread, NEW n \in Name, Register(t, n) PROVE Goal
  <2>1. /\ file' = file /\ regs' = regs \cup {<<t, n>>}
        /\ path' = [path EXCEPT ![Base(t)] = NameLog(n)]
        /\ pc' = [pc EXCEPT ![Base(t)] = "rename"] \/ pc' = [pc EXCEPT ![Base(t)] = "link"]
    BY <1>9 DEF Register, Go, ioVars
  <2>2. \A c \in Context : c # Base(t) => pc'[c] = pc[c] /\ path'[c] = path[c]
    BY <1>1, <2>1
  <2>3. pc'[Base(t)] \in {"rename", "link"} /\ path'[Base(t)] = NameLog(n)
    BY <1>1, <2>1
  <2>4. Files'
    BY <1>2, <1>4, <2>1
  <2>5. Used'
    BY <1>2, <2>1, <2>2, <2>3 DEF InUse
  <2>6. Names'
    BY <1>1, <1>2, <2>1, <2>2, <2>3
  <2>7. Creates'
    BY <1>2, <2>2, <2>3
  <2> QED
    BY <2>4, <2>5, <2>6, <2>7
<1>10. ASSUME NEW t \in Thread, Link(t) \/ SetLast(t) PROVE Goal
  <2>1. /\ UNCHANGED <<file, regs, path>> /\ pc[Base(t)] \in Registering
        /\ pc' = [pc EXCEPT ![Base(t)] = "last"] \/ pc' = [pc EXCEPT ![Base(t)] = "rename"]
    BY <1>10 DEF Link, SetLast, Go, Runs, ioVars, Registering
  <2>2. \A c \in Context : pc'[c] = pc[c] \/ (c = Base(t) /\ pc'[c] \in {"last", "rename"})
    BY <1>1, <2>1
  <2> QED
    BY <1>1, <1>2, <2>1, <2>2 DEF InUse
<1>11. ASSUME NEW t \in Thread, Rename(t) PROVE Goal
  <2> DEFINE d == Base(t)
  <2>1. /\ UNCHANGED regs /\ pc[d] = "rename" /\ d \in Context
        /\ pc' = [pc EXCEPT ![d] = "idle"] /\ path' = [path EXCEPT ![d] = NULL]
    BY <1>1, <1>11 DEF Rename, Go, Runs
  <2>2. Named(t)
    BY <1>2, <2>1 DEF Registering
  <2>3. InUse(path[d])
    BY <2>2, Paths DEF InUse
  <2>4. \A p \in Path : file'[p] # <<>> => file[p] # <<>> \/ p = path[d]
    BY <1>11, RenameFiles
  <2> HIDE DEF d
  <2>5. \A c \in Context : c # d => pc'[c] = pc[c] /\ path'[c] = path[c]
    BY <1>1, <2>1
  <2>6. pc'[d] = "idle"
    BY <1>1, <2>1
  <2>7. Files'
    BY <1>2, <2>1, <2>3, <2>4 DEF InUse
  <2>8. Used' /\ Creates'
    BY <1>2, <2>1, <2>5, <2>6 DEF InUse
  <2>9. Names'
    BY <1>1, <1>2, <2>1, <2>5, <2>6 DEF Registering, d
  <2> QED
    BY <2>7, <2>8, <2>9
<1> QED
  BY <1>5, <1>6, <1>7, <1>8, <1>9, <1>10, <1>11, NextCases DEF vars, ioVars, LevelSet

\* Only the last flush is one without a call of log_output.
LEMMA LastFlushFacts ==
    ASSUME ControlOK
    PROVE  /\ \A c \in Context : pc[c] \in Flushing /\ job[c] = NULL => c = Base(Main)
           /\ LastFlush => LogLock # Base(Main)
           /\ \A c \in Context : pc[c] = "final" => c = Base(Main)
<1>1. \A c \in Context : ContextOK(c)
  BY DEF ControlOK
<1> QED
  BY <1>1, Contexts DEF ContextOK, LastFlush

\* What leaves the buffer is in a file; the last flush has what it owes before it.
LEMMA KeptStep ==
    ASSUME TypeOK, ControlOK, BufferOK, PathsOK, KeptOK, [Next]_vars
    PROVE  KeptOK'
<1> DEFINE main == Base(Main)
           Ahead(m) == \E i \in First..count : slot[i] = m /\ i >= x[main]
           Waits(m) == \E i \in First..count : slot[i] = m
           Found == \A m \in ToSet(logged) \ lost : InFile(m) \/ Waits(m)
           Owes == owed \subseteq ToSet(logged)
           Before == LastFlush => \A m \in owed \ lost : InFile(m) \/ Ahead(m)
           Done == down => \A m \in owed \ lost : InFile(m)
           Goal == Found' /\ Owes' /\ Before' /\ Done'
<1>1. /\ pc \in [Context -> Label] /\ x \in [Context -> Nat] /\ count \in Nat
      /\ job \in [Context -> Job \cup {NULL}]
      /\ LogLock \in Context \cup {NULL} /\ NULL \notin Context /\ main \in Context
  <2>1. LogLock \in Context \cup {NULL} /\ NULL \notin Context /\ main \in Context
    BY Contexts DEF TypeOK
  <2> QED
    BY <2>1, LoggerAssumption DEF TypeOK
<1>2. Found /\ Owes /\ Before /\ Done
  BY DEF KeptOK, Pending
<1>3. SUFFICES Goal
  BY DEF KeptOK, Pending
<1>4. /\ \A c \in Context : pc[c] \in Flushing => x[c] >= 1
      /\ First \in Nat /\ First >= 1
  <2>1. \A c \in Context : pc[c] \in Flushing => x[c] >= 1
    BY DEF BufferOK, ReadsOK
  <2> QED
    BY <1>1, <2>1, LockHolder DEF First
<1>5. /\ \A c \in Context : pc[c] \in Flushing /\ job[c] = NULL => c = main
      /\ LastFlush => LogLock # main
      /\ \A c \in Context : pc[c] = "final" => c = main
  BY LastFlushFacts
<1> HIDE DEF main
<1>6. LastFlush <=> pc[main] \in Flushing /\ job[main] = NULL
  BY DEF LastFlush, main
<1>7. LastFlush' <=> pc'[main] \in Flushing /\ job'[main] = NULL
  BY DEF LastFlush, main
<1>8. CASE UNCHANGED <<pc, x, job, owed, down>> /\ UNCHANGED <<slot, count, logged, file, lost>>
           /\ First' = First
  BY <1>2, <1>8 DEF InFile, LastFlush
<1> DEFINE Still == UNCHANGED <<slot, count, logged, file, lost>> /\ First' = First
<1>9. CASE ~ (\E c \in Context : Store(c) \/ WriteLine(c) \/ FlushEnd(c))
           /\ ~ \E t \in Thread : Rename(t)
  <2>1. Still
    BY <1>9, Quiet
  <2>2. Found' /\ \A m : InFile(m)' <=> InFile(m)
    BY <1>2, <2>1 DEF InFile
  <2>3. ASSUME NEW d \in Context, Call(d) PROVE Goal
    <3>1. /\ x' = x /\ ~ down /\ down' = down /\ pc[d] \in {"idle"} \cup Restart
          /\ pc' = [pc EXCEPT ![d] = "lock"]
          /\ \A c \in Context : c # d => job'[c] = job[c]
          /\ owed' = owed \/ (owed' = ToSet(logged) /\ d = main)
      BY <1>1, <2>3 DEF Call, Calling, main
    <3>2. LastFlush' => LastFlush /\ owed' = owed
      BY <1>1, <1>6, <1>7, <3>1 DEF Flushing
    <3>3. Before'
      BY <1>2, <2>1, <2>2, <3>1, <3>2
    <3> QED
      BY <1>2, <2>1, <2>2, <3>1, <3>3
  <2>4. ASSUME NEW d \in Context, Probe(d) PROVE Goal
    <3>1. /\ UNCHANGED <<x, job, owed, down>> /\ pc[d] \in Flushing
          /\ \A c \in Context : c # d => pc'[c] = pc[c]
      BY <1>1, <2>4 DEF Probe, Runs, Go, Flushing
    <3>2. LastFlush' => LastFlush
      BY <1>1, <1>6, <1>7, <3>1
    <3> QED
      BY <1>2, <2>1, <2>2, <3>1, <3>2
  <2>5. ASSUME NEW d \in Context, Final(d) PROVE Goal
    <3>1. /\ d = main /\ x'[main] = 1 /\ ~ down /\ UNCHANGED <<owed, down>>
      BY <1>1, <1>5, <2>5 DEF Final, Runs, Go
    <3>2. Before'
      <4> SUFFICES ASSUME NEW m \in owed' \ lost' PROVE InFile(m)' \/ Ahead(m)'
        OBVIOUS
      <4>1. InFile(m) \/ Waits(m)
        BY <1>2, <2>1, <3>1
      <4> QED
        BY <1>1, <1>4, <2>1, <2>2, <3>1, <4>1
    <3> QED
      BY <1>2, <2>1, <2>2, <3>1, <3>2
  <2>6. ASSUME NEW d \in Context, FinalEnd(d) PROVE Goal
    <3>1. /\ pc[d] = "flush" /\ job[d] = NULL /\ x[d] > count /\ ~ down /\ down' = TRUE
          /\ UNCHANGED owed /\ pc' = [pc EXCEPT ![d] = "idle"]
      BY <2>6 DEF FinalEnd, Runs, Go
    <3>2. d = main /\ LastFlush
      BY <1>5, <1>6, <3>1 DEF Flushing
    <3>3. \A m : ~ Ahead(m)
      BY <1>1, <1>4, <3>1, <3>2
    <3>4. \A m \in owed \ lost : InFile(m)
      BY <1>2, <3>2, <3>3
    <3>5. ~ LastFlush'
      BY <1>1, <1>7, <3>1, <3>2 DEF Flushing
    <3> QED
      BY <1>2, <2>1, <2>2, <3>1, <3>4, <3>5
  <2>7. ASSUME NEW t \in Thread, (\E n \in Name : Register(t, n)) \/ Link(t) \/ SetLast(t)
        PROVE  Goal
    <3>1. /\ UNCHANGED <<owed, down, job>> /\ pc'[Base(t)] \in Registering
          /\ \A c \in Context : c # Base(t) => pc'[c] = pc[c] /\ x'[c] = x[c]
      BY <1>1, <2>7, Contexts DEF Register, Link, SetLast, Go, Registering
    <3>2. LastFlush' => LastFlush /\ x'[main] = x[main]
      BY <1>1, <1>6, <1>7, <3>1 DEF Flushing, Registering
    <3> QED
      BY <1>2, <2>1, <2>2, <3>1, <3>2
  <2>8. CASE LevelSet \/ UNCHANGED vars
    BY <1>8, <2>1, <2>8 DEF LevelSet, vars
  <2> QED
    BY <1>9, <2>3, <2>4, <2>5, <2>6, <2>7, <2>8, NextCases
<1>10. ASSUME NEW d \in Context, Store(d) PROVE Goal
  <2>1. PICK line \in Line :
           /\ slot' = [slot EXCEPT ![count + 1] = line] /\ logged' = Append(logged, line)
           /\ count + 1 \in 1..MaxBuffered /\ count' = count + 1
           /\ LogLock = NULL /\ ~ down /\ job[d] \in Job
           /\ \/ /\ LogLock' = d /\ pc' = [pc EXCEPT ![d] = "flush"]
                 /\ x' = [x EXCEPT ![d] = 1] /\ job' = job
              \/ /\ LogLock' = NULL /\ pc' = [pc EXCEPT ![d] = job[d].next] /\ x' = x
                 /\ job' = [job EXCEPT ![d] = NULL]
    BY <1>10, StoreFacts
  <2>2. UNCHANGED <<file, lost, owed, down>>
    BY <1>10 DEF Store, ioVars
  <2>3. First = 1 /\ First' = 1
    BY <1>1, <2>1 DEF First
  <2>4. slot \in [1..MaxBuffered -> Line \cup {NULL}] /\ logged \in Seq(Line)
    BY DEF TypeOK
  <2>5. \A i \in 1..count : slot'[i] = slot[i] /\ i \in 1..count'
    BY <1>1, <2>1, <2>4
  <2>6. slot'[count + 1] = line /\ count + 1 \in 1..count'
    BY <1>1, <2>1, <2>4
  <2>7. ToSet(logged') = ToSet(logged) \cup {line}
    BY <2>1, <2>4, Appended
  <2>8. \A m : InFile(m)' <=> InFile(m)
    BY <2>2 DEF InFile
  <2>9. Found'
    BY <1>2, <2>2, <2>3, <2>5, <2>6, <2>7, <2>8
  <2>10. Owes' /\ Done'
    BY <1>2, <2>1, <2>2, <2>7
  <2>11. LastFlush' => LastFlush /\ x'[main] = x[main]
    <3>1. CASE d = main
      <4>1. job[d] # NULL
        BY <2>1, LoggerAssumption
      <4>2. job[d].next \in {"idle", "final"} \cup Restart
        BY <4>1 DEF ControlOK, ContextOK
      <4>3. ~ LastFlush'
        BY <1>1, <1>7, <2>1, <3>1, <4>1, <4>2 DEF Flushing
      <4> QED
        BY <4>3
    <3>2. CASE d # main
      BY <1>1, <1>6, <1>7, <2>1, <3>2
    <3> QED
      BY <3>1, <3>2
  <2>12. Before'
    BY <1>2, <2>2, <2>3, <2>5, <2>8, <2>11
  <2> QED
    BY <2>9, <2>10, <2>12
<1>11. ASSUME NEW d \in Context, WriteLine(d) PROVE Goal
  <2>1. /\ UNCHANGED <<slot, count, logged, LogLock, job, owed, down>> /\ ~ down
        /\ pc[d] \in Flushing /\ pc' = [pc EXCEPT ![d] = "flush"]
        /\ x' = [x EXCEPT ![d] = x[d] + 1]
    BY <1>11 DEF WriteLine, Runs, Flushing, bufferVars
  <2>2. /\ \A m : InFile(m) => InFile(m)' \/ m \in lost'
        /\ \A m : m = slot[x[d]] => InFile(m)' \/ m \in lost'
        /\ lost \subseteq lost'
    BY <1>11, WriteKeeps
  <2>3. \/ LogLock = d /\ First = x[d] /\ First' = x[d] + 1
        \/ LogLock # d /\ First' = First
    BY <1>1, <2>1 DEF First
  <2>4. \A i \in First..count : i \in First'..count' \/ i = x[d]
    BY <1>1, <1>4, <2>1, <2>3
  <2>5. Found'
    <3> SUFFICES ASSUME NEW m \in ToSet(logged') \ lost' PROVE InFile(m)' \/ Waits(m)'
      OBVIOUS
    <3>1. InFile(m) \/ Waits(m)
      BY <1>2, <2>1, <2>2
    <3> QED
      BY <2>1, <2>2, <2>4, <3>1
  <2>6. LastFlush' => LastFlush
    BY <1>1, <1>6, <1>7, <2>1
  <2>7. Before'
    <3> SUFFICES ASSUME LastFlush, NEW m \in owed' \ lost' PROVE InFile(m)' \/ Ahead(m)'
      BY <2>6
    <3>1. InFile(m) \/ Ahead(m)
      BY <1>2, <2>1, <2>2
    <3>2. CASE Ahead(m)
      <4>1. PICK i \in First..count : slot[i] = m /\ i >= x[main]
        BY <3>2
      <4>2. CASE i = x[d]
        BY <2>2, <4>1, <4>2
      <4>3. CASE i # x[d]
        <5>1. i \in First'..count' /\ slot'[i] = m
          BY <2>1, <2>4, <4>1, <4>3
        <5>2. i >= x'[main]
          BY <1>1, <1>4, <2>1, <4>1, <4>3
        <5> QED
          BY <5>1, <5>2
      <4> QED
        BY <4>2, <4>3
    <3> QED
      BY <2>2, <3>1, <3>2
  <2> QED
    BY <1>2, <2>1, <2>5, <2>7
<1>12. ASSUME NEW d \in Context, FlushEnd(d) PROVE Goal
  <2>1. /\ UNCHANGED <<slot, logged, file, lost, owed, down>> /\ ~ down
        /\ pc[d] = "flush" /\ job[d] # NULL /\ x[d] > count
        /\ pc' = [pc EXCEPT ![d] = job[d].next] /\ job' = [job EXCEPT ![d] = NULL]
    BY <1>12 DEF FlushEnd, Runs, Go, ioVars
  <2>2. LogLock = d /\ First = x[d]
    BY <1>1, <2>1, LockHolder DEF First, Flushing
  <2>3. \A m : ~ Waits(m) /\ ~ Ahead(m)
    BY <1>1, <2>1, <2>2
  <2>4. \A m : InFile(m)' <=> InFile(m)
    BY <2>1 DEF InFile
  <2>5. job[d].next \in {"idle", "final"} \cup Restart
    BY <2>1 DEF ControlOK, ContextOK
  <2>6. LastFlush' => LastFlush
    BY <1>1, <1>6, <1>7, <2>1, <2>5 DEF Flushing
  <2> QED
    BY <1>2, <2>1, <2>3, <2>4, <2>6
<1>13. ASSUME NEW t \in Thread, Rename(t) PROVE Goal
  <2>1. /\ UNCHANGED <<slot, count, logged, LogLock, job, owed, down>> /\ ~ down
        /\ pc[Base(t)] = "rename" /\ Base(t) \in Context
        /\ pc' = [pc EXCEPT ![Base(t)] = "idle"] /\ x' = [x EXCEPT ![Base(t)] = 0]
    BY <1>13, Contexts DEF Rename, Runs, Go, bufferVars
  <2>2. /\ \A m : InFile(m) => InFile(m)' \/ m \in lost'
        /\ lost \subseteq lost'
    BY <1>13, RenameKeeps
  <2>3. LogLock # Base(t)
    BY <2>1, LockHolder DEF Flushing
  <2>4. First' = First
    BY <1>1, <2>1, <2>3 DEF First
  <2>5. LastFlush' => LastFlush /\ x'[main] = x[main]
    BY <1>1, <1>6, <1>7, <2>1 DEF Flushing
  <2>6. Found'
    BY <1>2, <2>1, <2>2, <2>4
  <2>7. Before'
    BY <1>2, <2>1, <2>2, <2>4, <2>5
  <2> QED
    BY <1>2, <2>1, <2>6, <2>7
<1> QED
  BY <1>9, <1>10, <1>11, <1>12, <1>13

\* A new name has no file yet, so that nothing is replaced; nor is one that is created.
LEMMA LossStep ==
    ASSUME TypeOK, ControlOK, BufferOK, PathsOK, LossOK, [Next]_vars
    PROVE  LossOK'
<1> DEFINE Clean == odd \cap {"final", "fail", "again", "early"} = {} /\ ~ Reused
           Empty == "final" \notin odd =>
                       \A c \in Context : pc[c] = "create" => file[path[c]] = <<>>
           Open == \A t \in Thread : pc[Base(t)] \in Registering => file[path[Base(t)]] = <<>>
           None == Clean => lost = {} /\ Open
           Goal == Empty' /\ None'
<1>1. /\ pc \in [Context -> Label] /\ path \in [Context -> Path \cup {NULL}]
      /\ job \in [Context -> Job \cup {NULL}]
      /\ \A t \in Thread : Base(t) \in Context
      /\ \A t, u \in Thread : Base(t) = Base(u) => t = u
  BY Contexts DEF TypeOK
<1>2. Empty /\ None
  BY DEF LossOK
<1>3. SUFFICES Goal
  BY DEF LossOK
<1>4. odd \subseteq odd' /\ regs \subseteq regs'
  BY HistoryGrows
<1>5. Reused => Reused'
  BY <1>4 DEF Reused
<1>6. Clean' => Clean
  BY <1>4, <1>5
<1>7. ASSUME UNCHANGED <<file, lost>>,
             \A c \in Context : \/ pc'[c] = pc[c] /\ path'[c] = path[c]
                                \/ pc'[c] \notin Registering \cup {"create"}
                                \/ pc[c] \in Registering /\ path'[c] = path[c] /\ pc'[c] # "create"
      PROVE  Goal
  <2>1. Empty'
    BY <1>2, <1>4, <1>7 DEF Registering
  <2>2. Open => Open'
    BY <1>1, <1>7
  <2> QED
    BY <1>2, <1>6, <1>7, <2>1, <2>2
<1>8. ASSUME NEW d \in Context, Call(d) \/ Final(d) \/ FinalEnd(d) PROVE Goal
  <2>1. /\ UNCHANGED <<file, lost, path>>
        /\ \A c \in Context : pc'[c] = pc[c] \/ pc'[c] \in {"lock", "flush", "idle"}
    BY <1>1, <1>8 DEF Call, Calling, Final, FinalEnd, Go, ioVars
  <2> QED
    BY <1>7, <2>1 DEF Registering
<1>9. ASSUME NEW d \in Context, Store(d) \/ FlushEnd(d) PROVE Goal
  <2>1. job[d] # NULL
    BY <1>9 DEF Store, FlushEnd, Runs, ControlOK, ContextOK
  <2>2. job[d].next \in {"idle", "final"} \cup Restart
    BY <2>1 DEF ControlOK, ContextOK
  <2>3. \E label \in {"flush", "idle", "final"} \cup Restart : pc' = [pc EXCEPT ![d] = label]
    BY <1>9, <2>2 DEF Store, FlushEnd, Go
  <2>4. UNCHANGED <<file, lost, path>>
    BY <1>9 DEF Store, FlushEnd, ioVars
  <2> QED
    BY <1>1, <1>7, <2>3, <2>4 DEF Registering
<1>10. ASSUME NEW d \in Context, Probe(d) PROVE Goal
  <2> DEFINE t == slot[x[d]].thread
  <2>1. /\ UNCHANGED <<file, lost>> /\ path' = [path EXCEPT ![d] = PathOf(t)]
        /\ pc' = [pc EXCEPT ![d] = IF ~ IsEntered(t) /\ file[ThreadLog(t)] = <<>>
                                   THEN "create" ELSE "append"]
    BY <1>10 DEF Probe, Go, ioVars
  <2>2. ~ IsEntered(t) => PathOf(t) = ThreadLog(t)
    BY DEF PathOf
  <2> HIDE DEF t
  <2>3. \A c \in Context : c # d => pc'[c] = pc[c] /\ path'[c] = path[c]
    BY <1>1, <2>1
  <2>4. path'[d] = PathOf(t) /\ pc'[d] \in {"create", "append"}
    BY <1>1, <2>1
  <2>5. pc'[d] = "create" => file[path'[d]] = <<>>
    BY <1>1, <2>1, <2>2, <2>4
  <2>6. Empty'
    BY <1>2, <1>4, <2>1, <2>3, <2>5
  <2>7. Open => Open'
    BY <1>1, <2>1, <2>3, <2>4 DEF Registering
  <2> QED
    BY <1>2, <1>6, <2>1, <2>6, <2>7
<1>11. ASSUME NEW d \in Context, WriteLine(d) PROVE Goal
  <2>1. /\ pc[d] \in {"create", "append"} /\ pc' = [pc EXCEPT ![d] = "flush"]
        /\ path' = [path EXCEPT ![d] = NULL]
    BY <1>11 DEF WriteLine, Runs
  <2>2. \A c \in Context : c # d => pc'[c] = pc[c] /\ path'[c] = path[c]
    BY <1>1, <2>1
  <2>3. pc'[d] = "flush"
    BY <1>1, <2>1
  <2>4. Empty'
    <3>1. SUFFICES ASSUME "final" \notin odd', NEW c \in Context, pc'[c] = "create" PROVE FALSE
      OBVIOUS
    <3>2. "final" \notin odd /\ c # d /\ pc[c] = "create"
      BY <1>4, <2>2, <2>3, <3>1
    <3> QED
      BY <2>1, <3>2, LockHolder DEF Flushing
  <2>5. None'
    <3>1. SUFFICES ASSUME Clean' PROVE lost' = {} /\ Open'
      OBVIOUS
    <3>2. lost = {} /\ Open /\ "final" \notin odd
      BY <1>2, <1>6, <3>1
    <3>3. /\ path[d] \in Path /\ slot[x[d]] \in Line
          /\ \A p \in Path \ {path[d]} : file'[p] = file[p]
          /\ Emptied(d)[path[d]] = IF pc[d] = "create" THEN <<>> ELSE file[path[d]]
      BY <1>11, WriteFiles
    <3>4. Emptied(d)[path[d]] = file[path[d]]
      BY <1>2, <3>2, <3>3
    <3>5. /\ file'[path[d]] = Append(file[path[d]], slot[x[d]])
          /\ lost' = lost \cup (ToSet(file[path[d]]) \ ToSet(file'[path[d]]))
          /\ odd' = IF EarlyLine(d) THEN odd \cup {"early"} ELSE odd
      BY <1>11, <3>1, <3>4, WriteFiles
    <3>6. file[path[d]] \in Seq(Line)
      BY <3>3 DEF TypeOK
    <3>7. ToSet(file'[path[d]]) = ToSet(file[path[d]]) \cup {slot[x[d]]}
      BY <3>3, <3>5, <3>6, Appended
    <3>8. lost' = {}
      BY <3>2, <3>5, <3>7
    <3>9. \A t \in Thread : pc[Base(t)] \in Registering => path[Base(t)] # path[d]
      BY <3>1, <3>5 DEF EarlyLine, Registering
    <3>10. Open'
      <4> SUFFICES ASSUME NEW t \in Thread, pc'[Base(t)] \in Registering
                   PROVE  file'[path'[Base(t)]] = <<>>
        OBVIOUS
      <4>1. Base(t) # d /\ pc[Base(t)] \in Registering /\ path'[Base(t)] = path[Base(t)]
        BY <1>1, <2>2, <2>3 DEF Registering
      <4>2. path[Base(t)] \in Path
        BY <1>1, <4>1 DEF BufferOK, ReadsOK
      <4> QED
        BY <3>2, <3>3, <3>9, <4>1, <4>2
    <3> QED
      BY <3>8, <3>10
  <2> QED
    BY <2>4, <2>5
<1>12. ASSUME NEW t \in Thread, NEW n \in Name, Register(t, n) PROVE Goal
  <2>1. /\ UNCHANGED <<file, lost>> /\ path' = [path EXCEPT ![Base(t)] = NameLog(n)]
        /\ pc' = [pc EXCEPT ![Base(t)] = "rename"] \/ pc' = [pc EXCEPT ![Base(t)] = "link"]
        /\ regs' = regs \cup {<<t, n>>} /\ regs \subseteq Thread \X Name
        /\ "again" \notin odd' => <<t, n>> \notin regs
    BY <1>12 DEF Register, Go, ioVars, TypeOK
  <2>2. \A c \in Context : c # Base(t) => pc'[c] = pc[c] /\ path'[c] = path[c]
    BY <1>1, <2>1
  <2>3. pc'[Base(t)] \in {"rename", "link"} /\ path'[Base(t)] = NameLog(n)
    BY <1>1, <2>1
  <2>4. Empty'
    BY <1>2, <1>4, <2>1, <2>2, <2>3
  <2>5. Clean' => file[NameLog(n)] = <<>>
    <3>1. SUFFICES ASSUME Clean', file[NameLog(n)] # <<>> PROVE FALSE
      OBVIOUS
    <3>2. InUse(NameLog(n))
      BY <3>1, Paths DEF PathsOK
    <3>3. PICK r \in regs : r[2] = n
      BY <3>2, Paths DEF InUse
    <3>4. r # <<t, n>>
      BY <2>1, <3>1
    <3>5. r \in regs' /\ <<t, n>> \in regs' /\ r[1] # t
      BY <2>1, <3>3, <3>4
    <3>6. <<t, n>>[1] = t /\ <<t, n>>[2] = n
      OBVIOUS
    <3>7. Reused'
      BY <3>3, <3>5, <3>6, Zenon DEF Reused
    <3> QED
      BY <3>1, <3>7
  <2>6. Clean' /\ Open => Open'
    BY <1>1, <2>1, <2>2, <2>3, <2>5
  <2> QED
    BY <1>2, <1>6, <2>1, <2>4, <2>6
<1>13. ASSUME NEW t \in Thread, Link(t) \/ SetLast(t) PROVE Goal
  <2>1. /\ UNCHANGED <<file, lost, path>> /\ pc[Base(t)] \in Registering
        /\ pc' = [pc EXCEPT ![Base(t)] = "last"] \/ pc' = [pc EXCEPT ![Base(t)] = "rename"]
    BY <1>13 DEF Link, SetLast, Go, Runs, ioVars, Registering
  <2>2. \A c \in Context : pc'[c] = pc[c] \/ (pc[c] \in Registering /\ pc'[c] # "create")
    BY <1>1, <2>1
  <2> QED
    BY <1>7, <2>1, <2>2
<1>14. ASSUME NEW t \in Thread, Rename(t) PROVE Goal
  <2>1. /\ pc[Base(t)] = "rename" /\ pc' = [pc EXCEPT ![Base(t)] = "idle"]
        /\ path' = [path EXCEPT ![Base(t)] = NULL] /\ regs' = regs
    BY <1>14 DEF Rename, Go, Runs
  <2>2. \A c \in Context : c # Base(t) => pc'[c] = pc[c] /\ path'[c] = path[c]
    BY <1>1, <2>1
  <2>3. pc'[Base(t)] = "idle"
    BY <1>1, <2>1
  <2>4. PICK n \in Name : path[Base(t)] = NameLog(n) /\ <<t, n>> \in regs
    BY <2>1 DEF PathsOK, Registering
  <2>5. \A p \in Path : p # NameLog(n) => file'[p] = file[p] \/ file'[p] = <<>>
    BY <1>14, <2>4, RenameFiles
  <2>6. Empty'
    <3> SUFFICES ASSUME "final" \notin odd', NEW c \in Context, pc'[c] = "create"
                 PROVE  file'[path'[c]] = <<>>
      OBVIOUS
    <3>1. pc[c] = "create" /\ path'[c] = path[c] /\ "final" \notin odd
      BY <1>4, <2>2, <2>3
    <3>2. path[c] # NameLog(n) /\ path[c] \in Path
      BY <3>1, Paths DEF PathsOK
    <3> QED
      BY <1>2, <2>5, <3>1, <3>2
  <2>7. None'
    <3>1. SUFFICES ASSUME Clean' PROVE lost' = {} /\ Open'
      OBVIOUS
    <3>2. lost = {} /\ Open
      BY <1>2, <1>6, <3>1
    <3>3. file[path[Base(t)]] = <<>>
      BY <2>1, <3>2 DEF Registering
    <3>4. ToSet(<<>>) = {}
      BY DEF ToSet
    <3>5. lost' = {}
      BY <1>14, <3>2, <3>3, <3>4, RenameFiles
    <3>6. Open'
      <4> SUFFICES ASSUME NEW u \in Thread, pc'[Base(u)] \in Registering
                   PROVE  file'[path'[Base(u)]] = <<>>
        OBVIOUS
      <4>1. /\ u # t /\ pc[Base(u)] \in Registering /\ path'[Base(u)] = path[Base(u)]
        BY <1>1, <2>2, <2>3 DEF Registering
      <4>2. PICK k \in Name : path[Base(u)] = NameLog(k) /\ <<u, k>> \in regs
        BY <4>1 DEF PathsOK
      <4>3. k # n
        <5>1. <<t, n>>[1] = t /\ <<t, n>>[2] = n /\ <<u, k>>[1] = u /\ <<u, k>>[2] = k
          OBVIOUS
        <5>2. ~ Reused
          BY <1>6, <3>1
        <5> QED
          BY <2>4, <4>1, <4>2, <5>1, <5>2, Zenon DEF Reused
      <4>4. NameLog(k) # NameLog(n) /\ NameLog(k) \in Path
        BY <4>3, Paths
      <4> QED
        BY <2>5, <3>2, <4>1, <4>2, <4>4
    <3> QED
      BY <3>5, <3>6
  <2> QED
    BY <2>6, <2>7
<1>15. CASE LevelSet \/ UNCHANGED vars
  BY <1>7, <1>15 DEF LevelSet, vars, ioVars
<1> QED
  BY <1>8, <1>9, <1>10, <1>11, <1>12, <1>13, <1>14, <1>15, NextCases

-----------------------------------------------------------------------------
(* The invariant.                                                          *)

LEMMA InitTypes == Init => TypeOK
<1> SUFFICES ASSUME Init PROVE TypeOK
  OBVIOUS
<1> DEFINE e == [thread |-> Main, path |-> NameLog(MainName)]
           R == [thread : Thread, path : Path]
           empty == [p \in Path |-> <<>>]
<1>1. /\ MaxCells \in Nat \ {0} /\ MainName \in Name /\ Main \in Thread
      /\ MaxBuffered \in Nat /\ MaxBuffered > 1 /\ Started \subseteq Thread
  BY LoggerAssumption
<1>2. e \in R
  BY <1>1, Paths
<1> HIDE DEF e, R
<1>3. cells = <<e>>
  BY DEF Init, e
<1>4. cells \in Seq(R) /\ Len(cells) = 1 /\ DOMAIN cells = {1}
  BY <1>2, <1>3
<1>5. cells \in Seq([thread : Thread, path : Path]) /\ Len(cells) <= MaxCells
  BY <1>1, <1>4 DEF R
<1>6. chain \in Seq(DOMAIN cells) /\ lastEntry \in DOMAIN cells
  BY <1>4 DEF Init
<1>7. file \in [Path -> Seq(Line)]
  <2>1. \A t \in Started : ThreadLog(t)[1] = t /\ [id |-> 0, thread |-> t] \in Line
    BY <1>1, Paths DEF Line
  <2>2. \A p \in Path : file[p] \in Seq(Line)
    <3> SUFFICES ASSUME NEW p \in Path PROVE file[p] \in Seq(Line)
      OBVIOUS
    <3>1. CASE \E t \in Started : p = ThreadLog(t)
      <4>1. file[p] = <<[id |-> 0, thread |-> p[1]]>>
        BY <3>1 DEF Init
      <4>2. [id |-> 0, thread |-> p[1]] \in Line
        BY <2>1, <3>1
      <4> QED
        BY <4>1, <4>2
    <3>2. CASE ~ \E t \in Started : p = ThreadLog(t)
      BY <3>2 DEF Init
    <3> QED
      BY <3>1, <3>2
  <2> QED
    BY <2>2 DEF Init
<1>8. logged \in Seq(Line)
  BY InitLines
<1>9. /\ pc \in [Context -> Label] /\ job \in [Context -> Job \cup {NULL}]
      /\ x \in [Context -> Nat] /\ path \in [Context -> Path \cup {NULL}]
      /\ slot \in [1..MaxBuffered -> Line \cup {NULL}]
  BY DEF Init, Label
<1>10. count \in 0..MaxBuffered /\ count < MaxBuffered /\ log_level_for_buffer \in 0..4
  BY <1>1 DEF Init
<1>11. /\ LogLock \in Context \cup {NULL} /\ {fmt, backup} \subseteq {"general", "bare"}
       /\ lost \subseteq Line /\ owed \subseteq Line /\ odd = {} /\ down \in BOOLEAN
  BY DEF Init
<1>12. regs \subseteq Thread \X Name
  BY <1>1 DEF Init
<1> QED
  BY <1>5, <1>6, <1>7, <1>8, <1>9, <1>10, <1>11, <1>12 DEF TypeOK

LEMMA InitInv == Init => LoggerInv
<1> SUFFICES ASSUME Init PROVE LoggerInv
  OBVIOUS
<1>1. TypeOK
  BY InitTypes
<1>2. /\ \A c \in Context : pc[c] = "idle" /\ job[c] = NULL
      /\ LogLock = NULL /\ NULL \notin Context /\ count = 0 /\ odd = {} /\ 1..0 = {}
  BY Contexts DEF Init
<1>3. ControlOK
  BY <1>2, Contexts DEF ControlOK, ContextOK, Flushing, Registering
<1>4. BufferOK
  BY <1>2 DEF BufferOK, ReadsOK, Flushing, Registering
<1>5. FormatOK
  BY <1>2, Contexts DEF FormatOK, Init
<1> DEFINE e == [thread |-> Main, path |-> NameLog(MainName)]
<1>6. /\ DOMAIN cells = {1} /\ cells[1].thread = Main /\ cells[1].path = NameLog(MainName)
      /\ regs = {<<Main, MainName>>} /\ MainName \in Name
  BY LoggerAssumption DEF Init
<1>7. CellsOK
  <2>1. <<Main, MainName>>[1] = Main /\ <<Main, MainName>>[2] = MainName
    OBVIOUS
  <2>2. \A n \in Name : (\A r \in regs : r[1] = Main => r[2] = n) => n = MainName
    BY <1>6, <2>1, Zenon
  <2>3. NameLog(MainName)[1] = MainName
    BY <1>6, Paths
  <2> QED
    BY <1>6, <2>2, <2>3 DEF CellsOK
<1>8. ListOK
  <2>1. chain = <<1>> /\ Len(chain) = 1 /\ DOMAIN chain = {1} /\ chain[1] = 1 /\ lastEntry = 1
    BY DEF Init
  <2>2. InList(1)
    BY <2>1 DEF InList
  <2>3. \A t \in Thread : pc[Base(t)] = "idle"
    BY <1>2, Contexts
  <2>4. pc[Base(cells[1].thread)] # "link"
    BY <1>6, <2>3, Contexts
  <2> QED
    BY <1>6, <2>1, <2>2, <2>3, <2>4 DEF ListOK, Linked
<1>9. EntriesOK
  BY <1>6 DEF EntriesOK
<1> DEFINE born(t) == [id |-> 0, thread |-> t]
<1>10. /\ logged \in Seq(Line) /\ Len(logged) \in Nat /\ 0 <= Len(logged)
       /\ \A m : m \in ToSet(logged) <=> \E t \in Started : m = born(t)
  BY InitLines, LenProperties
<1>11. /\ \A t : born(t).id = 0 /\ born(t).thread = t
       /\ \A t \in Started : ThreadLog(t) \in Path /\ ThreadLog(t)[1] = t
  BY LoggerAssumption, Paths
<1>12. \A t \in Started : file[ThreadLog(t)] = <<born(t)>>
  BY <1>11 DEF Init
<1>13. \A p \in Path : ~ (\E t \in Started : p = ThreadLog(t)) => file[p] = <<>>
  BY DEF Init
<1> HIDE DEF born
<1>14. \A t \in Started : DOMAIN file[ThreadLog(t)] = {1} /\ file[ThreadLog(t)][1] = born(t)
  BY <1>12
<1>15. ASSUME NEW p \in Path, NEW i \in DOMAIN file[p]
       PROVE  \E t \in Started : p = ThreadLog(t) /\ i = 1 /\ file[p][i] = born(t)
  <2>1. DOMAIN <<>> = {}
    OBVIOUS
  <2>2. PICK t \in Started : p = ThreadLog(t)
    BY <1>13, <1>15, <2>1
  <2> QED
    BY <1>14, <1>15, <2>2
<1>16. LoggedOK
  <2>1. \A m \in ToSet(logged) : m.id <= Len(logged)
    BY <1>10, <1>11
  <2>2. \A i \in 1..MaxBuffered : slot[i] = NULL
    BY DEF Init
  <2>3. \A p \in Path : \A i \in DOMAIN file[p] : file[p][i] \in ToSet(logged)
    BY <1>10, <1>15
  <2> QED
    BY <2>1, <2>2, <2>3 DEF LoggedOK
<1>17. OnceOK
  <2>1. ASSUME NEW t, NEW u, born(t) = born(u) PROVE t = u
    <3>1. born(t).thread = t /\ born(u).thread = u
      BY <1>11
    <3> QED
      BY <2>1, <3>1
  <2>2. \A p, q \in Path : \A i \in DOMAIN file[p], j \in DOMAIN file[q] :
           file[p][i] = file[q][j] => p = q /\ i = j
    BY <1>15, <2>1
  <2>3. First = 1
    BY <1>2 DEF First
  <2> QED
    BY <1>2, <2>2, <2>3 DEF OnceOK
<1>18. KeptOK
  <2>1. \A m \in ToSet(logged) : InFile(m)
    BY <1>10, <1>11, <1>14 DEF InFile
  <2>2. ~ LastFlush /\ ~ down /\ owed = {}
    BY <1>2, Contexts DEF LastFlush, Flushing, Init
  <2> QED
    BY <2>1, <2>2 DEF KeptOK
<1>19. PathsOK
  <2>1. \A p \in Path : file[p] # <<>> => InUse(p)
    BY LoggerAssumption DEF Init, InUse
  <2> QED
    BY <1>2, <2>1, Contexts DEF PathsOK, Registering
<1>20. LossOK
  BY <1>2, Contexts DEF LossOK, Registering, Init
<1> QED
  BY <1>1, <1>3, <1>4, <1>5, <1>7, <1>8, <1>9, <1>16, <1>17, <1>18, <1>19, <1>20
  DEF LoggerInv

LEMMA LoggerStep == LoggerInv /\ [Next]_vars => LoggerInv'
BY TypeStep, ControlStep, BufferStep, FormatStep, CellsStep, ListStep, EntriesStep,
   LoggedStep, OnceStep, KeptStep, PathsStep, LossStep DEF LoggerInv

LEMMA Invariant == Spec => []LoggerInv
BY InitInv, LoggerStep, PTL DEF Spec

-----------------------------------------------------------------------------
(* What follows from it.                                                   *)

LEMMA PlacesFacts ==
    ASSUME NEW m
    PROVE  /\ InFile(m) => Places(m) # {}
           /\ ~ InFile(m) => Places(m) = {}
           /\ \A z \in Places(m) : \E p \in Path : \E i \in DOMAIN file[p] :
                 z = <<p, i>> /\ file[p][i] = m
<1> DEFINE In(p) == {<<p, i>> : i \in {j \in DOMAIN file[p] : file[p][j] = m}}
<1>1. Places(m) = UNION {In(p) : p \in Path}
  BY DEF Places
<1>2. \A p : \A i \in DOMAIN file[p] : file[p][i] = m => <<p, i>> \in In(p)
  OBVIOUS
<1>3. \A p : \A z \in In(p) : \E i \in DOMAIN file[p] : z = <<p, i>> /\ file[p][i] = m
  OBVIOUS
<1> HIDE DEF In
<1>4. \A z \in Places(m) : \E p \in Path : \E i \in DOMAIN file[p] :
         z = <<p, i>> /\ file[p][i] = m
  BY <1>1, <1>3
<1>5. InFile(m) => Places(m) # {}
  BY <1>1, <1>2 DEF InFile
<1>6. ~ InFile(m) => Places(m) = {}
  BY <1>4 DEF InFile
<1> QED
  BY <1>4, <1>5, <1>6

\* A line that has not been written is nowhere else, one that has is in one place.
LEMMA KeptOnce == LoggerInv => LinesKept
<1> SUFFICES ASSUME LoggerInv, "final" \notin odd
             PROVE  /\ \A m \in ToSet(logged) \ lost :
                          Cardinality(Places(m)) = IF m \in Pending THEN 0 ELSE 1
                    /\ lost # {} => odd \cap {"fail", "again", "early"} # {} \/ Reused
  BY DEF LinesKept
<1>1. OnceOK /\ KeptOK /\ LossOK
  BY DEF LoggerInv
<1>2. ASSUME NEW m \in ToSet(logged) \ lost, m \in Pending PROVE Cardinality(Places(m)) = 0
  <2>1. ~ InFile(m)
    BY <1>1, <1>2 DEF OnceOK, Pending
  <2> QED
    BY <2>1, PlacesFacts, FS_EmptySet
<1>3. ASSUME NEW m \in ToSet(logged) \ lost, m \notin Pending PROVE Cardinality(Places(m)) = 1
  <2>1. InFile(m)
    BY <1>1, <1>3 DEF KeptOK
  <2>2. PICK z : z \in Places(m)
    BY <2>1, PlacesFacts
  <2>3. \A y \in Places(m) : y = z
    BY <1>1, <2>2, PlacesFacts DEF OnceOK
  <2>4. Places(m) = {z}
    BY <2>2, <2>3
  <2> QED
    BY <2>4, FS_Singleton
<1>4. lost # {} => odd \cap {"fail", "again", "early"} # {} \/ Reused
  BY <1>1 DEF LossOK
<1> QED
  BY <1>2, <1>3, <1>4

LEMMA FoundInList == LoggerInv => EntryFound
<1> SUFFICES ASSUME LoggerInv, NEW t \in Thread, NEW n \in Name, <<t, n>> \in regs,
                    pc[Base(t)] \notin {"link", "last"}, odd \cap {"race", "memory"} = {}
             PROVE  /\ IsEntered(t)
                    /\ (\A r \in regs : r[1] = t => r[2] = n) => PathOf(t) = NameLog(n)
  BY DEF EntryFound
<1>1. PICK k \in DOMAIN cells : cells[k].thread = t
  BY DEF LoggerInv, EntriesOK
<1>2. IsEntered(t)
  BY <1>1, Entered DEF LoggerInv, ListOK, Linked
<1>3. EntryOf(t) \in DOMAIN cells /\ cells[EntryOf(t)].thread = t
  BY <1>2, EntryFacts DEF LoggerInv
<1>4. (\A r \in regs : r[1] = t => r[2] = n) => cells[EntryOf(t)].path = NameLog(n)
  <2> DEFINE e == EntryOf(t)
  <2>1. \A m \in Name : (\A r \in regs : r[1] = cells[e].thread => r[2] = m) =>
           cells[e].path = NameLog(m)
    BY <1>3, Zenon DEF LoggerInv, CellsOK
  <2> QED
    BY <1>3, <2>1, Zenon
<1> QED
  BY <1>2, <1>4 DEF PathOf

LEMMA GeneralFormat == LoggerInv => FormatRestored
<1> SUFFICES ASSUME LoggerInv, ~ Interrupted, "overlap" \notin odd PROVE fmt # "bare"
  BY DEF FormatRestored, FormatOf
<1>1. SUFFICES ASSUME NEW t \in Thread, Restores(t) PROVE FALSE
  BY DEF LoggerInv, FormatOK
<1>2. pc[Handler(t)] = "idle" /\ Handler(t) \in Context
  BY Contexts DEF Interrupted
<1> QED
  BY <1>1, <1>2 DEF Restores, LoggerInv, ControlOK, ContextOK, Flushing

-----------------------------------------------------------------------------
(* The theorems.                                                           *)

\* Everything has its type, and whenever the lock of the buffer is free there is
\* room in it for one more message, although nobody checks before writing
\* (logger.c, output_Message): who fills the last slot keeps the lock until the
\* buffer is written.
THEOREM LoggerTypeCorrect == Spec => []TypeOK
<1>1. LoggerInv => TypeOK
  BY DEF LoggerInv
<1> QED
  BY <1>1, Invariant, PTL

\* Until the flush of log_shutdown, which takes no lock, each line that got into the
\* buffer is in it or exactly once in a file, or is accounted for by a failed fopen,
\* a name that was used before or a line that came before the rename.
THEOREM NoLineIsLost == Spec => []LinesKept
BY Invariant, KeptOnce, PTL

\* When main has returned from log_shutdown, what was logged when it called it is
\* in a file, whoever flushed or reset the buffer while it wrote.
THEOREM EverythingFlushed == Spec => []FlushedAtShutdown
<1>1. LoggerInv => FlushedAtShutdown
  <2> SUFFICES ASSUME LoggerInv, down, NEW m \in owed \ lost PROVE Places(m) # {}
    BY DEF FlushedAtShutdown
  <2>1. InFile(m)
    BY DEF LoggerInv, KeptOK
  <2> QED
    BY <2>1, PlacesFacts
<1> QED
  BY <1>1, Invariant, PTL

\* add_Thread_Name_Mapping links a thread so that f_find_Entry finds it, with the
\* path of its name, unless two threads changed the end of the list at once or
\* malloc failed.
THEOREM EntriesAreFound == Spec => []EntryFound
BY Invariant, FoundInList, PTL

\* After sigint_Handler the format is the one from before, if no second signal came
\* in between.
THEOREM FormatIsRestored == Spec => []FormatRestored
BY Invariant, GeneralFormat, PTL

=============================================================================
