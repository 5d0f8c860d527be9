----------------------------- MODULE RosterProofs -----------------------------
(***************************************************************************)
(* Proofs about Roster: that no two users have one announced name, and     *)
(* that the users agree in the end on who is there, for any number of      *)
(* clients, names, headers and places in the queue.                        *)
(***************************************************************************)
EXTENDS Roster, SequenceTheorems, TLAPS

-----------------------------------------------------------------------------
(* The inductive invariant.                                                *)

\* A thread that has not begun has no User, and self is not its User.
AwayOK ==
    \A t \in Client : pc[t] = "away" =>
        /\ t \notin users /\ self # t
        /\ ~ logged_in[t] /\ name_length[t] = 0 /\ view[t] = {}

\* What a login leaves in a User; only a second login leaves a tail.
NamedOK ==
    /\ \A c \in Client \ renamed : Fits(name[c], name_length[c])
    /\ \A t \in Client : pc[t] = "set" => login_name[t] \in Name

\* The name a thread has checked is still free, and has the length it is set with.
CheckedOK ==
    \A t \in Client :
        pc[t] = "set" /\ ((msg_length # NULL /\ ~ overwritten) \/ (~ crossed /\ t = self)) =>
            /\ Fits(login_name[t], msg_length)
            /\ \A c \in LoggedIn \ {self} : String(name[c]) # login_name[t]

\* The state of its own User where a thread is.
PhaseOK ==
    \A t \in Client :
        /\ pc[t] \notin {"away", "gone"} => t \in users
        /\ pc[t] \in {"add", "inform"} => logged_in[t]
        /\ pc[t] \in {"farewell", "remove"} => ~ logged_in[t]
        /\ pc[t] \in {"loop", "read", "set"} /\ ~ logged_in[t] => view[t] = {}
        /\ logged_in[t] => name_length[t] # 0

\* The header of a login is the last one, as long as only its thread has self.
LengthOK ==
    \A t \in Client : pc[t] \in {"read", "set"} /\ t = self => msg_length \in Length \ {0}

\* A UserRemoved for self takes nobody else from a list.
DistinctOK ==
    self \in Client /\ name_length[self] # 0 =>
        \A d \in LoggedIn \ ({self} \cup renamed) : Announced(d) # Announced(self)

\* A UserAdded for s is still in the queue.
Queued(s) == \E i \in DOMAIN queue : queue[i] = s

\* d is on c's list, or is still to be announced to c.
ToldOf(c, d) ==
    \/ Announced(d) \in view[c]
    \/ pc[d] = "add" \/ Queued(Announced(d))
    \/ pc[c] \in {"add", "inform"}

\* Who is missing from a list is still to be announced to it.
MissingOK ==
    \A c, d \in LoggedIn : c # d /\ d \notin dropped \cup renamed => ToldOf(c, d)

\* A name that is listed or queued is one of a user that is logged in, or about to
\* be said farewell to, or it is stale.
Known ==
    {Announced(d) : d \in {e \in users : name_length[e] # 0
                                        /\ (logged_in[e] \/ pc[e] = "farewell")}}
        \cup stale
KnownOK ==
    /\ \A c \in LoggedIn : view[c] \subseteq Known
    /\ \A i \in DOMAIN queue : queue[i] \in Known

RosterInv ==
    /\ TypeOK /\ AwayOK /\ NamedOK /\ CheckedOK /\ UniqueNames
    /\ ~ crossed => PhaseOK /\ LengthOK /\ DistinctOK /\ MissingOK /\ KnownOK

-----------------------------------------------------------------------------
(* Names and what is left of them in a field.                              *)

\* What is sent of a field is a text, and all of it if nothing is left of an
\* older name.
LEMMA CutFacts ==
    ASSUME NEW f \in Field, NEW n \in Nat
    PROVE  /\ Cut(f, n) \in Text
           /\ Fits(f, n) => f \in Text
<1> DEFINE g == Cut(f, n)
           h == String(g)
           Ends(i) == i > n \/ (\E j \in 1..i : f[j] = NUL)
<1>1. g \in Field /\ \A i \in 1..NameCap : g[i] = IF Ends(i) THEN NUL ELSE f[i]
  BY DEF Cut, Field
<1>2. h = [i \in 1..NameCap |-> IF i > NameCap \/ (\E j \in 1..i : g[j] = NUL) THEN NUL ELSE g[i]]
  BY DEF String, Cut
<1>3. ASSUME NEW i \in 1..NameCap PROVE h[i] = g[i]
  <2>1. i \in Nat /\ NameCap \in Nat /\ ~ (i > NameCap) /\ 1..i \subseteq 1..NameCap
    BY RosterAssumption
  <2> HIDE DEF g, h
  <2>2. h[i] = IF \E j \in 1..i : g[j] = NUL THEN NUL ELSE g[i]
    BY <1>2, <2>1
  <2>3. ASSUME NEW j \in 1..i, g[j] = NUL PROVE g[i] = NUL
    <3>1. Ends(j) \/ f[j] = NUL
      BY <1>1, <2>1, <2>3
    <3>2. j \in 1..j /\ 1..j \subseteq 1..i /\ (j > n => i > n)
      BY <2>1
    <3>3. Ends(i)
      BY <3>1, <3>2
    <3> QED
      BY <1>1, <3>3
  <2> QED
    BY <2>2, <2>3
<1>4. h = g
  <2> HIDE DEF g
  <2> QED
    BY <1>1, <1>2, <1>3 DEF Field
<1>5. g \in Text
  BY <1>1, <1>4 DEF Text
<1> QED
  BY <1>5 DEF Fits

\* An empty field, and a field of which nothing is used.
LEMMA EmptyFacts ==
    /\ Empty \in Text /\ Empty \in Field /\ Fits(Empty, 0)
    /\ \A f \in Field : Fits(f, 0) => f = Empty
<1>1. Empty \in Field
  BY DEF Empty, Field
<1>2. ASSUME NEW f \in Field PROVE Cut(f, 0) = Empty
  <2>1. \A i \in 1..NameCap : i > 0
    BY RosterAssumption
  <2> QED
    BY <2>1 DEF Cut, Empty
<1>3. Cut(Empty, 0) \in Text
  BY <1>1, CutFacts
<1> QED
  BY <1>1, <1>2, <1>3 DEF Fits

\* strncpy puts a name at the front of a field.  With its own length it is what is
\* used of the field then, and all of it if nothing was there; with any length
\* nothing is behind what is used of a field that was empty.
LEMMA CopyFacts ==
    ASSUME NEW nm \in Text, NEW n \in Length, NEW old \in Field
    PROVE  /\ StrNCpy(old, nm, n) \in Field
           /\ Fits(nm, n) => Cut(StrNCpy(old, nm, n), n) = nm
           /\ Fits(StrNCpy(Empty, nm, n), n)
<1> DEFINE new == StrNCpy(old, nm, n)
           first == StrNCpy(Empty, nm, n)
<1>1. nm \in Field /\ String(nm) = nm /\ n \in Nat /\ NameCap \in Nat
  BY RosterAssumption DEF Text, Length
<1>2. new \in Field /\ \A i \in 1..NameCap : new[i] = IF i <= n THEN nm[i] ELSE old[i]
  BY <1>1 DEF StrNCpy, Field
<1>3. first \in Field /\ \A i \in 1..NameCap : first[i] = IF i <= n THEN nm[i] ELSE NUL
  BY <1>1 DEF StrNCpy, Field, Empty
<1>4. \A i \in 1..NameCap : /\ i \in Nat /\ 1..i \subseteq 1..NameCap /\ ~ (i > NameCap)
                            /\ i <= n => \A j \in 1..i : j <= n
  BY <1>1
<1> HIDE DEF new, first
<1>5. ASSUME Fits(nm, n) PROVE Cut(new, n) = nm
  <2>1. \A i \in 1..NameCap : nm[i] = IF i > n \/ (\E j \in 1..i : nm[j] = NUL) THEN NUL ELSE nm[i]
    BY <1>5 DEF Fits, Cut
  <2>2. ASSUME NEW i \in 1..NameCap PROVE Cut(new, n)[i] = nm[i]
    <3>1. Cut(new, n)[i] = IF i > n \/ (\E j \in 1..i : new[j] = NUL) THEN NUL ELSE new[i]
      BY DEF Cut
    <3>2. CASE i > n
      BY <2>1, <3>1, <3>2
    <3>3. CASE ~ (i > n)
      <4>1. \A j \in 1..i : new[j] = nm[j]
        BY <1>1, <1>2, <1>4, <3>3
      <4>2. new[i] = nm[i]
        BY <1>1, <1>2, <1>4, <3>3
      <4> QED
        BY <2>1, <3>1, <3>3, <4>1, <4>2
    <3> QED
      BY <3>2, <3>3
  <2>3. Cut(new, n) = [i \in 1..NameCap |-> Cut(new, n)[i]]
    BY DEF Cut
  <2>4. nm = [i \in 1..NameCap |-> nm[i]]
    BY <1>1 DEF Field
  <2> QED
    BY <2>2, <2>3, <2>4
<1>6. Cut(first, n) = first
  <2>1. \A i \in 1..NameCap : nm[i] = IF \E j \in 1..i : nm[j] = NUL THEN NUL ELSE nm[i]
    <3>1. \A i \in 1..NameCap :
             String(nm)[i] = IF i > NameCap \/ (\E j \in 1..i : nm[j] = NUL) THEN NUL ELSE nm[i]
      BY DEF String, Cut
    <3> QED
      BY <1>1, <1>4, <3>1
  <2>2. ASSUME NEW i \in 1..NameCap PROVE Cut(first, n)[i] = first[i]
    <3>1. Cut(first, n)[i] = IF i > n \/ (\E j \in 1..i : first[j] = NUL) THEN NUL ELSE first[i]
      BY DEF Cut
    <3>2. CASE i > n
      BY <1>1, <1>3, <1>4, <3>1, <3>2
    <3>3. CASE ~ (i > n)
      <4>1. (\A j \in 1..i : first[j] = nm[j]) /\ first[i] = nm[i]
        BY <1>1, <1>3, <1>4, <3>3
      <4> QED
        BY <2>1, <3>1, <3>3, <4>1
    <3> QED
      BY <3>2, <3>3
  <2>3. Cut(first, n) = [i \in 1..NameCap |-> Cut(first, n)[i]]
    BY DEF Cut
  <2>4. first = [i \in 1..NameCap |-> first[i]]
    BY <1>3 DEF Field
  <2> QED
    BY <2>2, <2>3, <2>4
<1> QED
  BY <1>2, <1>5, <1>6 DEF Fits, new, first

\* What a user is announced as.
LEMMA AnnouncedFacts ==
    ASSUME TypeOK, NEW c \in Client
    PROVE  /\ Announced(c) \in Text
           /\ Fits(name[c], name_length[c]) => Announced(c) = name[c] /\ String(name[c]) = name[c]
<1>1. name[c] \in Field /\ name_length[c] \in Nat
  BY DEF TypeOK, Length
<1>2. /\ Cut(name[c], name_length[c]) \in Text
      /\ Fits(name[c], name_length[c]) => name[c] \in Text
  BY <1>1, CutFacts
<1> QED
  BY <1>2 DEF Announced, Fits, Text

-----------------------------------------------------------------------------
(* The steps up to the check of a name change nothing that is on the list. *)

Reading(t) ==
    \/ \E n \in Length : Receive(t, n)
    \/ \E n \in Length \cup {NULL} : Chat(t, n)
    \/ \E nm \in Name : Login(t, nm)
    \/ Refuse(t)

LEMMA ReadingKeeps ==
    ASSUME TypeOK, NEW t \in Client, Reading(t)
    PROVE  /\ UNCHANGED <<self, users, name, name_length, logged_in, queue, view, dropped,
                          renamed, stale>>
           /\ pc[t] \in {"loop", "read"} /\ pc'[t] \in {"loop", "read", "set"} /\ t # NULL
           /\ \A u \in Client \ {t} : pc'[u] = pc[u] /\ login_name'[u] = login_name[u]
           /\ pc' \in [Client -> Label] /\ crossed' = (crossed \/ self # t)
           /\ overwritten' \in BOOLEAN /\ (overwritten => overwritten')
           /\ headers' \in 0..MaxHeaders
<1> USE RosterAssumption
<1>1. ASSUME NEW n \in Length, Receive(t, n) PROVE /\ pc[t] = "loop" /\ pc'[t] = "read"
  BY <1>1 DEF Receive, Header, Using, Goto, TypeOK
<1>2. ASSUME NEW n, Header(t, n) PROVE /\ headers' \in 0..MaxHeaders
                                      /\ overwritten' \in BOOLEAN /\ (overwritten => overwritten')
  BY <1>2 DEF Header, TypeOK
<1>3. CASE \E n \in Length : Receive(t, n)
  BY <1>1, <1>2, <1>3 DEF Receive, Header, Using, Goto, Label, TypeOK
<1>4. CASE \E n \in Length \cup {NULL} : Chat(t, n)
  BY <1>2, <1>4 DEF Chat, Header, Using, TypeOK
<1>5. CASE \E nm \in Name : Login(t, nm)
  BY <1>5 DEF Login, Using, Goto, Label, TypeOK, userVars
<1>6. CASE Refuse(t)
  BY <1>6 DEF Refuse, Using, Goto, Label, TypeOK, userVars
<1> QED
  BY <1>3, <1>4, <1>5, <1>6 DEF Reading

LEMMA NextIs ==
    Next => \/ Dispatch
            \/ \E t \in Client : \/ Connect(t) \/ Reading(t) \/ SetLogin(t) \/ Add(t) \/ Inform(t)
                                \/ Leave(t) \/ Farewell(t) \/ Remove(t)
BY DEF Next, Reading

-----------------------------------------------------------------------------
(* Types.                                                                  *)

LEMMA InitType == Init => TypeOK
<1> SUFFICES ASSUME Init PROVE TypeOK
  OBVIOUS
<1>1. 0 \in Length /\ 0 \in 0..MaxHeaders
  BY RosterAssumption DEF Length
<1>2. queue \in Seq(Text) /\ Len(queue) <= QueueMax
  BY RosterAssumption DEF Init
<1> QED
  BY <1>1, <1>2, EmptyFacts DEF Init, TypeOK, Label

\* Every step keeps the types.
LEMMA TypeStep ==
    ASSUME TypeOK, NamedOK, [Next]_vars
    PROVE  TypeOK'
<1>1. CASE UNCHANGED vars
  BY <1>1 DEF TypeOK, vars, userVars, histories
<1>2. CASE Dispatch
  <2>1. queue \in Seq(Text) /\ queue # <<>>
    BY <1>2 DEF Dispatch, TypeOK
  <2>2. Head(queue) \in Text /\ Tail(queue) \in Seq(Text) /\ Len(Tail(queue)) = Len(queue) - 1
    BY <2>1
  <2>3. Len(queue) \in Nat
    BY <2>1, LenProperties
  <2>4. queue' \in Seq(Text) /\ Len(queue') <= QueueMax
    BY <1>2, <2>2, <2>3, RosterAssumption DEF Dispatch, TypeOK
  <2>5. view' \in [Client -> SUBSET Text]
    BY <1>2, <2>2 DEF Dispatch, TypeOK
  <2> QED
    BY <1>2, <2>4, <2>5 DEF Dispatch, TypeOK, userVars, histories
<1>3. ASSUME NEW t \in Client, Connect(t) PROVE TypeOK'
  BY <1>3 DEF Connect, Goto, TypeOK, Label, userVars, histories
<1>4. ASSUME NEW t \in Client, Reading(t) PROVE TypeOK'
  <2>1. msg_length' \in Length \cup {NULL}
    BY <1>4 DEF Reading, Receive, Chat, Header, Login, Refuse, userVars, TypeOK
  <2>2. login_name' \in [Client -> Name \cup {Empty}]
    BY <1>4 DEF Reading, Receive, Chat, Header, Login, Refuse, TypeOK
  <2>3. crossed' \in BOOLEAN
    BY <1>4, ReadingKeeps DEF TypeOK
  <2> QED
    BY <1>4, <2>1, <2>2, <2>3, ReadingKeeps DEF TypeOK
<1>5. ASSUME NEW t \in Client, SetLogin(t) PROVE TypeOK'
  <2>1. self \in Client /\ login_name[t] \in Text /\ name[self] \in Field /\ msg_length \in Length
    BY <1>5, RosterAssumption DEF SetLogin, Using, TypeOK, NamedOK
  <2>2. StrNCpy(name[self], login_name[t], msg_length) \in Field
    BY <2>1, CopyFacts
  <2>3. name' \in [Client -> Field] /\ name_length' \in [Client -> Length]
    BY <1>5, <2>1, <2>2 DEF SetLogin, TypeOK
  <2>4. Announced(self) \in Text
    BY <2>1, AnnouncedFacts
  <2>5. renamed' \subseteq Client /\ stale' \subseteq Text
    BY <1>5, <2>1, <2>4 DEF SetLogin, TypeOK
  <2>6. /\ logged_in' \in [Client -> BOOLEAN] /\ crossed' \in BOOLEAN
        /\ pc' \in [Client -> Label]
    BY <1>5 DEF SetLogin, Using, Goto, TypeOK, Label
  <2> QED
    BY <1>5, <2>3, <2>5, <2>6 DEF SetLogin, TypeOK
<1>6. ASSUME NEW t \in Client, Add(t) PROVE TypeOK'
  <2>1. self \in Client /\ queue \in Seq(Text) /\ Len(queue) \in Nat
    BY <1>6, LenProperties DEF Add, Using, TypeOK
  <2>2. Announced(self) \in Text
    BY <2>1, AnnouncedFacts
  <2>3. /\ Append(queue, Announced(self)) \in Seq(Text)
        /\ Len(Append(queue, Announced(self))) = Len(queue) + 1
    BY <2>1, <2>2
  <2>4. queue' \in Seq(Text) /\ Len(queue') <= QueueMax
    <3>1. CASE Len(queue) < QueueMax
      <4>1. queue' = Append(queue, Announced(self))
        BY <1>6, <3>1 DEF Add
      <4> QED
        BY <2>1, <2>3, <3>1, <4>1, RosterAssumption
    <3>2. CASE ~ (Len(queue) < QueueMax)
      BY <1>6, <2>1, <3>2 DEF Add, TypeOK
    <3> QED
      BY <3>1, <3>2
  <2>5. /\ dropped' \subseteq Client /\ crossed' \in BOOLEAN
        /\ pc' \in [Client -> Label]
    BY <1>6, <2>1 DEF Add, Using, Goto, TypeOK, Label
  <2> QED
    BY <1>6, <2>4, <2>5 DEF Add, userVars, TypeOK
<1>7. ASSUME NEW t \in Client, Inform(t) PROVE TypeOK'
  <2>1. {Announced(c) : c \in LoggedIn \ {self}} \subseteq Text
    BY AnnouncedFacts DEF LoggedIn, TypeOK
  <2>2. view' \in [Client -> SUBSET Text]
    BY <1>7, <2>1 DEF Inform, TypeOK
  <2>3. /\ login_name' \in [Client -> Name \cup {Empty}] /\ crossed' \in BOOLEAN
        /\ pc' \in [Client -> Label]
    BY <1>7 DEF Inform, Using, Goto, TypeOK, Label
  <2> QED
    BY <1>7, <2>2, <2>3 DEF Inform, userVars, TypeOK
<1>8. ASSUME NEW t \in Client, Leave(t) PROVE TypeOK'
  BY <1>8 DEF Leave, Using, Goto, TypeOK, Label
<1>9. ASSUME NEW t \in Client, Farewell(t) PROVE TypeOK'
  <2>1. self \in Client /\ Announced(self) \in Text
    BY <1>9, AnnouncedFacts DEF Farewell, Using, TypeOK
  <2>2. view' \in [Client -> SUBSET Text]
    BY <1>9 DEF Farewell, TypeOK
  <2>3. stale' \subseteq Text
    BY <1>9, <2>1 DEF Farewell, TypeOK
  <2>4. /\ crossed' \in BOOLEAN
        /\ pc' \in [Client -> Label]
    BY <1>9 DEF Farewell, Using, Goto, TypeOK, Label
  <2> QED
    BY <1>9, <2>2, <2>3, <2>4 DEF Farewell, userVars, TypeOK
<1>10. ASSUME NEW t \in Client, Remove(t) PROVE TypeOK'
  <2>1. Empty \in Field /\ 0 \in Length
    BY EmptyFacts, RosterAssumption DEF Length
  <2> QED
    BY <1>10, <2>1 DEF Remove, Using, Goto, TypeOK, Label
<1> QED
  BY <1>1, <1>2, <1>3, <1>4, <1>5, <1>6, <1>7, <1>8, <1>9, <1>10, NextIs

-----------------------------------------------------------------------------
(* What holds whether or not the threads work on each other's Users.       *)

LEMMA InitInv == Init => RosterInv
<1> SUFFICES ASSUME Init PROVE RosterInv
  OBVIOUS
<1>1. TypeOK
  BY InitType
<1>2. AwayOK /\ CheckedOK /\ UniqueNames
  BY RosterAssumption DEF Init, AwayOK, CheckedOK, UniqueNames, LoggedIn
<1>3. \A c \in Client : Fits(name[c], name_length[c])
  BY EmptyFacts DEF Init
<1>4. NamedOK
  BY <1>3 DEF Init, NamedOK
<1>5. PhaseOK /\ LengthOK /\ DistinctOK /\ MissingOK /\ KnownOK
  BY RosterAssumption DEF Init, PhaseOK, LengthOK, DistinctOK, MissingOK, KnownOK, LoggedIn, Queued
<1> QED
  BY <1>1, <1>2, <1>4, <1>5 DEF RosterInv

LEMMA AwayStep ==
    ASSUME TypeOK, AwayOK, [Next]_vars
    PROVE  AwayOK'
<1> SUFFICES ASSUME NEW u \in Client, pc'[u] = "away"
             PROVE  /\ u \notin users' /\ self' # u
                    /\ ~ logged_in'[u] /\ name_length'[u] = 0 /\ view'[u] = {}
  BY DEF AwayOK
<1> DEFINE Before == /\ u \notin users /\ self # u
                     /\ ~ logged_in[u] /\ name_length[u] = 0 /\ view[u] = {}
           After == Before'
<1>1. pc[u] = "away" => Before
  BY DEF AwayOK
<1>2. CASE UNCHANGED vars
  BY <1>1, <1>2 DEF vars, userVars, histories
<1>3. CASE Dispatch
  BY <1>1, <1>3 DEF Dispatch, TypeOK, LoggedIn, userVars, histories
<1>4. ASSUME NEW t \in Client, Connect(t) PROVE After
  BY <1>1, <1>4 DEF Connect, Goto, TypeOK
<1>5. ASSUME NEW t \in Client, Reading(t) PROVE After
  <2>1. u # t
    BY <1>5, ReadingKeeps
  <2> QED
    BY <1>1, <1>5, <2>1, ReadingKeeps
<1>6. ASSUME NEW t \in Client, SetLogin(t) PROVE After
  BY <1>1, <1>6 DEF SetLogin, Using, Goto, TypeOK
<1>7. ASSUME NEW t \in Client, Add(t) PROVE After
  BY <1>1, <1>7 DEF Add, Goto, TypeOK, userVars
<1>8. ASSUME NEW t \in Client, Inform(t) PROVE After
  BY <1>1, <1>8 DEF Inform, Using, Goto, TypeOK, userVars
<1>9. ASSUME NEW t \in Client, Leave(t) PROVE After
  BY <1>1, <1>9 DEF Leave, Using, Goto, TypeOK
<1>10. ASSUME NEW t \in Client, Farewell(t) PROVE After
  <2>1. Before
    BY <1>1, <1>10 DEF Farewell, Goto, TypeOK
  <2>2. view'[u] = view[u]
    BY <1>10, <2>1 DEF Farewell, LoggedIn
  <2> QED
    BY <1>10, <2>1, <2>2 DEF Farewell, userVars
<1>11. ASSUME NEW t \in Client, Remove(t) PROVE After
  BY <1>1, <1>11 DEF Remove, Using, Goto, TypeOK
<1> QED
  BY <1>2, <1>3, <1>4, <1>5, <1>6, <1>7, <1>8, <1>9, <1>10, <1>11, NextIs

\* A first login leaves nothing but its own name in the field.
LEMMA NamedStep ==
    ASSUME TypeOK, NamedOK, [Next]_vars
    PROVE  NamedOK'
<1>1. CASE UNCHANGED <<name, name_length, logged_in, renamed, pc, login_name>>
  BY <1>1 DEF NamedOK
<1>2. ASSUME NEW t \in Client, Connect(t) PROVE NamedOK'
  BY <1>2 DEF Connect, Goto, TypeOK, NamedOK, histories
<1>3. ASSUME NEW t \in Client, Reading(t) PROVE NamedOK'
  <2>1. \A u \in Client : pc'[u] = "set" => login_name'[u] \in Name
    <3> SUFFICES ASSUME NEW u \in Client, pc'[u] = "set" PROVE login_name'[u] \in Name
      OBVIOUS
    <3>1. CASE u # t
      BY <1>3, <3>1, ReadingKeeps DEF NamedOK
    <3>2. CASE u = t /\ \E nm \in Name : Login(t, nm)
      BY <3>2 DEF Login, TypeOK
    <3>3. CASE u = t /\ ~ \E nm \in Name : Login(t, nm)
      <4>1. \/ pc'[t] = "read" \/ pc'[t] = "loop"
            \/ pc' = pc
        BY <1>3, <3>3 DEF Reading, Receive, Chat, Refuse, Goto, TypeOK
      <4> QED
        BY <1>3, <3>3, <4>1, ReadingKeeps
    <3> QED
      BY <3>1, <3>2, <3>3
  <2> QED
    BY <1>3, <2>1, ReadingKeeps DEF NamedOK
<1>4. ASSUME NEW t \in Client, SetLogin(t) PROVE NamedOK'
  <2>1. self \in Client /\ login_name[t] \in Text /\ name[self] \in Field /\ msg_length \in Length
    BY <1>4, RosterAssumption DEF SetLogin, Using, TypeOK, NamedOK
  <2>2. /\ name' = [name EXCEPT ![self] = StrNCpy(name[self], login_name[t], msg_length)]
        /\ name_length' = [name_length EXCEPT ![self] = msg_length]
    BY <1>4 DEF SetLogin
  <2>3. renamed' = IF name_length[self] # 0 THEN renamed \cup {self} ELSE renamed
    BY <1>4 DEF SetLogin
  <2>4. \A c \in Client \ renamed' : Fits(name'[c], name_length'[c])
    <3> SUFFICES ASSUME NEW c \in Client \ renamed' PROVE Fits(name'[c], name_length'[c])
      OBVIOUS
    <3>1. c \notin renamed /\ Fits(name[c], name_length[c])
      BY <2>3 DEF NamedOK
    <3>2. CASE c = self
      <4>1. name[self] = Empty
        BY <2>1, <2>3, <3>1, <3>2, EmptyFacts
      <4>2. /\ name'[c] = StrNCpy(Empty, login_name[t], msg_length)
            /\ name_length'[c] = msg_length
        BY <2>1, <2>2, <3>2, <4>1 DEF TypeOK
      <4> QED
        BY <2>1, <4>2, CopyFacts
    <3>3. CASE c # self
      BY <2>2, <3>1, <3>3 DEF TypeOK
    <3> QED
      BY <3>2, <3>3
  <2>5. \A u \in Client : pc'[u] = "set" => login_name'[u] \in Name
    BY <1>4 DEF SetLogin, Goto, TypeOK, NamedOK
  <2> QED
    BY <2>4, <2>5 DEF NamedOK
<1>5. ASSUME NEW t \in Client, Add(t) PROVE NamedOK'
  BY <1>5 DEF Add, Goto, TypeOK, NamedOK, userVars
<1>6. ASSUME NEW t \in Client, Inform(t) PROVE NamedOK'
  <2>1. \A u \in Client : pc'[u] = "set" => u # t /\ pc[u] = "set"
    BY <1>6 DEF Inform, Goto, TypeOK
  <2>2. \A u \in Client : u # t => login_name'[u] = login_name[u]
    BY <1>6 DEF Inform, TypeOK
  <2> QED
    BY <1>6, <2>1, <2>2 DEF Inform, NamedOK, userVars
<1>7. ASSUME NEW t \in Client, Leave(t) PROVE NamedOK'
  BY <1>7 DEF Leave, Using, Goto, TypeOK, NamedOK
<1>8. ASSUME NEW t \in Client, Farewell(t) PROVE NamedOK'
  BY <1>8 DEF Farewell, Goto, TypeOK, NamedOK, userVars
<1>9. ASSUME NEW t \in Client, Remove(t) PROVE NamedOK'
  <2>1. self \in Client
    BY <1>9 DEF Remove, Using, TypeOK
  <2>2. \A c \in Client \ renamed' : Fits(name'[c], name_length'[c])
    BY <1>9, <2>1, EmptyFacts DEF Remove, TypeOK, NamedOK
  <2>3. \A u \in Client : pc'[u] = "set" => login_name'[u] \in Name
    BY <1>9 DEF Remove, Goto, TypeOK, NamedOK
  <2> QED
    BY <2>2, <2>3 DEF NamedOK
<1> QED
  BY <1>1, <1>2, <1>3, <1>4, <1>5, <1>6, <1>7, <1>8, <1>9, NextIs
  DEF Dispatch, vars, userVars, histories

\* Between the check of a name and its use nobody takes it, and its length stays,
\* unless a header comes for another thread, or a connection.
LEMMA CheckedStep ==
    ASSUME TypeOK, NamedOK, CheckedOK, [Next]_vars
    PROVE  CheckedOK'
<1> SUFFICES ASSUME NEW u \in Client, pc'[u] = "set",
                    \/ msg_length' # NULL /\ ~ overwritten'
                    \/ ~ crossed' /\ u = self'
             PROVE  /\ Fits(login_name'[u], msg_length')
                    /\ \A c \in LoggedIn' \ {self'} : String(name'[c]) # login_name'[u]
  BY DEF CheckedOK
<1> DEFINE Checked == /\ pc[u] = "set"
                      /\ (msg_length # NULL /\ ~ overwritten) \/ (~ crossed /\ u = self)
           Kept == /\ self' = self /\ msg_length' = msg_length
                   /\ login_name'[u] = login_name[u]
                   /\ \A c \in LoggedIn' \ {self} : c \in LoggedIn /\ name'[c] = name[c]
           Goal == /\ Fits(login_name'[u], msg_length')
                   /\ \A c \in LoggedIn' \ {self'} : String(name'[c]) # login_name'[u]
<1>1. Checked /\ Kept => Goal
  BY DEF CheckedOK
<1>2. CASE UNCHANGED vars
  BY <1>1, <1>2 DEF LoggedIn, vars, userVars, histories
<1>3. CASE Dispatch
  BY <1>1, <1>3 DEF Dispatch, LoggedIn, userVars, histories
<1>4. ASSUME NEW t \in Client, Connect(t) PROVE Goal
  <2>1. u # t
    BY <1>4 DEF Connect, Goto, TypeOK
  <2> QED
    BY <1>4, <2>1 DEF Connect
<1>5. ASSUME NEW t \in Client, Reading(t) PROVE Goal
  <2>1. LoggedIn' = LoggedIn /\ name' = name /\ self' = self
    BY <1>5, ReadingKeeps DEF LoggedIn
  <2>2. CASE u = t
    <3>1. PICK nm \in Name : Login(t, nm)
      <4>1. ASSUME ~ \E nm \in Name : Login(t, nm) PROVE FALSE
        <5>1. \/ pc'[t] = "read" \/ pc'[t] = "loop"
              \/ pc' = pc
          BY <1>5, <4>1 DEF Reading, Receive, Chat, Refuse, Goto, TypeOK
        <5> QED
          BY <1>5, <2>2, <5>1, ReadingKeeps
      <4> QED
        BY <4>1
    <3>2. login_name'[t] = nm /\ msg_length' = msg_length /\ Fits(nm, msg_length)
      BY <3>1 DEF Login, TypeOK, userVars
    <3>3. \A c \in LoggedIn : String(name[c]) # nm
      BY <3>1 DEF Login
    <3> QED
      BY <2>1, <2>2, <3>2, <3>3
  <2>3. CASE u # t
    <3>1. pc[u] = "set" /\ login_name'[u] = login_name[u]
      BY <1>5, <2>3, ReadingKeeps
    <3>2. ASSUME NEW n, Header(t, n) PROVE FALSE
      <4>1. overwritten' /\ crossed' = (crossed \/ self # t)
        BY <3>1, <3>2 DEF Header, Using
      <4> QED
        BY <2>1, <2>3, <4>1
    <3>3. (\E nm \in Name : Login(t, nm)) \/ Refuse(t)
      BY <1>5, <3>2 DEF Reading, Receive, Chat
    <3>4. msg_length' = msg_length /\ overwritten' = overwritten
      BY <3>3 DEF Login, Refuse, userVars
    <3>5. Checked
      BY <1>5, <2>1, <3>1, <3>4, ReadingKeeps
    <3> QED
      BY <1>1, <2>1, <3>1, <3>4, <3>5
  <2> QED
    BY <2>2, <2>3
<1>6. ASSUME NEW t \in Client, SetLogin(t) PROVE Goal
  <2>1. Checked
    BY <1>6 DEF SetLogin, Using, Goto, TypeOK
  <2>2. Kept
    BY <1>6 DEF SetLogin, LoggedIn, TypeOK
  <2> QED
    BY <1>1, <2>1, <2>2
<1>7. ASSUME NEW t \in Client, Add(t) PROVE Goal
  BY <1>1, <1>7 DEF Add, Using, Goto, LoggedIn, TypeOK, userVars
<1>8. ASSUME NEW t \in Client, Inform(t) PROVE Goal
  BY <1>1, <1>8 DEF Inform, Using, Goto, LoggedIn, TypeOK, userVars
<1>9. ASSUME NEW t \in Client, Leave(t) PROVE Goal
  <2>1. Checked
    BY <1>9 DEF Leave, Using, Goto, TypeOK
  <2>2. Kept
    BY <1>9 DEF Leave, LoggedIn, TypeOK
  <2> QED
    BY <1>1, <2>1, <2>2
<1>10. ASSUME NEW t \in Client, Farewell(t) PROVE Goal
  BY <1>1, <1>10 DEF Farewell, Using, Goto, LoggedIn, TypeOK, userVars
<1>11. ASSUME NEW t \in Client, Remove(t) PROVE Goal
  <2>1. Checked
    BY <1>11 DEF Remove, Using, Goto, TypeOK
  <2>2. Kept
    BY <1>11 DEF Remove, LoggedIn, TypeOK
  <2> QED
    BY <1>1, <2>1, <2>2
<1> QED
  BY <1>2, <1>3, <1>4, <1>5, <1>6, <1>7, <1>8, <1>9, <1>10, <1>11, NextIs

\* Where nobody logged in again, a checked name differs from the announced ones.
LEMMA CheckedIsNew ==
    ASSUME TypeOK, NamedOK, CheckedOK, NEW t \in Client, pc[t] = "set",
           (msg_length # NULL /\ ~ overwritten) \/ (~ crossed /\ t = self),
           NEW c \in LoggedIn \ {self}, c \notin renamed
    PROVE  Announced(c) # login_name[t]
<1>1. c \in Client /\ Fits(name[c], name_length[c])
  BY DEF TypeOK, NamedOK, LoggedIn
<1>2. Announced(c) = String(name[c])
  BY <1>1, AnnouncedFacts
<1> QED
  BY <1>2 DEF CheckedOK

\* What login_User makes of the announced names, with the length of the name.
LEMMA SetLoginAnnounces ==
    ASSUME TypeOK, NamedOK, CheckedOK, NEW t \in Client, SetLogin(t),
           ~ overwritten \/ (~ crossed /\ t = self)
    PROVE  /\ self \in Client /\ self' = self
           /\ \A c \in Client : Announced(c)' = IF c = self THEN login_name[t] ELSE Announced(c)
<1>1. /\ self \in Client /\ self' = self /\ name[self] \in Field
      /\ login_name[t] \in Text /\ msg_length \in Length /\ Fits(login_name[t], msg_length)
  BY RosterAssumption DEF SetLogin, Using, TypeOK, NamedOK, CheckedOK
<1>2. Cut(StrNCpy(name[self], login_name[t], msg_length), msg_length) = login_name[t]
  BY <1>1, CopyFacts
<1>3. /\ name' = [name EXCEPT ![self] = StrNCpy(name[self], login_name[t], msg_length)]
      /\ name_length' = [name_length EXCEPT ![self] = msg_length]
  BY DEF SetLogin
<1>4. /\ name'[self] = StrNCpy(name[self], login_name[t], msg_length)
      /\ name_length'[self] = msg_length
  BY <1>1, <1>3 DEF TypeOK
<1>5. \A c \in Client : Announced(c)' = Cut(name'[c], name_length'[c])
  BY DEF Announced
<1>6. \A c \in Client \ {self} : name'[c] = name[c] /\ name_length'[c] = name_length[c]
  BY <1>3 DEF TypeOK
<1> QED
  BY <1>1, <1>2, <1>4, <1>5, <1>6 DEF Announced

LEMMA UniqueStep ==
    ASSUME TypeOK, AwayOK, NamedOK, CheckedOK, UniqueNames, [Next]_vars
    PROVE  UniqueNames'
<1> SUFFICES ASSUME ~ overwritten', NEW c \in LoggedIn', NEW d \in LoggedIn', c # d,
                    Announced(c)' = Announced(d)', {c, d} \cap renamed' = {}
             PROVE  FALSE
  BY DEF UniqueNames
<1> DEFINE Kept == /\ c \in LoggedIn /\ d \in LoggedIn /\ ~ overwritten
                   /\ {c, d} \cap renamed = {}
                   /\ Announced(c)' = Announced(c) /\ Announced(d)' = Announced(d)
<1>1. ~ Kept
  BY DEF UniqueNames
<1>2. CASE UNCHANGED <<users, name, name_length, logged_in, overwritten, renamed>>
  BY <1>1, <1>2 DEF LoggedIn, Announced
<1>3. ASSUME NEW t \in Client, Connect(t) PROVE FALSE
  <2>1. LoggedIn' = LoggedIn
    BY <1>3 DEF Connect, LoggedIn, AwayOK
  <2> QED
    BY <1>1, <1>3, <2>1 DEF Connect, Announced, histories
<1>4. ASSUME NEW t \in Client, Reading(t) PROVE FALSE
  <2>1. LoggedIn' = LoggedIn /\ renamed' = renamed /\ ~ overwritten
    BY <1>4, ReadingKeeps DEF LoggedIn
  <2>2. \A e \in Client : Announced(e)' = Announced(e)
    BY <1>4, ReadingKeeps DEF Announced
  <2>3. LoggedIn \subseteq Client
    BY DEF LoggedIn, TypeOK
  <2> QED
    BY <1>1, <2>1, <2>2, <2>3
<1>5. ASSUME NEW t \in Client, SetLogin(t) PROVE FALSE
  <2>1. ~ overwritten /\ renamed \subseteq renamed' /\ pc[t] = "set" /\ msg_length # NULL
    BY <1>5 DEF SetLogin, Using
  <2>2. \A e \in Client : Announced(e)' = IF e = self THEN login_name[t] ELSE Announced(e)
    BY <1>5, <2>1, SetLoginAnnounces
  <2>3. LoggedIn' \subseteq LoggedIn \cup {self} /\ LoggedIn' \subseteq Client
    BY <1>5 DEF SetLogin, LoggedIn, TypeOK
  <2>4. \A e \in LoggedIn \ {self} : e \notin renamed => Announced(e) # login_name[t]
    BY <2>1, CheckedIsNew
  <2>5. CASE c = self
    BY <2>1, <2>2, <2>3, <2>4, <2>5
  <2>6. CASE d = self
    BY <2>1, <2>2, <2>3, <2>4, <2>6
  <2>7. CASE c # self /\ d # self
    BY <1>1, <2>1, <2>2, <2>3, <2>7
  <2> QED
    BY <2>5, <2>6, <2>7
<1>6. ASSUME NEW t \in Client, Leave(t) PROVE FALSE
  <2>1. c \in LoggedIn /\ d \in LoggedIn
    BY <1>6 DEF Leave, LoggedIn, TypeOK
  <2> QED
    BY <1>1, <1>6, <2>1 DEF Leave, Announced
<1>7. ASSUME NEW t \in Client, Remove(t) PROVE FALSE
  <2>1. LoggedIn' = LoggedIn \ {self} /\ ~ overwritten /\ renamed' = renamed \ {self}
    BY <1>7 DEF Remove, LoggedIn, TypeOK
  <2>2. \A e \in Client \ {self} : Announced(e)' = Announced(e)
    BY <1>7 DEF Remove, Announced, TypeOK
  <2>3. LoggedIn \subseteq Client
    BY DEF LoggedIn, TypeOK
  <2> QED
    BY <1>1, <2>1, <2>2, <2>3
<1> QED
  BY <1>2, <1>3, <1>4, <1>5, <1>6, <1>7, NextIs
  DEF Dispatch, Add, Inform, Farewell, vars, userVars, histories

-----------------------------------------------------------------------------
(* As long as each thread works on its own User.                           *)

\* No step takes crossed back, and a step that uses self then uses its own.
LEMMA OwnOnly ==
    ASSUME TypeOK, [Next]_vars, ~ crossed'
    PROVE  /\ ~ crossed
           /\ \A t \in Client :
                 (\E label \in {"loop", "read", "set", "add", "inform", "farewell", "remove"} :
                     Using(t, label)) => self = t /\ t \in users
<1>1. ~ crossed
  <2>1. CASE crossed' = crossed
    BY <2>1
  <2>2. CASE \E t \in Client : crossed' = (crossed \/ self # t)
    BY <2>2 DEF TypeOK
  <2>3. (\E t \in Client : Reading(t)) => \E t \in Client : crossed' = (crossed \/ self # t)
    BY ReadingKeeps
  <2> QED
    BY <2>1, <2>2, <2>3, NextIs
    DEF Dispatch, Connect, SetLogin, Add, Inform, Leave, Farewell, Remove, Using, vars, histories
<1>2. \A t \in Client : \A label : Using(t, label) => self = t /\ t \in users
  BY DEF Using, TypeOK
<1> QED
  BY <1>1, <1>2

LEMMA UsersAreClients == TypeOK /\ [Next]_vars => users' \subseteq Client
<1> SUFFICES ASSUME TypeOK, [Next]_vars PROVE users' \subseteq Client
  OBVIOUS
<1>1. CASE \E t \in Client : Reading(t)
  BY <1>1, ReadingKeeps DEF TypeOK
<1>2. CASE ~ \E t \in Client : Reading(t)
  BY <1>2, NextIs
  DEF TypeOK, Dispatch, Connect, SetLogin, Add, Inform, Leave, Farewell, Remove, vars, userVars
<1> QED
  BY <1>1, <1>2

\* A thread that reads a header works on its own User.
LEMMA ReadingIsOwn ==
    ASSUME TypeOK, [Next]_vars, ~ crossed', NEW t \in Client, Reading(t)
    PROVE  self = t /\ t \in users /\ ~ crossed
<1>1. self = t /\ ~ crossed
  BY ReadingKeeps DEF TypeOK
<1>2. self \in users
  BY DEF Reading, Receive, Chat, Header, Login, Refuse, Using
<1> QED
  BY <1>1, <1>2

LEMMA PhaseStep ==
    ASSUME TypeOK, AwayOK, PhaseOK, LengthOK, [Next]_vars, ~ crossed'
    PROVE  PhaseOK'
<1>1. CASE UNCHANGED vars
  BY <1>1 DEF PhaseOK, vars, userVars
<1>2. CASE Dispatch
  BY <1>2 DEF Dispatch, PhaseOK, LoggedIn, TypeOK, userVars
<1>3. ASSUME NEW t \in Client, Connect(t) PROVE PhaseOK'
  BY <1>3 DEF Connect, Goto, TypeOK, AwayOK, PhaseOK
<1>4. ASSUME NEW t \in Client, Reading(t) PROVE PhaseOK'
  BY <1>4, ReadingKeeps DEF PhaseOK
<1>5. ASSUME NEW t \in Client, SetLogin(t) PROVE PhaseOK'
  <2>1. self = t /\ t \in users
    BY <1>5, OwnOnly DEF SetLogin
  <2>2. msg_length # 0
    BY <1>5, <2>1 DEF SetLogin, Using, LengthOK
  <2> QED
    BY <1>5, <2>1, <2>2 DEF SetLogin, Using, Goto, TypeOK, PhaseOK
<1>6. ASSUME NEW t \in Client, Add(t) PROVE PhaseOK'
  <2>1. self = t /\ t \in users
    BY <1>6, OwnOnly DEF Add
  <2> QED
    BY <1>6, <2>1 DEF Add, Using, Goto, TypeOK, PhaseOK, userVars
<1>7. ASSUME NEW t \in Client, Inform(t) PROVE PhaseOK'
  <2>1. self = t /\ t \in users
    BY <1>7, OwnOnly DEF Inform
  <2>2. logged_in[t] /\ \A u \in Client \ {t} : view'[u] = view[u]
    BY <1>7, <2>1 DEF Inform, Using, TypeOK, PhaseOK
  <2> QED
    BY <1>7, <2>1, <2>2 DEF Inform, Using, Goto, TypeOK, PhaseOK, userVars
<1>8. ASSUME NEW t \in Client, Leave(t) PROVE PhaseOK'
  <2>1. self = t /\ t \in users
    BY <1>8, OwnOnly DEF Leave
  <2> QED
    BY <1>8, <2>1 DEF Leave, Using, Goto, TypeOK, PhaseOK
<1>9. ASSUME NEW t \in Client, Farewell(t) PROVE PhaseOK'
  <2>1. self = t /\ t \in users
    BY <1>9, OwnOnly DEF Farewell
  <2>2. \A u \in Client : ~ logged_in[u] => view'[u] = view[u]
    BY <1>9 DEF Farewell, LoggedIn
  <2> QED
    BY <1>9, <2>1, <2>2 DEF Farewell, Using, Goto, TypeOK, PhaseOK, userVars
<1>10. ASSUME NEW t \in Client, Remove(t) PROVE PhaseOK'
  <2>1. self = t /\ t \in users
    BY <1>10, OwnOnly DEF Remove
  <2> QED
    BY <1>10, <2>1 DEF Remove, Using, Goto, TypeOK, PhaseOK
<1> QED
  BY <1>1, <1>2, <1>3, <1>4, <1>5, <1>6, <1>7, <1>8, <1>9, <1>10, NextIs

\* Nobody else's header comes between the header of a login and its use.
LEMMA LengthStep ==
    ASSUME TypeOK, AwayOK, LengthOK, [Next]_vars, ~ crossed'
    PROVE  LengthOK'
<1> SUFFICES ASSUME NEW u \in Client, pc'[u] \in {"read", "set"}, u = self'
             PROVE  msg_length' \in Length \ {0}
  BY DEF LengthOK
<1> DEFINE Kept == pc[u] \in {"read", "set"} /\ self' = self /\ msg_length' = msg_length
           Goal == msg_length' \in Length \ {0}
<1>1. Kept => Goal
  BY DEF LengthOK
<1>2. CASE UNCHANGED <<userVars, pc>>
  BY <1>1, <1>2 DEF userVars
<1>3. ASSUME NEW t \in Client, Connect(t) PROVE FALSE
  BY <1>3 DEF Connect, Goto, TypeOK
<1>4. ASSUME NEW t \in Client, Reading(t) PROVE Goal
  <2>1. u = t /\ self' = self /\ pc[t] \in {"loop", "read"}
    BY <1>4, ReadingIsOwn, ReadingKeeps
  <2>2. ASSUME NEW n \in Length, Receive(t, n) PROVE Goal
    BY <2>2 DEF Receive, Header
  <2>3. ASSUME NEW n, Chat(t, n) PROVE FALSE
    BY <2>1, <2>3 DEF Chat, Header, Using
  <2>4. CASE (\E nm \in Name : Login(t, nm)) \/ Refuse(t)
    BY <1>1, <2>1, <2>4 DEF Login, Refuse, Using, userVars
  <2> QED
    BY <1>4, <2>2, <2>3, <2>4 DEF Reading
<1>5. ASSUME NEW t \in Client,
             SetLogin(t) \/ Add(t) \/ Inform(t) \/ Leave(t) \/ Farewell(t) \/ Remove(t)
      PROVE  Goal
  <2>1. self' = self /\ msg_length' = msg_length
    BY <1>5 DEF SetLogin, Add, Inform, Leave, Farewell, Remove, userVars
  <2>2. pc[u] \in {"read", "set"}
    BY <1>5 DEF SetLogin, Add, Inform, Leave, Farewell, Remove, Goto, TypeOK
  <2> QED
    BY <1>1, <2>1, <2>2
<1> QED
  BY <1>2, <1>3, <1>4, <1>5, NextIs DEF Dispatch, vars

\* The name a thread logs its User in with is no other user's.
LEMMA DistinctStep ==
    ASSUME TypeOK, AwayOK, NamedOK, CheckedOK, PhaseOK, DistinctOK, [Next]_vars, ~ crossed'
    PROVE  DistinctOK'
<1> SUFFICES ASSUME self' \in Client, name_length'[self'] # 0,
                    NEW d \in LoggedIn', d # self', d \notin renamed'
             PROVE  \A s : s = self' => Announced(d)' # Announced(s)'
  BY DEF DistinctOK
<1> DEFINE Goal == \A s : s = self' => Announced(d)' # Announced(s)'
           Kept == /\ self' = self /\ name' = name /\ name_length' = name_length
                   /\ d \in LoggedIn /\ d \notin renamed
<1>1. Kept => Goal
  BY DEF DistinctOK, Announced
<1>2. CASE UNCHANGED <<userVars, renamed>>
  BY <1>1, <1>2 DEF userVars, LoggedIn
<1>3. ASSUME NEW t \in Client, Reading(t) PROVE Goal
  BY <1>1, <1>3, ReadingKeeps DEF LoggedIn
<1>4. ASSUME NEW t \in Client, Connect(t) PROVE Goal
  BY <1>4 DEF Connect, AwayOK
<1>5. ASSUME NEW t \in Client, SetLogin(t) PROVE Goal
  <2>1. self = t /\ self' = self /\ pc[t] = "set" /\ ~ crossed
    BY <1>5, OwnOnly DEF SetLogin, Using
  <2>2. \A e \in Client : Announced(e)' = IF e = self THEN login_name[t] ELSE Announced(e)
    BY <1>5, <2>1, SetLoginAnnounces
  <2>3. d \in LoggedIn \ {self} /\ d \notin renamed /\ d \in Client
    BY <1>5, <2>1 DEF SetLogin, LoggedIn, TypeOK
  <2>4. Announced(d) # login_name[t]
    BY <2>1, <2>3, CheckedIsNew
  <2> QED
    BY <2>1, <2>2, <2>3, <2>4
<1>6. ASSUME NEW t \in Client, Leave(t) PROVE Goal
  <2>1. d \in LoggedIn
    BY <1>6 DEF Leave, LoggedIn, TypeOK
  <2> QED
    BY <1>1, <1>6, <2>1 DEF Leave
<1>7. ASSUME NEW t \in Client, Remove(t) PROVE Goal
  BY <1>7 DEF Remove, TypeOK
<1> QED
  BY <1>2, <1>3, <1>4, <1>5, <1>6, <1>7, NextIs
  DEF Dispatch, Add, Inform, Farewell, vars, userVars, histories

-----------------------------------------------------------------------------
(* Nobody is missing.                                                      *)

\* What the queue holds after a name is added and after the oldest is taken off.
LEMMA QueueFacts ==
    ASSUME TypeOK
    PROVE  /\ \A s \in Text : queue' = Append(queue, s) => \A r : Queued(r)' <=> Queued(r) \/ r = s
           /\ queue # <<>> /\ queue' = Tail(queue) =>
                 /\ Queued(Head(queue))
                 /\ \A r : Queued(r) => r = Head(queue) \/ Queued(r)'
                 /\ \A r : Queued(r)' => Queued(r)
<1>1. queue \in Seq(Text) /\ Len(queue) \in Nat /\ DOMAIN queue = 1..Len(queue)
  BY LenProperties DEF TypeOK
<1>2. ASSUME NEW s \in Text, queue' = Append(queue, s)
      PROVE  \A r : Queued(r)' <=> Queued(r) \/ r = s
  <2>1. /\ DOMAIN queue' = 1..(Len(queue) + 1) /\ queue'[Len(queue) + 1] = s
        /\ \A i \in 1..Len(queue) : queue'[i] = queue[i]
    BY <1>1, <1>2
  <2>2. 1..(Len(queue) + 1) = 1..Len(queue) \cup {Len(queue) + 1}
    BY <1>1
  <2> QED
    BY <1>1, <2>1, <2>2 DEF Queued
<1>3. ASSUME queue # <<>>, queue' = Tail(queue)
      PROVE  /\ Queued(Head(queue))
             /\ \A r : Queued(r) => r = Head(queue) \/ Queued(r)'
             /\ \A r : Queued(r)' => Queued(r)
  <2>1. Len(queue) > 0 /\ Head(queue) = queue[1]
    BY <1>1, <1>3, EmptySeq
  <2>2. /\ DOMAIN queue' = 1..(Len(queue) - 1)
        /\ \A i \in 1..(Len(queue) - 1) : queue'[i] = queue[i + 1]
    BY <1>1, <1>3
  <2>3. Queued(Head(queue))
    BY <1>1, <2>1 DEF Queued
  <2>4. ASSUME NEW i \in DOMAIN queue, i # 1
        PROVE  i - 1 \in DOMAIN queue' /\ queue'[i - 1] = queue[i]
    BY <1>1, <2>2, <2>4
  <2>5. ASSUME NEW i \in DOMAIN queue'
        PROVE  i + 1 \in DOMAIN queue /\ queue'[i] = queue[i + 1]
    BY <1>1, <2>2, <2>5
  <2> QED
    BY <2>1, <2>3, <2>4, <2>5 DEF Queued
<1> QED
  BY <1>2, <1>3

\* A user is added to every list there is, and told of every other one; the
\* UserRemoved of one takes no other off a list.
LEMMA MissingStep ==
    ASSUME TypeOK, AwayOK, NamedOK, CheckedOK, PhaseOK, DistinctOK, MissingOK, [Next]_vars,
           ~ crossed'
    PROVE  MissingOK'
<1> SUFFICES ASSUME NEW c \in LoggedIn', NEW d \in LoggedIn', c # d, d \notin dropped' \cup renamed'
             PROVE  ToldOf(c, d)'
  BY DEF MissingOK
<1> DEFINE Old == c \in LoggedIn /\ d \in LoggedIn /\ d \notin dropped \cup renamed
           Goal == ToldOf(c, d)'
<1>1. Old => ToldOf(c, d)
  BY DEF MissingOK
<1>2. c \in Client /\ d \in Client
  BY UsersAreClients DEF LoggedIn
<1>3. CASE UNCHANGED vars
  BY <1>1, <1>3 DEF vars, userVars, histories, LoggedIn, ToldOf, Queued, Announced
<1>4. CASE Dispatch
  <2>1. Old /\ Announced(d)' = Announced(d) /\ view'[c] = view[c] \cup {Head(queue)} /\ pc' = pc
    BY <1>4 DEF Dispatch, LoggedIn, userVars, histories, Announced, TypeOK
  <2>2. Queued(Announced(d)) => Announced(d) = Head(queue) \/ Queued(Announced(d))'
    BY <1>4, <2>1, QueueFacts DEF Dispatch
  <2> QED
    BY <1>1, <2>1, <2>2 DEF ToldOf
<1>5. ASSUME NEW t \in Client, Connect(t) PROVE Goal
  <2>1. Old /\ c # t /\ d # t
    BY <1>5 DEF Connect, LoggedIn, AwayOK, histories
  <2> QED
    BY <1>1, <1>2, <1>5, <2>1 DEF Connect, Goto, TypeOK, ToldOf, Queued, Announced
<1>6. ASSUME NEW t \in Client, Reading(t) PROVE Goal
  <2>1. Old /\ pc[t] \in {"loop", "read"} /\ \A u \in Client \ {t} : pc'[u] = pc[u]
    BY <1>6, ReadingKeeps DEF LoggedIn
  <2>2. Announced(d)' = Announced(d) /\ view' = view /\ queue' = queue
    BY <1>6, ReadingKeeps DEF Announced
  <2> QED
    BY <1>1, <1>2, <2>1, <2>2 DEF ToldOf, Queued
<1>7. ASSUME NEW t \in Client, SetLogin(t) PROVE Goal
  <2>1. self = t /\ pc'[t] = "add"
    BY <1>7, OwnOnly DEF SetLogin, Goto, TypeOK
  <2>2. \A e \in Client : Announced(e)' = IF e = self THEN login_name[t] ELSE Announced(e)
    BY <1>7, <2>1, OwnOnly, SetLoginAnnounces
  <2>3. CASE c = t \/ d = t
    BY <2>1, <2>3 DEF ToldOf
  <2>4. CASE c # t /\ d # t
    <3>1. Old /\ Announced(d)' = Announced(d) /\ pc'[c] = pc[c] /\ pc'[d] = pc[d]
      BY <1>2, <1>7, <2>1, <2>2, <2>4 DEF SetLogin, Goto, LoggedIn, TypeOK
    <3> QED
      BY <1>1, <1>7, <3>1 DEF SetLogin, ToldOf, Queued
  <2> QED
    BY <2>3, <2>4
<1>8. ASSUME NEW t \in Client, Add(t) PROVE Goal
  <2>1. self = t /\ pc'[t] = "inform" /\ \A u \in Client \ {t} : pc'[u] = pc[u]
    BY <1>8, OwnOnly DEF Add, Goto, TypeOK
  <2>2. Announced(d)' = Announced(d) /\ Old /\ view' = view
    BY <1>2, <1>8 DEF Add, userVars, Announced, LoggedIn
  <2>3. Announced(t) \in Text
    BY AnnouncedFacts
  <2>4. queue' = queue \/ queue' = Append(queue, Announced(t))
    BY <1>8, <2>1 DEF Add
  <2>5. \A r : Queued(r) => Queued(r)'
    BY <2>3, <2>4, QueueFacts DEF Queued
  <2>6. CASE c = t
    BY <2>1, <2>6 DEF ToldOf
  <2>7. CASE d = t
    <3>1. queue' = Append(queue, Announced(t))
      BY <1>8, <2>1, <2>7 DEF Add
    <3>2. \A r : r = Announced(t) => Queued(r)'
      BY <2>3, <3>1, QueueFacts
    <3> QED
      BY <2>2, <2>7, <3>2 DEF ToldOf
  <2>8. CASE c # t /\ d # t
    BY <1>1, <1>2, <2>1, <2>2, <2>5, <2>8 DEF ToldOf
  <2> QED
    BY <2>6, <2>7, <2>8
<1>9. ASSUME NEW t \in Client, Inform(t) PROVE Goal
  <2>1. self = t /\ pc[t] = "inform" /\ \A u \in Client \ {t} : pc'[u] = pc[u]
    BY <1>9, OwnOnly DEF Inform, Using, Goto, TypeOK
  <2>2. Announced(d)' = Announced(d) /\ Old
    BY <1>2, <1>9 DEF Inform, userVars, Announced, LoggedIn
  <2>3. view' = [view EXCEPT ![t] = @ \cup {Announced(e) : e \in LoggedIn \ {t}}]
    BY <1>9, <2>1 DEF Inform
  <2>4. CASE c = t
    BY <1>2, <2>2, <2>3, <2>4 DEF ToldOf, TypeOK
  <2>5. CASE c # t
    BY <1>1, <1>2, <1>9, <2>1, <2>2, <2>3, <2>5 DEF ToldOf, Inform, Queued, TypeOK
  <2> QED
    BY <2>4, <2>5
<1>10. ASSUME NEW t \in Client, Leave(t) PROVE Goal
  <2>1. self = t
    BY <1>10, OwnOnly DEF Leave
  <2>2. c # t /\ d # t /\ Old
    BY <1>10, <2>1 DEF Leave, LoggedIn, TypeOK
  <2> QED
    BY <1>1, <1>2, <1>10, <2>2 DEF Leave, Goto, ToldOf, Queued, Announced, TypeOK
<1>11. ASSUME NEW t \in Client, Farewell(t) PROVE Goal
  <2>1. self = t /\ ~ logged_in[t] /\ logged_in' = logged_in
    BY <1>11, OwnOnly DEF Farewell, Using, PhaseOK, userVars
  <2>2. c # t /\ d # t /\ Old /\ Announced(d)' = Announced(d)
    BY <1>2, <1>11, <2>1 DEF Farewell, LoggedIn, userVars, Announced
  <2>3. name_length[t] # 0 => Announced(d) # Announced(t)
    BY <2>1, <2>2 DEF DistinctOK
  <2>4. Announced(d) \in view[c] => Announced(d) \in view'[c]
    BY <1>2, <1>11, <2>1, <2>3 DEF Farewell
  <2>5. pc'[c] = pc[c] /\ pc'[d] = pc[d] /\ queue' = queue
    BY <1>2, <1>11, <2>2 DEF Farewell, Goto, TypeOK
  <2> QED
    BY <1>1, <2>2, <2>4, <2>5 DEF ToldOf, Queued
<1>12. ASSUME NEW t \in Client, Remove(t) PROVE Goal
  <2>1. self = t
    BY <1>12, OwnOnly DEF Remove
  <2>2. c # t /\ d # t /\ Old
    BY <1>12, <2>1 DEF Remove, LoggedIn, TypeOK
  <2>3. Announced(d)' = Announced(d) /\ view'[c] = view[c]
    BY <1>2, <1>12, <2>1, <2>2 DEF Remove, Announced, TypeOK
  <2> QED
    BY <1>1, <1>2, <1>12, <2>2, <2>3 DEF Remove, Goto, ToldOf, Queued, TypeOK
<1> QED
  BY <1>3, <1>4, <1>5, <1>6, <1>7, <1>8, <1>9, <1>10, <1>11, <1>12, NextIs

-----------------------------------------------------------------------------
(* Nobody is listed too many.                                              *)

\* Whoever can be known stays so, but for the one whose UserRemoved is sent.
LEMMA KnownStep ==
    ASSUME TypeOK, AwayOK, NamedOK, CheckedOK, PhaseOK, KnownOK, [Next]_vars, ~ crossed'
    PROVE  KnownOK'
<1> DEFINE Keeps == Known \subseteq Known'
           Views == \A c \in LoggedIn' : view'[c] = {} \/ (c \in LoggedIn /\ view'[c] = view[c])
           Queue == \A s : Queued(s)' => Queued(s)
           Goal == KnownOK'
<1>1. Keeps /\ Views /\ Queue => Goal
  BY DEF KnownOK, Queued
<1>2. \A s : s \in Known <=>
          \/ s \in stale
          \/ \E d \in users : /\ name_length[d] # 0 /\ (logged_in[d] \/ pc[d] = "farewell")
                              /\ s = Announced(d)
  BY DEF Known
<1>3. \A s : s \in Known' <=>
          \/ s \in stale'
          \/ \E d \in users' : /\ name_length'[d] # 0 /\ (logged_in'[d] \/ pc'[d] = "farewell")
                               /\ s = Announced(d)'
  BY DEF Known
<1>4. LoggedIn \subseteq Client /\ users \subseteq Client
  BY DEF LoggedIn, TypeOK
<1>5. CASE UNCHANGED vars
  <2>1. Known' = Known /\ LoggedIn' = LoggedIn
    BY <1>5 DEF vars, userVars, histories, Known, LoggedIn, Announced
  <2>2. Queue /\ Views
    BY <1>5, <2>1 DEF vars, Queued
  <2> QED
    BY <1>1, <2>1, <2>2
<1>6. CASE Dispatch
  <2>1. Known' = Known /\ LoggedIn' = LoggedIn
    BY <1>6 DEF Dispatch, userVars, histories, Known, LoggedIn, Announced
  <2>2. Queue /\ Head(queue) \in Known
    BY <1>6, QueueFacts DEF Dispatch, KnownOK, Queued
  <2>3. \A c \in LoggedIn : view'[c] = view[c] \cup {Head(queue)}
    BY <1>4, <1>6 DEF Dispatch
  <2> QED
    BY <2>1, <2>2, <2>3 DEF KnownOK, Queued
<1>7. ASSUME NEW t \in Client, Connect(t) PROVE Goal
  <2>1. LoggedIn' = LoggedIn /\ view' = view /\ queue' = queue
    BY <1>7 DEF Connect, LoggedIn, AwayOK
  <2>2. \A d \in users : pc'[d] = pc[d]
    BY <1>4, <1>7 DEF Connect, Goto, AwayOK, TypeOK
  <2>3. Keeps
    BY <1>2, <1>3, <1>7, <2>2 DEF Connect, Announced, histories
  <2> QED
    BY <1>1, <2>1, <2>3 DEF Queued
<1>8. ASSUME NEW t \in Client, Reading(t) PROVE Goal
  <2>1. LoggedIn' = LoggedIn /\ view' = view /\ queue' = queue
    BY <1>8, ReadingKeeps DEF LoggedIn
  <2>2. pc[t] \in {"loop", "read"} /\ \A d \in Client \ {t} : pc'[d] = pc[d]
    BY <1>8, ReadingKeeps
  <2>3. \A d \in Client : Announced(d)' = Announced(d)
    BY <1>8, ReadingKeeps DEF Announced
  <2>4. Keeps
    BY <1>2, <1>3, <1>4, <1>8, <2>2, <2>3, ReadingKeeps
  <2> QED
    BY <1>1, <2>1, <2>4 DEF Queued
<1>9. ASSUME NEW t \in Client, SetLogin(t) PROVE Goal
  <2>1. self = t /\ t \in users /\ pc[t] = "set" /\ users' = users
    BY <1>9, OwnOnly DEF SetLogin, Using
  <2>2. \A e \in Client : Announced(e)' = IF e = self THEN login_name[t] ELSE Announced(e)
    BY <1>9, <2>1, OwnOnly, SetLoginAnnounces
  <2>3. \A d \in Client \ {t} : /\ logged_in'[d] = logged_in[d] /\ pc'[d] = pc[d]
                                /\ name_length'[d] = name_length[d]
    BY <1>9, <2>1 DEF SetLogin, Goto, TypeOK
  <2>4. stale \subseteq stale' /\ (name_length[t] # 0 => Announced(t) \in stale')
    BY <1>9, <2>1 DEF SetLogin
  <2>5. Keeps
    <3> SUFFICES ASSUME NEW s \in Known PROVE s \in Known'
      OBVIOUS
    <3>1. CASE s \in stale
      BY <1>3, <2>4, <3>1
    <3>2. ASSUME NEW d \in users, name_length[d] # 0, logged_in[d] \/ pc[d] = "farewell",
                 s = Announced(d)
          PROVE  s \in Known'
      <4>1. CASE d = t
        BY <1>3, <2>4, <3>2, <4>1
      <4>2. CASE d # t
        BY <1>3, <1>4, <2>1, <2>2, <2>3, <3>2, <4>2
      <4> QED
        BY <4>1, <4>2
    <3> QED
      BY <1>2, <3>1, <3>2
  <2>6. view' = view /\ queue' = queue
    BY <1>9 DEF SetLogin
  <2>7. Views
    <3> SUFFICES ASSUME NEW c \in LoggedIn' PROVE view[c] = {} \/ c \in LoggedIn
      BY <2>6
    <3>1. c \in Client /\ c \in users
      BY <1>4, <2>1 DEF LoggedIn
    <3>2. CASE c = t
      BY <2>1, <3>1, <3>2 DEF PhaseOK, LoggedIn
    <3>3. CASE c # t
      BY <2>3, <3>1, <3>3 DEF LoggedIn
    <3> QED
      BY <3>2, <3>3
  <2> QED
    BY <1>1, <2>5, <2>6, <2>7 DEF Queued
<1>10. ASSUME NEW t \in Client, Add(t) PROVE Goal
  <2>1. self = t /\ t \in users /\ pc[t] = "add" /\ logged_in[t] /\ name_length[t] # 0
    BY <1>10, OwnOnly DEF Add, Using, PhaseOK
  <2>2. LoggedIn' = LoggedIn /\ view' = view
    BY <1>10 DEF Add, LoggedIn, userVars
  <2>3. \A d \in Client \ {t} : pc'[d] = pc[d]
    BY <1>10 DEF Add, Goto, TypeOK
  <2>4. Keeps
    BY <1>2, <1>3, <1>4, <1>10, <2>1, <2>3 DEF Add, userVars, Announced
  <2>5. Announced(t) \in Text /\ Announced(t) \in Known
    BY <1>2, <2>1, AnnouncedFacts
  <2>6. queue' = queue \/ queue' = Append(queue, Announced(t))
    BY <1>10, <2>1 DEF Add
  <2>7. \A s : Queued(s)' => Queued(s) \/ s = Announced(t)
    BY <2>5, <2>6, QueueFacts DEF Queued
  <2> QED
    BY <2>2, <2>4, <2>5, <2>7 DEF KnownOK, Queued
<1>11. ASSUME NEW t \in Client, Inform(t) PROVE Goal
  <2>1. self = t /\ t \in users /\ pc[t] = "inform" /\ logged_in[t]
    BY <1>11, OwnOnly DEF Inform, Using, PhaseOK
  <2>2. LoggedIn' = LoggedIn /\ queue' = queue
    BY <1>11 DEF Inform, LoggedIn, userVars
  <2>3. \A d \in Client \ {t} : pc'[d] = pc[d]
    BY <1>11 DEF Inform, Goto, TypeOK
  <2>4. Keeps
    BY <1>2, <1>3, <1>4, <1>11, <2>1, <2>3 DEF Inform, userVars, Announced
  <2>5. {Announced(e) : e \in LoggedIn \ {t}} \subseteq Known
    BY <1>2, <1>4 DEF LoggedIn, PhaseOK
  <2>6. \A c \in LoggedIn : view'[c] \subseteq view[c] \cup {Announced(e) : e \in LoggedIn \ {t}}
    BY <1>4, <1>11, <2>1 DEF Inform, TypeOK
  <2> QED
    BY <2>2, <2>4, <2>5, <2>6 DEF KnownOK, Queued
<1>12. ASSUME NEW t \in Client, Leave(t) PROVE Goal
  <2>1. self = t /\ t \in users
    BY <1>12, OwnOnly DEF Leave
  <2>2. LoggedIn' \subseteq LoggedIn /\ queue' = queue /\ view' = view
    BY <1>4, <1>12 DEF Leave, LoggedIn, TypeOK
  <2>3. /\ pc'[t] = "farewell" /\ pc[t] = "loop"
        /\ \A d \in Client \ {t} : pc'[d] = pc[d] /\ logged_in'[d] = logged_in[d]
    BY <1>12, <2>1 DEF Leave, Using, Goto, TypeOK
  <2>4. Keeps
    BY <1>2, <1>3, <1>4, <1>12, <2>1, <2>3 DEF Leave, Announced
  <2> QED
    BY <1>1, <2>2, <2>4 DEF Queued
<1>13. ASSUME NEW t \in Client, Farewell(t) PROVE Goal
  <2>1. self = t /\ t \in users /\ ~ logged_in[t]
    BY <1>13, OwnOnly DEF Farewell, Using, PhaseOK
  <2>2. /\ LoggedIn' = LoggedIn /\ queue' = queue /\ users' = users /\ t \notin LoggedIn
        /\ \A d \in Client : Announced(d)' = Announced(d)
    BY <1>13, <2>1 DEF Farewell, LoggedIn, userVars, Announced
  <2>3. \A d \in Client \ {t} : pc'[d] = pc[d]
    BY <1>13 DEF Farewell, Goto, TypeOK
  <2>4. stale \subseteq stale'
    BY <1>13 DEF Farewell
  <2>5. \A s \in Known : s \in Known' \/ (name_length[t] # 0 /\ s = Announced(t))
    BY <1>2, <1>3, <1>4, <1>13, <2>2, <2>3, <2>4 DEF Farewell, userVars
  <2>6. Queued(Announced(t)) => Announced(t) \in Known'
    BY <1>3, <1>13, <2>1 DEF Farewell, Queued
  <2>7. \A c \in LoggedIn : view'[c] \subseteq Known'
    <3> SUFFICES ASSUME NEW c \in LoggedIn PROVE view'[c] \subseteq Known'
      OBVIOUS
    <3>1. view'[c] = IF name_length[t] = 0 THEN view[c] ELSE view[c] \ {Announced(t)}
      BY <1>4, <1>13, <2>1, <2>2 DEF Farewell
    <3> QED
      BY <2>5, <3>1 DEF KnownOK, Queued
  <2>8. \A s : Queued(s) => s \in Known'
    BY <2>5, <2>6 DEF KnownOK, Queued
  <2> QED
    BY <2>2, <2>7, <2>8 DEF KnownOK, Queued
<1>14. ASSUME NEW t \in Client, Remove(t) PROVE Goal
  <2>1. self = t /\ t \in users /\ ~ logged_in[t] /\ pc[t] = "remove"
    BY <1>14, OwnOnly DEF Remove, Using, PhaseOK
  <2>2. /\ LoggedIn' \subseteq LoggedIn \ {t} /\ queue' = queue
        /\ \A c \in Client \ {t} : view'[c] = view[c] /\ Announced(c)' = Announced(c)
    BY <1>14, <2>1 DEF Remove, LoggedIn, Announced, TypeOK
  <2>3. \A d \in Client \ {t} : pc'[d] = pc[d]
    BY <1>14 DEF Remove, Goto, TypeOK
  <2>4. Keeps
    BY <1>2, <1>3, <1>4, <1>14, <2>1, <2>2, <2>3 DEF Remove, TypeOK
  <2> QED
    BY <1>1, <1>4, <2>2, <2>4 DEF Queued
<1> QED
  BY <1>5, <1>6, <1>7, <1>8, <1>9, <1>10, <1>11, <1>12, <1>13, <1>14, NextIs

-----------------------------------------------------------------------------
(* The theorems.                                                           *)

LEMMA RosterStep == RosterInv /\ [Next]_vars => RosterInv'
<1> SUFFICES ASSUME RosterInv, [Next]_vars PROVE RosterInv'
  OBVIOUS
<1>1. TypeOK /\ AwayOK /\ NamedOK /\ CheckedOK /\ UniqueNames
  BY DEF RosterInv
<1>2. TypeOK' /\ AwayOK' /\ NamedOK' /\ CheckedOK' /\ UniqueNames'
  BY <1>1, TypeStep, AwayStep, NamedStep, CheckedStep, UniqueStep
<1>3. ASSUME ~ crossed'
      PROVE  PhaseOK' /\ LengthOK' /\ DistinctOK' /\ MissingOK' /\ KnownOK'
  <2>1. PhaseOK /\ LengthOK /\ DistinctOK /\ MissingOK /\ KnownOK
    BY <1>1, <1>3, OwnOnly DEF RosterInv
  <2> QED
    BY <1>1, <1>3, <2>1, PhaseStep, LengthStep, DistinctStep, MissingStep, KnownStep
<1> QED
  BY <1>2, <1>3 DEF RosterInv

LEMMA Invariant == Spec => []RosterInv
<1>1. Init => RosterInv
  BY InitInv
<1>2. RosterInv /\ [Next]_vars => RosterInv'
  BY RosterStep
<1> QED
  BY <1>1, <1>2, PTL DEF Spec

\* Type correctness: whatever lengths the headers have and whoever reads them, a
\* name_length is one of a name; the queue never holds more than mq_maxmsg.
THEOREM RosterTypeCorrect == Spec => []TypeOK
<1>1. RosterInv => TypeOK
  BY DEF RosterInv
<1> QED
  BY <1>1, Invariant, PTL

\* "Name already taken": for any number of clients and headers of any lengths, two
\* users have one announced name only if a header came between is_name_free and
\* login_User, or one of them logged in a second time.
THEOREM NamesAreUnique == Spec => []UniqueNames
<1>1. RosterInv => UniqueNames
  BY DEF RosterInv
<1> QED
  BY <1>1, Invariant, PTL

\* Once everything has been sent, every user that is there is on the list of every
\* other one and nobody else is, with the exceptions ViewsAgree names.
THEOREM ViewsAgreeInTheEnd == Spec => []ViewsAgree
<1>1. RosterInv => ViewsAgree
  <2> SUFFICES ASSUME RosterInv, Settled, ~ crossed PROVE NobodyMissing /\ NobodyTooMany
    BY DEF ViewsAgree
  <2>1. MissingOK /\ KnownOK /\ LoggedIn \subseteq Client
    BY DEF RosterInv, LoggedIn, TypeOK
  <2>2. \A s : ~ Queued(s)
    BY DEF Settled, Queued
  <2>3. \A t \in Client : pc[t] \in {"away", "loop", "read", "gone"}
    BY DEF Settled
  <2>4. NobodyMissing
    BY <2>1, <2>2, <2>3 DEF NobodyMissing, MissingOK, ToldOf
  <2>5. Known \subseteq {Announced(d) : d \in LoggedIn} \cup stale
    <3>1. users \subseteq Client
      BY DEF RosterInv, TypeOK
    <3> QED
      BY <2>3, <3>1 DEF Known, LoggedIn
  <2>6. NobodyTooMany
    BY <2>1, <2>5 DEF NobodyTooMany, KnownOK
  <2> QED
    BY <2>4, <2>6
<1> QED
  BY <1>1, Invariant, PTL
=============================================================================
