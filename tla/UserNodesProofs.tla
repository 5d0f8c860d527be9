---------------------------- MODULE UserNodesProofs ----------------------------
(***************************************************************************)
(* Lemmas about the operations of UserNodes: what they keep of the types   *)
(* and of the list.  UserListProofs and ClientThreadProofs cite them.      *)
(***************************************************************************)
EXTENDS UserNodes, TLAPS

\* The fields of a User that the list is made of.
ListTypeOK ==
    /\ alloc \subseteq Node
    /\ next \in [Node -> Pointer] /\ prev \in [Node -> Pointer]
    /\ userFront \in Pointer /\ userBack \in Pointer
    /\ birth \in [Node -> Nat] /\ clock \in Nat

-----------------------------------------------------------------------------
(* The list operations keep the list whole.                                *)

\* create_User's insertion: appending a cell malloc returned keeps the list whole.
LEMMA AppendKeepsList ==
    ASSUME ListTypeOK, ListOK, NEW n, NEW s, AppendUser(n, s)
    PROVE  ListOK'
<1> USE NodeAssumption DEF ListTypeOK, Pointer
<1>1. /\ n \in Node /\ n \notin alloc /\ n # NULL
      /\ alloc' = alloc \cup {n} /\ userBack' = n /\ clock' = clock + 1
      /\ birth' \in [Node -> Nat]
      /\ birth'[n] = clock + 1
      /\ \A m \in alloc : birth'[m] = birth[m] /\ birth[m] < birth'[n]
      /\ \A m \in alloc : birth'[m] \in 1..clock
  BY DEF AppendUser, ListOK, BirthsOK
<1>2. BirthsOK'
  BY <1>1 DEF ListOK, BirthsOK
<1>3. CASE userFront = NULL
  <2>1. /\ alloc = {} /\ alloc' = {n} /\ userFront' = n /\ next'[n] = NULL /\ prev'[n] = NULL
    BY <1>1, <1>3 DEF AppendUser, LinkAtEnd, ListOK, HeadsOK
  <2> QED
    BY <1>1, <1>2, <2>1 DEF ListOK, HeadsOK, LinksOK, Older
<1>4. CASE userFront # NULL
  <2>1. /\ userFront \in alloc /\ userBack \in alloc /\ userFront' = userFront
        /\ next'[n] = NULL /\ prev'[n] = userBack /\ next'[userBack] = n
        /\ \A m \in alloc : m # userBack => next'[m] = next[m]
        /\ \A m \in alloc : prev'[m] = prev[m]
    BY <1>1, <1>4 DEF AppendUser, LinkAtEnd, ListOK, HeadsOK
  <2>2. HeadsOK'
    BY <1>1, <2>1 DEF ListOK, HeadsOK, Older
  <2>3. LinksOK'
    BY <1>1, <2>1 DEF ListOK, HeadsOK, LinksOK, BirthsOK, Older
  <2> QED
    BY <1>2, <2>2, <2>3 DEF ListOK
<1> QED
  BY <1>3, <1>4

\* remove_User's four cases: unlinking a live User keeps the list whole.
LEMMA UnlinkKeepsList ==
    ASSUME ListTypeOK, ListOK, NEW p, UnlinkUser(p)
    PROVE  ListOK'
<1> USE NodeAssumption DEF ListTypeOK, Pointer
<1>1. /\ p \in alloc /\ p \in Node /\ alloc' = alloc \ {p}
      /\ birth' = birth /\ clock' = clock
      /\ userFront \in alloc /\ userBack \in alloc
  BY DEF UnlinkUser, FreeUser, ListOK, HeadsOK
<1>2. BirthsOK'
  BY <1>1 DEF ListOK, BirthsOK
<1>3. CASE UnlinkOnly(p)
  <2>1. alloc = {p}
    BY <1>1, <1>3 DEF UnlinkOnly, ListOK, HeadsOK, BirthsOK, Older
  <2> QED
    BY <1>1, <1>2, <1>3, <2>1 DEF UnlinkOnly, ListOK, HeadsOK, LinksOK
<1>4. CASE UnlinkFirst(p)
  <2>1. /\ userFront # userBack /\ p = userFront /\ userBack' = userBack
        /\ userFront' = next[p] /\ next[p] \in alloc /\ next[p] # p
        /\ prev'[next[p]] = NULL
        /\ \A m \in alloc' : next'[m] = next[m]
        /\ \A m \in alloc' : m # next[p] => prev'[m] = prev[m]
    BY <1>1, <1>4 DEF UnlinkFirst, ListOK, LinksOK, BirthsOK, Older
  <2>2. HeadsOK'
    BY <1>1, <2>1 DEF ListOK, HeadsOK, LinksOK, BirthsOK, Older
  <2>3. LinksOK'
    BY <1>1, <2>1 DEF ListOK, HeadsOK, LinksOK, BirthsOK, Older
  <2> QED
    BY <1>2, <2>2, <2>3 DEF ListOK
<1>5. CASE UnlinkLast(p)
  <2>1. /\ userFront # userBack /\ p = userBack /\ userFront' = userFront
        /\ userBack' = prev[p] /\ prev[p] \in alloc /\ prev[p] # p
        /\ next'[prev[p]] = NULL
        /\ \A m \in alloc' : prev'[m] = prev[m]
        /\ \A m \in alloc' : m # prev[p] => next'[m] = next[m]
    BY <1>1, <1>5 DEF UnlinkLast, ListOK, LinksOK, BirthsOK, Older
  <2>2. HeadsOK'
    BY <1>1, <2>1 DEF ListOK, HeadsOK, LinksOK, BirthsOK, Older
  <2>3. LinksOK'
    BY <1>1, <2>1 DEF ListOK, HeadsOK, LinksOK, BirthsOK, Older
  <2> QED
    BY <1>2, <2>2, <2>3 DEF ListOK
<1>6. CASE UnlinkMiddle(p)
  <2>1. /\ p # userFront /\ p # userBack /\ userFront' = userFront /\ userBack' = userBack
        /\ prev[p] \in alloc /\ next[p] \in alloc /\ prev[p] # p /\ next[p] # p
        /\ next'[prev[p]] = next[p] /\ prev'[next[p]] = prev[p]
        /\ \A m \in alloc' : m # prev[p] => next'[m] = next[m]
        /\ \A m \in alloc' : m # next[p] => prev'[m] = prev[m]
    BY <1>1, <1>6 DEF UnlinkMiddle, ListOK, LinksOK, BirthsOK, Older
  <2>2. HeadsOK'
    BY <1>1, <2>1 DEF ListOK, HeadsOK, Older
  <2>3. /\ next[prev[p]] = p /\ prev[next[p]] = p
        /\ birth[prev[p]] < birth[p] /\ birth[p] < birth[next[p]]
        /\ prev[p] # next[p]
        /\ \A m \in alloc : birth[prev[p]] < birth[m] => ~ (birth[m] < birth[p])
        /\ \A m \in alloc : birth[p] < birth[m] => ~ (birth[m] < birth[next[p]])
    BY <1>1, <2>1 DEF ListOK, LinksOK, Older
  <2>4. \A m \in alloc' : next'[m] \in alloc' \cup {NULL} /\ prev'[m] \in alloc' \cup {NULL}
    BY <1>1, <2>1, <2>3 DEF ListOK, LinksOK
  <2>5. /\ \A m \in alloc' : next'[m] = NULL <=> m = userBack'
        /\ \A m \in alloc' : prev'[m] = NULL <=> m = userFront'
    BY <1>1, <2>1, <2>3 DEF ListOK, LinksOK
  <2>6. /\ \A m \in alloc' : next'[m] # NULL => prev'[next'[m]] = m
        /\ \A m \in alloc' : prev'[m] # NULL => next'[prev'[m]] = m
    BY <1>1, <2>1, <2>3, <2>4 DEF ListOK, LinksOK
  <2>7. ASSUME NEW m \in alloc', next'[m] # NULL
        PROVE  Older(m, next[m])' /\ \A k \in alloc' : Older(m, k)' => ~ Older(k, next[m])'
    <3>1. CASE m = prev[p]
      <4>1. \A k \in alloc' : birth[m] < birth[k] => ~ (birth[k] < birth[next[p]])
        BY <1>1, <2>1, <2>3, <3>1 DEF ListOK, BirthsOK
      <4> QED
        BY <1>1, <2>1, <2>3, <3>1, <4>1 DEF Older
    <3>2. CASE m # prev[p]
      BY <1>1, <2>1, <2>7, <3>2 DEF ListOK, LinksOK, Older
    <3> QED
      BY <3>1, <3>2
  <2>8. LinksOK'
    BY <2>4, <2>5, <2>6, <2>7 DEF LinksOK
  <2> QED
    BY <1>2, <2>2, <2>8 DEF ListOK
<1> QED
  BY <1>3, <1>4, <1>5, <1>6 DEF UnlinkUser

-----------------------------------------------------------------------------
(* Types.                                                                  *)

\* login_User writes a well-formed name: strncpy stays inside the buffer.
LEMMA StrNCpyType ==
    ASSUME NEW dst \in NameBuffer, NEW src \in NameBuffer, NEW size \in 0..NameCap
    PROVE  StrNCpy(dst, src, size) \in NameBuffer
  BY NameAssumption DEF StrNCpy, NameBuffer

\* create_User fills a new User with values of the right type.
LEMMA AppendType ==
    ASSUME NodeTypeOK, NEW n, NEW s \in Sock, AppendUser(n, s)
    PROVE  NodeTypeOK'
<1>1. EmptyName \in NameBuffer
  BY NameAssumption DEF EmptyName, NameBuffer
<1>2. /\ name' \in [Node -> NameBuffer] /\ name_length' \in [Node -> 0..NameCap]
      /\ logged_in' \in [Node -> BOOLEAN] /\ should_shutdown' \in [Node -> BOOLEAN]
  BY <1>1, NameAssumption DEF NodeTypeOK, AppendUser, ClearIdentity
<1>3. /\ next' \in [Node -> Pointer] /\ prev' \in [Node -> Pointer]
      /\ userFront' \in Pointer /\ userBack' \in Pointer
  BY DEF NodeTypeOK, AppendUser, LinkAtEnd, Pointer
<1>4. /\ alloc' \subseteq Node /\ sock' \in [Node -> Sock \cup {NULL}]
      /\ birth' \in [Node -> Nat] /\ clock' \in Nat
  BY DEF NodeTypeOK, AppendUser
<1> QED
  BY <1>2, <1>3, <1>4 DEF NodeTypeOK

\* remove_User leaves links and heads that point to cells or to nothing.
LEMMA UnlinkType ==
    ASSUME NodeTypeOK, NEW p, UnlinkUser(p)
    PROVE  NodeTypeOK'
<1>1. EmptyName \in NameBuffer
  BY NameAssumption DEF EmptyName, NameBuffer
<1>2. /\ name' \in [Node -> NameBuffer] /\ name_length' \in [Node -> 0..NameCap]
      /\ logged_in' \in [Node -> BOOLEAN] /\ should_shutdown' \in [Node -> BOOLEAN]
  BY <1>1, NameAssumption DEF NodeTypeOK, UnlinkUser, FreeUser, ClearIdentity
<1>3. /\ alloc' \subseteq Node /\ sock' \in [Node -> Sock \cup {NULL}]
      /\ birth' \in [Node -> Nat] /\ clock' \in Nat
  BY DEF NodeTypeOK, UnlinkUser, FreeUser
<1>4. /\ next' \in [Node -> Pointer] /\ prev' \in [Node -> Pointer]
      /\ userFront' \in Pointer /\ userBack' \in Pointer
  <2>1. p \in Node
    BY DEF NodeTypeOK, UnlinkUser
  <2>2. CASE UnlinkOnly(p)
    BY <2>1, <2>2 DEF NodeTypeOK, UnlinkOnly, Pointer
  <2>3. CASE UnlinkFirst(p)
    BY <2>1, <2>3 DEF NodeTypeOK, UnlinkFirst, Pointer
  <2>4. CASE UnlinkLast(p)
    BY <2>1, <2>4 DEF NodeTypeOK, UnlinkLast, Pointer
  <2>5. CASE UnlinkMiddle(p)
    BY <2>1, <2>5 DEF NodeTypeOK, UnlinkMiddle, Pointer
  <2> QED
    BY <2>2, <2>3, <2>4, <2>5 DEF UnlinkUser
<1> QED
  BY <1>2, <1>3, <1>4 DEF NodeTypeOK
-----------------------------------------------------------------------------
(* Walks.                                                                  *)

\* A walk that stands at userFront has passed nobody.
LEMMA FrontPassesNobody ==
    ASSUME ListOK
    PROVE  {m \in alloc : userFront = NULL \/ Older(m, userFront)} = {}
  BY DEF ListOK, HeadsOK

\* iterate_User passes the User the walk stands at and no other.
LEMMA NextPassesOne ==
    ASSUME ListOK, ListTypeOK, NEW n \in alloc
    PROVE  /\ next[n] \in alloc \cup {NULL}
           /\ {m \in alloc : next[n] = NULL \/ Older(m, next[n])}
                = {m \in alloc : n = NULL \/ Older(m, n)} \cup {n}
<1> USE DEF ListTypeOK
<1>1. next[n] \in alloc \cup {NULL} /\ n # NULL
  BY NodeAssumption DEF ListOK, LinksOK
<1>2. CASE next[n] = NULL
  <2>1. \A m \in alloc : m # n => birth[m] < birth[n]
    BY <1>2 DEF ListOK, LinksOK, HeadsOK, BirthsOK, Older
  <2> QED
    BY <1>1, <1>2, <2>1 DEF Older
<1>3. CASE next[n] # NULL
  <2>1. /\ birth[n] < birth[next[n]] /\ next[n] \in alloc
        /\ \A m \in alloc : birth[n] < birth[m] => ~ (birth[m] < birth[next[n]])
    BY <1>1, <1>3 DEF ListOK, LinksOK, Older
  <2>2. \A m \in alloc : birth[m] < birth[next[n]] <=> birth[m] < birth[n] \/ m = n
    BY <2>1 DEF ListOK, BirthsOK
  <2> QED
    BY <1>1, <1>3, <2>2 DEF Older
<1> QED
  BY <1>2, <1>3

=============================================================================
