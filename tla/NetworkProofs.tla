---------------------------- MODULE NetworkProofs ----------------------------
(***************************************************************************)
(* Theorems about network.c and its helpers in util.c: the conversions of   *)
(* Bytes, the messages of Messages, and the bytes that become messages in   *)
(* Wire, for values, strings and frames of every length the code allows.    *)
(***************************************************************************)
EXTENDS Wire, Messages, SequenceTheorems, TLAPS

-----------------------------------------------------------------------------
(* The conversions.                                                        *)

\* The two implementations of a conversion to network order agree, and so do those
\* of the conversion back (network.c:210, :226 against util.c:237, :222).
THEOREM ConversionsAgree ==
    \A v \in Word(8) : htonll(v) = hton64u(v) /\ ntohll(v) = ntoh64u(v)
<1> SUFFICES ASSUME NEW v \in Word(8)
             PROVE  htonll(v) = hton64u(v) /\ ntohll(v) = ntoh64u(v)
    OBVIOUS
<1>1. \A i \in 0..7 : Join(Swap32(Low(v)), Swap32(High(v)))[i] = v[7 - i]
    BY DEF Join, Swap32, Low, High, Word
<1>2. DOMAIN Join(Swap32(Low(v)), Swap32(High(v))) = 0..7
    BY DEF Join
<1>3. Join(Swap32(Low(v)), Swap32(High(v))) = [i \in 0..7 |-> v[7 - i]]
    BY <1>1, <1>2 DEF Join
<1> QED BY <1>3 DEF htonll, ntohll, hton64u, ntoh64u

\* A timestamp that was sent in network order is read as it was, whichever of the
\* two implementations either side uses.
THEOREM RoundTrip ==
    \A v \in Word(8) : ntohll(htonll(v)) = v /\ ntoh64u(htonll(v)) = v
<1> SUFFICES ASSUME NEW v \in Word(8)
             PROVE  ntohll(htonll(v)) = v /\ ntoh64u(htonll(v)) = v
    OBVIOUS
<1>1. htonll(v) = [i \in 0..7 |-> v[7 - i]]
    BY ConversionsAgree DEF hton64u
<1>2. htonll(v) \in Word(8)
    BY <1>1 DEF Word
<1>3. ntohll(htonll(v)) = ntoh64u(htonll(v))
    BY <1>2, ConversionsAgree
<1>4. ntoh64u(htonll(v)) = [i \in 0..7 |-> v[i]]
    BY <1>1 DEF ntoh64u
<1> QED BY <1>3, <1>4 DEF Word

\* The two checks of a name reject the same names, although one reads chars with
\* their sign and the other one without (clientthread.c:245, util.c:197).
THEOREM NameChecksAgree ==
    ASSUME NEW n \in Nat, NEW name \in String(n),
           NEW result, nameBytesValidateReturns(name, n, result)
    PROVE  f_Name_has_forbidden_char(name, n) <=> result # n
<1>1. \A x \in 0..(n - 1) : Forbidden(Signed(name[x])) <=> IsRejected(name[x])
    <2> SUFFICES ASSUME NEW x \in 0..(n - 1)
                 PROVE  Forbidden(Signed(name[x])) <=> IsRejected(name[x])
        OBVIOUS
    <2>1. name[x] \in 1..255
        BY DEF String, Byte, NUL
    <2> QED BY <2>1 DEF Forbidden, Signed, IsRejected
<1>2. result # n <=> \E x \in 0..(n - 1) : IsRejected(name[x])
    BY DEF nameBytesValidateReturns
<1> QED BY <1>1, <1>2 DEF f_Name_has_forbidden_char

-----------------------------------------------------------------------------
(* The messages.                                                           *)

\* strlen: there is one first NUL at most.
LEMMA StrLenIsUnique ==
    ASSUME NEW mem, NEW at, NEW n, IsStrLen(mem, at, n)
    PROVE  StrLen(mem, at) = n
<1>0. n \in Nat
    BY DEF IsStrLen
<1>1. IsStrLen(mem, at, StrLen(mem, at)) /\ StrLen(mem, at) \in Nat
    BY <1>0 DEF StrLen
<1>2. \A m \in Nat : IsStrLen(mem, at, m) => m = n
    <2> SUFFICES ASSUME NEW m \in Nat, IsStrLen(mem, at, m), m # n PROVE FALSE
        OBVIOUS
    <2>2. CASE m < n
        BY <1>0, <2>2 DEF IsStrLen
    <2>3. CASE n < m
        BY <1>0, <2>3 DEF IsStrLen
    <2> QED BY <1>0, <2>2, <2>3
<1> QED BY <1>1, <1>2

\* A client reads the server's name in the answer to its login, and the length counts
\* exactly the name, also for a name of 31 characters, which fills its field and has
\* its NUL behind it (network.c:79).
THEOREM LoginResponseReads ==
    ASSUME NEW head \in Bytes(5), NEW len \in 1..NET_NAME_LEN, NEW server \in String(len)
    PROVE  LET answer == build_login_response(head, server, len) IN
           /\ ReadsAs(answer.payload, LoginName, server, len)
           /\ answer.length = LoginName + len
<1> DEFINE begun == Write(Cleared, 0, head, LoginName)
           built == StrNCpy(begun, LoginName, server, len, len + 1)
<1>1. /\ \A i \in 0..(len - 1) : built[LoginName + i] = server[i]
      /\ built[LoginName + len] = NUL
    <2> HIDE DEF begun
    <2>1. LoginName + len \in Place /\ \A i \in 0..(len - 1) : LoginName + i \in Place
        BY DEF Place, LoginName, NET_NAME_LEN
    <2>2. \A i \in 0..(len - 1) : built[LoginName + i] = server[i]
        BY <2>1 DEF StrNCpy, LoginName, NET_NAME_LEN
    <2>3. built[LoginName + len] = NUL
        BY <2>1 DEF StrNCpy, LoginName, NET_NAME_LEN
    <2> QED BY <2>2, <2>3
<1> QED BY <1>1 DEF build_login_response, ReadsAs

\* The name that is announced when a user logs in has as many characters as were
\* copied, and the length counts them, if the message was cleared before
\* (network.c:96, clientthread.c:78).
THEOREM UserAddedReads ==
    ASSUME NEW time \in Bytes(8), NEW len \in 0..NET_NAME_LEN, NEW name \in String(len),
           NEW size \in 0..NET_NAME_LEN
    PROVE  LET added == build_User_Added(Cleared, time, name, len, size) IN
           /\ ReadsAs(added.payload, AddedName, name, Least(len, size))
           /\ added.length = AddedName + Least(len, size)
<1> DEFINE n == Least(len, size)
           begun == Write(Cleared, 0, time, 8)
           built == StrNCpy(begun, AddedName, name, len, size)
<1>1. begun[AddedName + size] = NUL
    <2>1. AddedName + size \in Place
        BY DEF Place, AddedName, NET_NAME_LEN
    <2>2. begun[AddedName + size] = Cleared[AddedName + size]
        BY <2>1 DEF Write, AddedName, NET_NAME_LEN
    <2>3. Cleared[AddedName + size] = NUL
        BY <2>1 DEF Cleared
    <2> QED BY <2>2, <2>3
<1>2. ReadsAs(built, AddedName, name, n)
    <2> HIDE DEF begun
    <2>0. n \in 0..31 /\ n <= len /\ n <= size
        BY DEF NET_NAME_LEN, Least
    <2>1. \A i \in 0..(n - 1) : built[AddedName + i] = name[i]
        <3> HIDE DEF n
        <3> QED BY <2>0, SMTT(40) DEF StrNCpy, Place, AddedName, NET_NAME_LEN
    <2>2. len < size => built[AddedName + len] = NUL
        BY SMTT(40) DEF StrNCpy, Place, AddedName, NET_NAME_LEN
    <2>3. size <= len => built[AddedName + size] = NUL
        BY <1>1, SMTT(40) DEF StrNCpy, Place, AddedName, NET_NAME_LEN
    <2>4. built[AddedName + n] = NUL
        <3> HIDE DEF built
        <3> QED BY <2>2, <2>3 DEF Least, NET_NAME_LEN
    <2> QED BY <2>1, <2>4 DEF ReadsAs
<1>3. IsStrLen(built, AddedName, n)
    <2> HIDE DEF built
    <2>1. n \in Nat /\ \A i \in 0..(n - 1) : name[i] # NUL
        BY DEF String, Least, NET_NAME_LEN
    <2> QED BY <1>2, <2>1 DEF ReadsAs, IsStrLen
<1>4. StrLen(built, AddedName) = n
    BY <1>3, StrLenIsUnique
<1> QED BY <1>2, <1>4 DEF build_User_Added

\* The same for a user who has left; the length counts what was copied, whether or not
\* the name is shorter (network.c:114, clientthread.c:42).
THEOREM UserRemovedReads ==
    ASSUME NEW time \in Bytes(9), NEW len \in 0..NET_NAME_LEN, NEW name \in String(len),
           NEW size \in 0..NET_NAME_LEN
    PROVE  LET removed == build_User_Removed(Cleared, time, name, len, size) IN
           /\ ReadsAs(removed.payload, RemovedName, name, Least(len, size))
           /\ removed.length = RemovedName + Least(len, size) <=> size <= len
<1> DEFINE n == Least(len, size)
           begun == Write(Cleared, 0, time, RemovedName)
           built == StrNCpy(begun, RemovedName, name, len, size)
<1>1. begun[RemovedName + size] = NUL
    <2>1. RemovedName + size \in Place
        BY DEF Place, RemovedName, NET_NAME_LEN
    <2>2. begun[RemovedName + size] = Cleared[RemovedName + size]
        BY <2>1 DEF Write, RemovedName, NET_NAME_LEN
    <2>3. Cleared[RemovedName + size] = NUL
        BY <2>1 DEF Cleared
    <2> QED BY <2>2, <2>3
<1>2. ReadsAs(built, RemovedName, name, n)
    <2> HIDE DEF begun
    <2>0. n \in 0..31 /\ n <= len /\ n <= size
        BY DEF NET_NAME_LEN, Least
    <2>1. \A i \in 0..(n - 1) : built[RemovedName + i] = name[i]
        <3> HIDE DEF n
        <3> QED BY <2>0, SMTT(40) DEF StrNCpy, Place, RemovedName, NET_NAME_LEN
    <2>2. len < size => built[RemovedName + len] = NUL
        BY SMTT(40) DEF StrNCpy, Place, RemovedName, NET_NAME_LEN
    <2>3. size <= len => built[RemovedName + size] = NUL
        BY <1>1, SMTT(40) DEF StrNCpy, Place, RemovedName, NET_NAME_LEN
    <2>4. built[RemovedName + n] = NUL
        <3> HIDE DEF built
        <3> QED BY <2>2, <2>3 DEF Least, NET_NAME_LEN
    <2> QED BY <2>1, <2>4 DEF ReadsAs
<1>3. RemovedName + size = RemovedName + Least(len, size) <=> size <= len
    BY DEF RemovedName, Least, NET_NAME_LEN
<1> QED BY <1>2, <1>3 DEF build_User_Removed

\* A message arrives under the name of its user and with its text up to the first NUL,
\* although both are built in the memory that the text was received in
\* (network.c:133).
THEOREM ChatMessageReads ==
    ASSUME NEW n \in 1..NET_TEXT_LEN, NEW text \in Bytes(n), NEW time \in Bytes(8),
           NEW tlen \in 0..n,
           \A i \in 0..(tlen - 1) : text[i] # NUL, tlen < n => text[tlen] = NUL,
           NEW len \in 0..NET_NAME_LEN, NEW sender \in String(len), NEW size \in 0..NET_NAME_LEN
    PROVE  LET chat == build_Server_to_client(Received(text, n), time, sender, len, size, tlen, n) IN
           /\ ReadsAs(chat.payload, OriginalSender, sender, Least(len, size))
           /\ \A i \in 0..(n - 1) :
                 chat.payload[ServerText + i] = IF i < tlen THEN text[i] ELSE NUL
           /\ chat.length = ServerText + n
<1> DEFINE mem == Received(text, n)
           moved == [i \in 0..(NET_TEXT_LEN - 1) |-> mem[i]]
           blank == Write(mem, 0, Cleared, NET_TEXT_LEN)
           begun == Write(blank, 0, time, 8)
           signed == StrNCpy(begun, OriginalSender, sender, len, size)
           built == StrNCpy(signed, ServerText, moved, tlen, n)
           k == Least(len, size)
<1>1. \A i \in 8..39 : begun[i] = NUL
    <2>1. \A i \in 8..39 : blank[i] = NUL
        <3> HIDE DEF mem
        <3>1. \A i \in 8..39 : i \in Place /\ i - 0 = i /\ i \in 0..(0 + 512 - 1)
            BY DEF Place
        <3>2. \A i \in 8..39 : blank[i] = Cleared[i]
            BY <3>1 DEF Write, NET_TEXT_LEN
        <3>3. \A i \in 8..39 : Cleared[i] = NUL
            BY <3>1 DEF Cleared
        <3> QED BY <3>2, <3>3
    <2> HIDE DEF blank
    <2> QED BY <2>1, SMTT(40) DEF Write, Place
<1>2. /\ \A i \in 0..(k - 1) : signed[OriginalSender + i] = sender[i]
      /\ signed[OriginalSender + k] = NUL
    <2> HIDE DEF begun
    <2>1. k \in 0..31 /\ k <= len /\ k <= size
        BY DEF NET_NAME_LEN, Least
    <2>2. \A i \in 0..(k - 1) : signed[OriginalSender + i] = sender[i]
        <3> HIDE DEF k
        <3> QED BY <2>1, SMTT(40) DEF StrNCpy, Place, OriginalSender, NET_NAME_LEN
    <2>3. begun[OriginalSender + size] = NUL
        BY <1>1 DEF OriginalSender, NET_NAME_LEN
    <2>4. len < size => signed[OriginalSender + len] = NUL
        BY SMTT(40) DEF StrNCpy, Place, OriginalSender, NET_NAME_LEN
    <2>5. size <= len => signed[OriginalSender + size] = NUL
        BY <2>3, SMTT(40) DEF StrNCpy, Place, OriginalSender, NET_NAME_LEN
    <2>6. signed[OriginalSender + k] = NUL
        <3> HIDE DEF signed
        <3> QED BY <2>4, <2>5 DEF Least, NET_NAME_LEN
    <2> QED BY <2>2, <2>6
<1>3. \A i \in 8..39 : built[i] = signed[i]
    <2> HIDE DEF signed, moved
    <2>1. \A i \in 8..39 : i \in Place
        BY DEF Place
    <2> QED BY <2>1 DEF StrNCpy, ServerText, NET_TEXT_LEN
<1>4. ReadsAs(built, OriginalSender, sender, k)
    <2> HIDE DEF built, signed
    <2>1. /\ \A i \in 0..(k - 1) : OriginalSender + i \in 8..39
          /\ OriginalSender + k \in 8..39
        BY DEF OriginalSender, NET_NAME_LEN, Least
    <2> QED BY <1>2, <1>3, <2>1 DEF ReadsAs
<1>5. \A i \in 0..(n - 1) : moved[i] = text[i]
    <2>0. \A i \in 0..(n - 1) : i \in Place /\ i - 0 = i
        BY DEF Place, NET_TEXT_LEN
    <2>1. \A i \in 0..(n - 1) : mem[i] = text[i]
        BY <2>0 DEF Received, Write, NET_TEXT_LEN
    <2>2. \A i \in 0..(NET_TEXT_LEN - 1) : moved[i] = mem[i]
        OBVIOUS
    <2>3. \A i \in 0..(n - 1) : i \in 0..(NET_TEXT_LEN - 1)
        BY DEF NET_TEXT_LEN
    <2> HIDE DEF moved, mem
    <2> QED BY <2>1, <2>2, <2>3
<1>6. \A i \in 0..(n - 1) : built[ServerText + i] = IF i < tlen THEN moved[i] ELSE NUL
    <2> HIDE DEF signed, moved
    <2>1. \A i \in 0..(n - 1) : ServerText + i \in Place
        BY DEF Place, ServerText, NET_TEXT_LEN
    <2> QED BY <2>1 DEF StrNCpy, ServerText, NET_TEXT_LEN
<1>7. \A i \in 0..(n - 1) : built[ServerText + i] = IF i < tlen THEN text[i] ELSE NUL
    <2> HIDE DEF built, moved
    <2> QED BY <1>5, <1>6
<1>8. build_Server_to_client(mem, time, sender, len, size, tlen, n)
        = [payload |-> built, length |-> ServerText + n]
    BY DEF build_Server_to_client
<1> HIDE DEF built
<1> QED BY <1>4, <1>7, <1>8

\* A response has its text and its length right, but its readers find the server's
\* name in front of it if and only if the byte behind that name happens to be NUL:
\* build_Server_response neither clears the field nor copies the NUL (network.c:173).
THEOREM ResponseSender ==
    ASSUME NEW mem, NEW time \in Bytes(8), NEW len \in 1..NET_NAME_LEN, NEW server \in String(len),
           NEW tlen \in 0..(NET_TEXT_LEN - 1), NEW text \in String(tlen)
    PROVE  LET response == build_Server_response(mem, time, server, len, text, tlen) IN
           /\ ReadsAs(response.payload, OriginalSender, server, len)
                <=> mem[OriginalSender + len] = NUL
           /\ \A i \in 0..(tlen - 1) : response.payload[ServerText + i] = text[i]
           /\ response.length = ServerText + tlen
<1> DEFINE begun == Write(mem, 0, time, 8)
           signed == StrNCpy(begun, OriginalSender, server, len, len)
           built == StrNCpy(signed, ServerText, text, tlen, tlen)
<1>1. begun[OriginalSender + len] = mem[OriginalSender + len]
    BY SMTT(40) DEF Write, Place, OriginalSender, NET_NAME_LEN
<1>2. /\ \A i \in 0..(len - 1) : signed[OriginalSender + i] = server[i]
      /\ signed[OriginalSender + len] = begun[OriginalSender + len]
    <2> HIDE DEF begun
    <2>1. /\ OriginalSender + len \in Place
          /\ \A i \in 0..(len - 1) : OriginalSender + i \in Place
        BY DEF Place, OriginalSender, NET_NAME_LEN
    <2>2. \A i \in 0..(len - 1) : signed[OriginalSender + i] = server[i]
        BY <2>1 DEF StrNCpy, OriginalSender, NET_NAME_LEN
    <2>3. signed[OriginalSender + len] = begun[OriginalSender + len]
        BY <2>1 DEF StrNCpy, OriginalSender, NET_NAME_LEN
    <2> QED BY <2>2, <2>3
<1>3. /\ \A i \in 8..39 : built[i] = signed[i]
      /\ \A i \in 0..(tlen - 1) : built[ServerText + i] = text[i]
    <2> HIDE DEF signed
    <2>1. /\ \A i \in 8..39 : i \in Place
          /\ \A i \in 0..(tlen - 1) : ServerText + i \in Place
        BY DEF Place, ServerText, NET_TEXT_LEN
    <2>2. \A i \in 8..39 : built[i] = signed[i]
        BY <2>1 DEF StrNCpy, ServerText, NET_TEXT_LEN
    <2>3. \A i \in 0..(tlen - 1) : built[ServerText + i] = text[i]
        BY <2>1 DEF StrNCpy, ServerText, NET_TEXT_LEN
    <2> QED BY <2>2, <2>3
<1>4. ReadsAs(built, OriginalSender, server, len) <=> mem[OriginalSender + len] = NUL
    <2> HIDE DEF built, signed, begun
    <2>1. /\ \A i \in 0..(len - 1) : OriginalSender + i \in 8..39
          /\ OriginalSender + len \in 8..39
        BY DEF OriginalSender, NET_NAME_LEN
    <2> QED BY <1>1, <1>2, <1>3, <2>1 DEF ReadsAs
<1> HIDE DEF built, signed
<1>5. build_Server_response(mem, time, server, len, text, tlen)
        = [payload |-> built, length |-> ServerText + tlen]
    BY DEF build_Server_response, built, signed
<1> QED BY <1>3, <1>4, <1>5

\* The response to a command has the server's name alone in front of it if and only if
\* the command does not reach behind that name in the shared memory.
THEOREM ResponseToCommand ==
    ASSUME NEW n \in 1..NET_TEXT_LEN, NEW command \in Bytes(n), NEW time \in Bytes(8),
           NEW len \in 1..NET_NAME_LEN, NEW server \in String(len),
           NEW tlen \in 0..(NET_TEXT_LEN - 1), NEW text \in String(tlen)
    PROVE  LET response == build_Server_response(Received(command, n), time, server, len, text, tlen)
           IN  ReadsAs(response.payload, OriginalSender, server, len)
                 <=> n <= OriginalSender + len \/ command[OriginalSender + len] = NUL
<1> DEFINE mem == Received(command, n)
<1>1. mem[OriginalSender + len] = NUL
        <=> n <= OriginalSender + len \/ command[OriginalSender + len] = NUL
    <2>0. 8 + len \in Place
        BY DEF Place, NET_NAME_LEN
    <2>1. mem[8 + len] = IF 8 + len < n THEN command[8 + len] ELSE NUL
        BY <2>0 DEF Received, Write, Cleared, NET_NAME_LEN, NET_TEXT_LEN
    <2>2. 8 + len < n <=> ~ (n <= 8 + len)
        BY DEF NET_NAME_LEN, NET_TEXT_LEN
    <2> HIDE DEF mem
    <2> QED BY <2>1, <2>2 DEF OriginalSender
<1>2. ReadsAs(build_Server_response(mem, time, server, len, text, tlen).payload,
              OriginalSender, server, len)
        <=> mem[OriginalSender + len] = NUL
    <2> HIDE DEF mem
    <2> QED BY ResponseSender
<1> QED BY <1>1, <1>2

\* The response to a message for which the queue is full has the server's name alone in
\* front of it if and only if the name of the user is not longer: it is built over the
\* message that was not sent (clientthread.c:107).
THEOREM ResponseWhenFull ==
    ASSUME NEW n \in 1..NET_TEXT_LEN, NEW chat_text \in Bytes(n), NEW tlen \in 0..n,
           \A i \in 0..(tlen - 1) : chat_text[i] # NUL, tlen < n => chat_text[tlen] = NUL,
           NEW sent_at \in Bytes(8), NEW name_len \in 0..NET_NAME_LEN, NEW name \in String(name_len),
           NEW len \in 1..NET_NAME_LEN, NEW server \in String(len), NEW time \in Bytes(8),
           NEW rlen \in 0..(NET_TEXT_LEN - 1), NEW text \in String(rlen)
    PROVE  LET chat == build_Server_to_client(Received(chat_text, n), sent_at, name, name_len,
                                              name_len, tlen, n)
               response == build_Server_response(chat.payload, time, server, len, text, rlen)
           IN  ReadsAs(response.payload, OriginalSender, server, len) <=> name_len <= len
<1> DEFINE mem == Received(chat_text, n)
           moved == [i \in 0..(NET_TEXT_LEN - 1) |-> mem[i]]
           blank == Write(mem, 0, Cleared, NET_TEXT_LEN)
           begun == Write(blank, 0, sent_at, 8)
           signed == StrNCpy(begun, OriginalSender, name, name_len, name_len)
           built == StrNCpy(signed, ServerText, moved, tlen, n)
<1>1. begun[OriginalSender + len] = NUL
    <2>1. \A i \in 8..39 : blank[i] = NUL
        <3> HIDE DEF mem
        <3>1. \A i \in 8..39 : i \in Place /\ i - 0 = i /\ i \in 0..(0 + 512 - 1)
            BY DEF Place
        <3>2. \A i \in 8..39 : blank[i] = Cleared[i]
            BY <3>1 DEF Write, NET_TEXT_LEN
        <3>3. \A i \in 8..39 : Cleared[i] = NUL
            BY <3>1 DEF Cleared
        <3> QED BY <3>2, <3>3
    <2>2. \A i \in 8..39 : begun[i] = NUL
        <3> HIDE DEF blank
        <3> QED BY <2>1, SMTT(40) DEF Write, Place
    <2> HIDE DEF begun
    <2> QED BY <2>2 DEF OriginalSender, NET_NAME_LEN
<1>2. signed[OriginalSender + len] = NUL <=> name_len <= len
    <2> HIDE DEF begun
    <2>1. signed[OriginalSender + len] =
              IF len < name_len THEN name[len] ELSE begun[OriginalSender + len]
        BY SMTT(40) DEF StrNCpy, Place, OriginalSender, NET_NAME_LEN
    <2>2. len < name_len => name[len] # NUL
        BY DEF String, NET_NAME_LEN
    <2>3. len < name_len <=> ~ (name_len <= len)
        BY DEF NET_NAME_LEN
    <2> HIDE DEF signed
    <2> QED BY <1>1, <2>1, <2>2, <2>3
<1>3. built[OriginalSender + len] = signed[OriginalSender + len]
    <2> HIDE DEF signed, moved
    <2>1. OriginalSender + len \in Place
        BY DEF Place, OriginalSender, NET_NAME_LEN
    <2> QED BY <2>1 DEF StrNCpy, ServerText, OriginalSender, NET_TEXT_LEN, NET_NAME_LEN
<1>4. build_Server_to_client(mem, sent_at, name, name_len, name_len, tlen, n).payload = built
    BY DEF build_Server_to_client
<1>5. ReadsAs(build_Server_response(built, time, server, len, text, rlen).payload,
              OriginalSender, server, len)
        <=> built[OriginalSender + len] = NUL
    <2> HIDE DEF built
    <2> QED BY ResponseSender
<1> HIDE DEF built, signed
<1> QED BY <1>2, <1>3, <1>4, <1>5

-----------------------------------------------------------------------------
(* The bytes of a client become messages: the inductive invariant of Wire.  *)

FrameLen(k) == HeaderLen + sent[k].length

\* The bytes of a frame that have not been read follow each other.
FramesWhole ==
    \A i \in DOMAIN unread :
        \A d \in 0..(FrameLen(unread[i][1]) - unread[i][2]) :
            i + d \in DOMAIN unread /\ unread[i + d] = <<unread[i][1], unread[i][2] + d>>

\* Behind place i of unread comes the frame after k, if there is one.
NextIs(i, k) ==
    IF i = Len(unread) THEN k = Len(sent) ELSE unread[i + 1] = <<k + 1, 1>>

\* Behind the last byte of a frame comes the next one.
FramesInOrder ==
    \A i \in DOMAIN unread :
        unread[i][2] = FrameLen(unread[i][1]) => NextIs(i, unread[i][1])

StreamOK ==
    /\ unread \in Seq(Nat \X Nat)
    /\ FramesWhole /\ FramesInOrder

Handled == [code : Code, frame : Nat]

\* In step, the server has handled every frame before the one whose header or payload
\* comes next in the stream.
StepOK ==
    /\ handled \in Seq(Handled)
    /\ ~ torn /\ pc \in {"loop", "header"} => NextIs(0, Len(handled))
    /\ ~ torn /\ pc \in {"receive", "payload"} =>
          LET k == Len(handled) + 1 IN
          /\ k \in DOMAIN sent
          /\ header = [type |-> sent[k].type, length |-> sent[k].length, frame |-> k]
          /\ IF sent[k].length = 0 THEN NextIs(0, k)
             ELSE unread # <<>> /\ unread[1] = <<k, HeaderLen + 1>>

WireInv == TypeOK /\ StreamOK /\ StepOK /\ InStep

\* read is called for a payload that is not empty.  After a text of which nothing was
\* read, nothing comes any more, or no call is made that could return it.
CallsOK ==
    /\ pc = "payload" => header.length > 0
    /\ absent => \/ closed /\ unread = <<>> /\ pc \in {"loop", "header", "ended"}
                 \/ ~ open /\ pc \in {"loop", "ended"}

\* A call that returns n bytes leaves the others: what is whole and in order stays so.
LEMMA SuffixProps ==
    ASSUME NEW S, NEW s \in Seq(S), NEW n \in 0..Len(s)
    PROVE  LET rest == SubSeq(s, n + 1, Len(s)) IN
           /\ rest \in Seq(S) /\ Len(rest) = Len(s) - n /\ Len(rest) \in Nat
           /\ DOMAIN rest = 1..(Len(s) - n)
           /\ \A i \in 1..(Len(s) - n) : rest[i] = s[i + n]
<1> DEFINE rest == SubSeq(s, n + 1, Len(s))
           L == Len(s)
<1>1. L \in Nat /\ DOMAIN s = 1..L /\ n \in 0..L /\ n + 1 \in Int
  BY LenProperties
<1>2. \A i \in (n + 1)..L : s[i] \in S
  BY <1>1, ElementOfSeq
<1>3. /\ rest \in Seq(S)
      /\ Len(rest) = IF n + 1 <= L THEN L - (n + 1) + 1 ELSE 0
      /\ \A i \in 1..(L - (n + 1) + 1) : rest[i] = s[n + 1 + i - 1]
  BY <1>1, <1>2, SubSeqProperties
<1> HIDE DEF rest, L
<1>4. Len(rest) = L - n
  BY <1>1, <1>3
<1>5. \A i \in 1..(L - n) : rest[i] = s[i + n]
  <2> SUFFICES ASSUME NEW i \in 1..(L - n) PROVE rest[i] = s[i + n]
    OBVIOUS
  <2>1. i \in 1..(L - (n + 1) + 1) /\ n + 1 + i - 1 = i + n
    BY <1>1
  <2> QED
    BY <1>3, <2>1
<1>6. DOMAIN rest = 1..Len(rest) /\ Len(rest) \in Nat
  BY <1>3, LenProperties
<1> QED
  BY <1>3, <1>4, <1>5, <1>6 DEF rest, L

\* recv and read never return more than has arrived.
LEMMA ReadableProps ==
    ASSUME TypeOK, unread \in Seq(Nat \X Nat), NEW asked \in Nat, NEW n \in Readable(asked)
    PROVE  /\ n \in 0..asked /\ n \in 0..Len(unread) /\ n <= here
           /\ n = 0 /\ asked > 0 => here = 0 /\ closed /\ unread = <<>>
<1>1. Len(unread) \in Nat /\ here \in 0..Len(unread)
  BY LenProperties DEF TypeOK
<1> QED
  BY <1>1 DEF Readable

\* Taking bytes from the front keeps the stream whole and in order.
LEMMA TakeKeeps ==
    ASSUME TypeOK, StreamOK, NEW n \in 0..Len(unread), n <= here, Take(n), UNCHANGED sent
    PROVE  /\ StreamOK'
           /\ here' \in 0..Len(unread')
           /\ DOMAIN unread' = 1..(Len(unread) - n) /\ Len(unread') = Len(unread) - n
           /\ \A i \in DOMAIN unread' : unread'[i] = unread[i + n] /\ i + n \in DOMAIN unread
           /\ \A k : NextIs(n, k) => NextIs(0, k)'
<1>1. /\ unread' \in Seq(Nat \X Nat) /\ Len(unread') = Len(unread) - n
      /\ DOMAIN unread' = 1..(Len(unread) - n)
      /\ \A i \in 1..(Len(unread) - n) : unread'[i] = unread[i + n]
  BY SuffixProps DEF StreamOK, Take
<1>2. Len(unread) \in Nat /\ DOMAIN unread = 1..Len(unread) /\ here \in 0..Len(unread)
  BY LenProperties DEF StreamOK, TypeOK
<1>3. here' \in 0..Len(unread')
  <2>1. here' = here - n
    BY DEF Take
  <2> QED
    BY <1>1, <1>2, <2>1
<1>4. \A i \in DOMAIN unread' : unread'[i] = unread[i + n] /\ i + n \in DOMAIN unread
  BY <1>1, <1>2
<1>5. FramesWhole'
  <2> SUFFICES ASSUME NEW i \in DOMAIN unread',
                      NEW d \in 0..(FrameLen(unread'[i][1]) - unread'[i][2])
               PROVE  i + d \in DOMAIN unread' /\ unread'[i + d] = <<unread'[i][1], unread'[i][2] + d>>
    BY DEF FramesWhole, FrameLen
  <2>1. i + n \in DOMAIN unread /\ unread'[i] = unread[i + n] /\ i \in Nat /\ d \in Int /\ d >= 0
    BY <1>1, <1>4
  <2>2. d \in 0..(FrameLen(unread[i + n][1]) - unread[i + n][2])
    BY <2>1
  <2>3. /\ (i + n) + d \in DOMAIN unread
        /\ unread[(i + n) + d] = <<unread[i + n][1], unread[i + n][2] + d>>
    BY <2>1, <2>2 DEF StreamOK, FramesWhole
  <2>4. i + d \in 1..(Len(unread) - n) /\ (i + n) + d = (i + d) + n
    <3>1. (i + n) + d <= Len(unread) /\ i >= 1 /\ n \in Nat
      BY <1>1, <1>2, <2>1, <2>3
    <3> QED
      BY <1>2, <2>1, <3>1
  <2> QED
    BY <1>1, <2>1, <2>3, <2>4
<1>6. FramesInOrder'
  <2> SUFFICES ASSUME NEW i \in DOMAIN unread', unread'[i][2] = FrameLen(unread'[i][1])
               PROVE  NextIs(i, unread[i][1])'
    BY DEF FramesInOrder, FrameLen
  <2>1. i + n \in DOMAIN unread /\ unread'[i] = unread[i + n] /\ i \in Nat
    BY <1>1, <1>4
  <2>2. NextIs(i + n, unread[i + n][1])
    BY <2>1 DEF StreamOK, FramesInOrder, FrameLen
  <2>3. i = Len(unread') <=> i + n = Len(unread)
    BY <1>1, <1>2, <2>1
  <2>4. i # Len(unread') => i + 1 \in 1..(Len(unread) - n) /\ (i + n) + 1 = (i + 1) + n
    <3>1. i \in 1..(Len(unread) - n) /\ Len(unread') = Len(unread) - n
      BY <1>1
    <3>2. Len(unread) \in Nat /\ n \in Nat
      BY <1>2
    <3> QED
      BY <3>1, <3>2
  <2>5. CASE i = Len(unread')
    BY <2>1, <2>2, <2>3, <2>5 DEF NextIs
  <2>6. CASE i # Len(unread')
    <3>1. unread'[i + 1] = unread[(i + 1) + n] /\ (i + n) + 1 = (i + 1) + n
      <4>1. i + 1 \in 1..(Len(unread) - n) /\ (i + n) + 1 = (i + 1) + n
        BY <2>4, <2>6
      <4>2. \A j \in 1..(Len(unread) - n) : unread'[j] = unread[j + n]
        BY <1>1
      <4> QED
        BY <4>1, <4>2
    <3> QED
      BY <2>1, <2>2, <2>3, <2>6, <3>1 DEF NextIs
  <2> QED
    BY <2>5, <2>6
<1>7. ASSUME NEW k, NextIs(n, k) PROVE NextIs(0, k)'
  <2>1. 0 = Len(unread') <=> n = Len(unread)
    BY <1>1, <1>2
  <2>2. 0 # Len(unread') => 1 \in 1..(Len(unread) - n) /\ n + 1 = 1 + n
    BY <1>1, <1>2
  <2> QED
    BY <1>1, <1>7, <2>1, <2>2 DEF NextIs
<1> QED
  BY <1>1, <1>3, <1>4, <1>5, <1>6, <1>7 DEF StreamOK

\* A frame is put behind what has been sent, and its bytes behind what is unread.
LEMMA SendProps ==
    ASSUME TypeOK, StreamOK, NEW f \in Frames, ClientSends(f)
    PROVE  /\ Len(sent) \in Nat /\ Len(unread) \in Nat
           /\ DOMAIN sent = 1..Len(sent) /\ DOMAIN unread = 1..Len(unread)
           /\ f \in Frame /\ HeaderLen + f.length \in Nat \ {0}
           /\ sent' \in Seq(Frame) /\ Len(sent') = Len(sent) + 1
           /\ DOMAIN sent' = 1..(Len(sent) + 1)
           /\ sent'[Len(sent) + 1] = f /\ \A k \in DOMAIN sent : sent'[k] = sent[k]
           /\ unread' \in Seq(Nat \X Nat)
           /\ Len(unread') = Len(unread) + (HeaderLen + f.length)
           /\ DOMAIN unread' = 1..(Len(unread) + (HeaderLen + f.length))
           /\ \A i \in DOMAIN unread : unread'[i] = unread[i]
           /\ \A j \in 1..(HeaderLen + f.length) :
                 unread'[Len(unread) + j] = <<Len(sent) + 1, j>>
<1> DEFINE m == HeaderLen + f.length
           bytes == BytesOf(Len(sent) + 1, f)
           joined == unread \o bytes
<1>1. /\ Len(sent) \in Nat /\ DOMAIN sent = 1..Len(sent) /\ sent \in Seq(Frame)
      /\ Len(unread) \in Nat /\ DOMAIN unread = 1..Len(unread) /\ unread \in Seq(Nat \X Nat)
  BY LenProperties DEF TypeOK, StreamOK
<1>2. f \in Frame /\ m \in Nat \ {0}
  BY WireAssumption, FramesAssumption DEF Frame
<1>3. sent' = Append(sent, f) /\ unread' = joined
  BY DEF ClientSends
<1> HIDE DEF m
<1>4. /\ bytes \in Seq(Nat \X Nat) /\ Len(bytes) = m
      /\ \A j \in 1..m : bytes[j] = <<Len(sent) + 1, j>>
  <2>1. bytes = [i \in 1..m |-> <<Len(sent) + 1, i>>]
    BY DEF BytesOf, m
  <2>2. \A i \in 1..m : <<Len(sent) + 1, i>> \in Nat \X Nat
    BY <1>1, <1>2
  <2>3. bytes \in [1..m -> Nat \X Nat]
    BY <2>1, <2>2
  <2>4. bytes \in Seq(Nat \X Nat)
    BY <1>2, <2>3, IsASeq
  <2>5. Len(bytes) = m
    BY <1>2, <2>3, <2>4, LenProperties
  <2> QED
    BY <2>1, <2>4, <2>5
<1> HIDE DEF bytes
<1>5. /\ joined \in Seq(Nat \X Nat) /\ Len(joined) = Len(unread) + m
      /\ \A i \in 1..(Len(unread) + m) :
            joined[i] = IF i <= Len(unread) THEN unread[i] ELSE bytes[i - Len(unread)]
  BY <1>1, <1>4, ConcatProperties
<1> HIDE DEF joined
<1>6. DOMAIN joined = 1..(Len(unread) + m)
  BY <1>5, LenProperties
<1>7. \A i \in DOMAIN unread : joined[i] = unread[i]
  BY <1>1, <1>2, <1>5
<1>8. \A j \in 1..m : joined[Len(unread) + j] = <<Len(sent) + 1, j>>
  <2> SUFFICES ASSUME NEW j \in 1..m PROVE joined[Len(unread) + j] = <<Len(sent) + 1, j>>
    OBVIOUS
  <2>1. Len(unread) + j \in 1..(Len(unread) + m) /\ ~ (Len(unread) + j <= Len(unread))
        /\ (Len(unread) + j) - Len(unread) = j
    BY <1>1, <1>2
  <2> QED
    BY <1>4, <1>5, <2>1
<1>9. /\ sent' \in Seq(Frame) /\ Len(sent') = Len(sent) + 1
      /\ sent'[Len(sent) + 1] = f /\ \A k \in DOMAIN sent : sent'[k] = sent[k]
  BY <1>1, <1>2, <1>3, AppendProperties
<1>10. DOMAIN sent' = 1..(Len(sent) + 1)
  BY <1>9, LenProperties
<1> QED
  BY <1>1, <1>2, <1>3, <1>5, <1>6, <1>7, <1>8, <1>9, <1>10 DEF m

\* send keeps what was sent whole, in order, and in its place.
LEMMA SendKeepsStream ==
    ASSUME TypeOK, StreamOK, NEW f \in Frames, ClientSends(f)
    PROVE  /\ StreamOK'
           /\ \A i \in 0..Len(unread), k \in Nat : NextIs(i, k) => NextIs(i, k)'
<1> DEFINE m == HeaderLen + f.length
           K == Len(sent) + 1
           L == Len(unread)
<1>1. /\ K \in Nat /\ L \in Nat /\ m \in Nat \ {0}
      /\ DOMAIN sent = 1..Len(sent) /\ Len(sent) \in Nat /\ DOMAIN unread = 1..L
      /\ Len(sent') = K /\ sent'[K] = f /\ \A k \in DOMAIN sent : sent'[k] = sent[k]
      /\ unread' \in Seq(Nat \X Nat) /\ Len(unread') = L + m /\ DOMAIN unread' = 1..(L + m)
      /\ \A i \in 1..L : unread'[i] = unread[i]
      /\ \A j \in 1..m : unread'[L + j] = <<K, j>>
  <2>1. /\ Len(sent) \in Nat /\ L \in Nat /\ m \in Nat \ {0}
        /\ DOMAIN sent = 1..Len(sent) /\ DOMAIN unread = 1..L
    BY SendProps
  <2>2. /\ Len(sent') = K /\ sent'[K] = f /\ \A k \in DOMAIN sent : sent'[k] = sent[k]
        /\ unread' \in Seq(Nat \X Nat) /\ Len(unread') = L + m /\ DOMAIN unread' = 1..(L + m)
    BY SendProps
  <2>3. /\ \A i \in DOMAIN unread : unread'[i] = unread[i]
        /\ \A j \in 1..m : unread'[L + j] = <<K, j>>
    BY SendProps
  <2>4. K \in Nat
    BY <2>1
  <2> QED
    BY <2>1, <2>2, <2>3, <2>4
<1>2. HeaderLen + sent'[K].length = m
  BY <1>1
<1>3. \A i \in 1..L : /\ unread[i][1] \in DOMAIN sent /\ unread[i][2] \in Nat
                      /\ sent'[unread[i][1]] = sent[unread[i][1]]
                      /\ sent[unread[i][1]].length \in Nat
  <2> SUFFICES ASSUME NEW i \in 1..L
               PROVE  /\ unread[i][1] \in DOMAIN sent /\ unread[i][2] \in Nat
                      /\ sent[unread[i][1]].length \in Nat
    BY <1>1
  <2>1. /\ unread[i][1] \in DOMAIN sent
        /\ unread[i][2] \in 1..(HeaderLen + sent[unread[i][1]].length)
    BY <1>1 DEF TypeOK
  <2>2. sent[unread[i][1]] \in Frame
    BY <1>1, <2>1, ElementOfSeq DEF TypeOK
  <2> QED
    BY <2>1, <2>2 DEF Frame
<1> HIDE DEF m, K, L
<1>4. \A i \in 1..(L + m) : i \in 1..L \/ \E j \in 1..m : i = L + j
  <2> SUFFICES ASSUME NEW i \in 1..(L + m), i \notin 1..L PROVE \E j \in 1..m : i = L + j
    OBVIOUS
  <2>1. i - L \in 1..m /\ i = L + (i - L)
    BY <1>1
  <2> QED
    BY <2>1
<1>5. \A i \in 0..L, k \in Nat : NextIs(i, k) => NextIs(i, k)'
  <2> SUFFICES ASSUME NEW i \in 0..L, NEW k \in Nat, NextIs(i, k)
               PROVE  unread'[i + 1] = <<k + 1, 1>>
    <3>1. \A j \in 0..L : j # L + m
      BY <1>1
    <3> QED
      BY <1>1, <3>1 DEF NextIs
  <2>1. CASE i = L
    <3>1. k + 1 = K
      BY <2>1 DEF NextIs, K, L
    <3>2. 1 \in 1..m
      BY <1>1
    <3> QED
      BY <1>1, <2>1, <3>1, <3>2
  <2>2. CASE i # L
    <3>1. i + 1 \in 1..L
      BY <1>1, <2>2
    <3> QED
      BY <1>1, <2>2, <3>1 DEF NextIs, L
  <2> QED
    BY <2>1, <2>2
<1>6. FramesWhole'
  <2> SUFFICES ASSUME NEW i \in 1..(L + m),
                      NEW d \in 0..((HeaderLen + sent'[unread'[i][1]].length) - unread'[i][2])
               PROVE  i + d \in 1..(L + m) /\ unread'[i + d] = <<unread'[i][1], unread'[i][2] + d>>
    BY <1>1 DEF FramesWhole, FrameLen
  <2>1. CASE i \in 1..L
    <3>1. unread'[i] = unread[i] /\ d \in 0..(FrameLen(unread[i][1]) - unread[i][2])
      BY <1>1, <1>3, <2>1 DEF FrameLen
    <3>2. i + d \in 1..L /\ unread[i + d] = <<unread[i][1], unread[i][2] + d>>
      BY <1>1, <2>1, <3>1 DEF StreamOK, FramesWhole
    <3>3. unread'[i + d] = unread[i + d]
      BY <1>1, <3>2
    <3>4. i + d \in 1..(L + m)
      BY <1>1, <3>2
    <3> QED
      BY <3>1, <3>2, <3>3, <3>4
  <2>2. ASSUME NEW j \in 1..m, i = L + j
        PROVE  i + d \in 1..(L + m) /\ unread'[i + d] = <<unread'[i][1], unread'[i][2] + d>>
    <3>1. unread'[i] = <<K, j>>
      BY <1>1, <2>2
    <3>2. d \in 0..(m - j)
      BY <1>2, <3>1
    <3>3. j + d \in 1..m /\ i + d = L + (j + d) /\ i + d \in 1..(L + m)
      BY <1>1, <2>2, <3>2
    <3>4. unread'[L + (j + d)] = <<K, j + d>>
      BY <1>1, <3>3
    <3> QED
      BY <3>1, <3>3, <3>4
  <2> QED
    BY <1>4, <2>1, <2>2
<1>7. FramesInOrder'
  <2> SUFFICES ASSUME NEW i \in 1..(L + m),
                      unread'[i][2] = HeaderLen + sent'[unread'[i][1]].length
               PROVE  IF i = L + m THEN unread'[i][1] = K
                      ELSE unread'[i + 1] = <<unread'[i][1] + 1, 1>>
    BY <1>1 DEF FramesInOrder, FrameLen, NextIs
  <2>1. CASE i \in 1..L
    <3>0. unread'[i] = unread[i] /\ sent'[unread[i][1]] = sent[unread[i][1]]
      BY <1>1, <1>3, <2>1
    <3>1. unread'[i] = unread[i] /\ unread[i][2] = FrameLen(unread[i][1])
      BY <3>0 DEF FrameLen
    <3>2. NextIs(i, unread[i][1])
      BY <1>1, <2>1, <3>1 DEF StreamOK, FramesInOrder
    <3>3. i # L + m
      BY <1>1, <2>1
    <3>4. CASE i = L
      <4>1. unread[i][1] + 1 = K
        BY <3>2, <3>4 DEF NextIs, K, L
      <4>2. unread'[L + 1] = <<K, 1>>
        BY <1>1
      <4> QED
        BY <3>1, <3>3, <3>4, <4>1, <4>2
    <3>5. CASE i # L
      <4>1. i + 1 \in 1..L
        <5>1. L \in Nat
          BY <1>1
        <5> QED
          BY <2>1, <3>5, <5>1
      <4>2. unread[i + 1] = <<unread[i][1] + 1, 1>>
        BY <3>2, <3>5 DEF NextIs, L
      <4> QED
        BY <1>1, <3>1, <3>3, <4>1, <4>2
    <3> QED
      BY <3>4, <3>5
  <2>2. ASSUME NEW j \in 1..m, i = L + j
        PROVE  IF i = L + m THEN unread'[i][1] = K
               ELSE unread'[i + 1] = <<unread'[i][1] + 1, 1>>
    <3>1. unread'[i] = <<K, j>>
      BY <1>1, <2>2
    <3>2. j = m
      BY <1>2, <3>1
    <3> QED
      BY <2>2, <3>1, <3>2
  <2> QED
    BY <1>4, <2>1, <2>2
<1> QED
  BY <1>1, <1>5, <1>6, <1>7 DEF StreamOK, L

\* What the types say of the parts of the state.
LEMMA WireTypes ==
    ASSUME WireInv
    PROVE  /\ Len(sent) \in Nat /\ DOMAIN sent = 1..Len(sent) /\ sent \in Seq(Frame)
           /\ \A k \in DOMAIN sent : sent[k] \in Frame /\ sent[k].length \in Nat /\ sent[k].type \in Type
           /\ Len(unread) \in Nat /\ DOMAIN unread = 1..Len(unread) /\ unread \in Seq(Nat \X Nat)
           /\ unread = <<>> <=> Len(unread) = 0
           /\ Len(handled) \in Nat /\ DOMAIN handled = 1..Len(handled) /\ handled \in Seq(Handled)
           /\ HeaderLen \in Nat /\ HeaderLen > 1
<1>1. /\ sent \in Seq(Frame) /\ unread \in Seq(Nat \X Nat) /\ handled \in Seq(Handled)
  BY DEF WireInv, TypeOK, StreamOK, StepOK
<1>2. /\ Len(sent) \in Nat /\ DOMAIN sent = 1..Len(sent)
      /\ Len(handled) \in Nat /\ DOMAIN handled = 1..Len(handled)
      /\ Len(unread) \in Nat /\ DOMAIN unread = 1..Len(unread)
  BY <1>1, LenProperties
<1>3. \A k \in DOMAIN sent : sent[k] \in Frame
  BY <1>1, <1>2, ElementOfSeq
<1>4. \A k \in DOMAIN sent : sent[k].length \in Nat /\ sent[k].type \in Type
  BY <1>3 DEF Frame
<1>5. unread = <<>> <=> Len(unread) = 0
  BY <1>1, EmptySeq
<1> QED
  BY <1>1, <1>2, <1>3, <1>4, <1>5, WireAssumption

\* The client sends a frame.
LEMMA ClientSendsKeeps ==
    ASSUME WireInv, NEW f \in Frames, ClientSends(f)
    PROVE  WireInv'
<1>1. /\ UNCHANGED <<here, closed, open, pc, logged_in, header, ValidationCode, handled, torn,
                      absent>>
      /\ Len(sent) < MaxFrames
  BY DEF ClientSends, serverVars
<1>2. TypeOK /\ StreamOK /\ StepOK /\ InStep
  BY DEF WireInv
<1>3. /\ StreamOK'
      /\ \A i \in 0..Len(unread), k \in Nat : NextIs(i, k) => NextIs(i, k)'
  BY <1>2, SendKeepsStream
<1>4. /\ Len(sent) \in Nat /\ Len(unread) \in Nat
      /\ DOMAIN sent = 1..Len(sent) /\ DOMAIN unread = 1..Len(unread)
      /\ HeaderLen + f.length \in Nat \ {0}
      /\ sent' \in Seq(Frame) /\ Len(sent') = Len(sent) + 1
      /\ DOMAIN sent' = 1..(Len(sent) + 1)
      /\ sent'[Len(sent) + 1] = f /\ \A k \in DOMAIN sent : sent'[k] = sent[k]
      /\ Len(unread') = Len(unread) + (HeaderLen + f.length)
      /\ DOMAIN unread' = 1..(Len(unread) + (HeaderLen + f.length))
      /\ \A i \in DOMAIN unread : unread'[i] = unread[i]
      /\ \A j \in 1..(HeaderLen + f.length) : unread'[Len(unread) + j] = <<Len(sent) + 1, j>>
  BY <1>2, SendProps
<1>5. \A k \in DOMAIN sent : k \in DOMAIN sent'
  BY <1>4
<1>6. TypeOK'
  <2>1. here' \in 0..Len(unread')
    BY <1>1, <1>2, <1>4 DEF TypeOK
  <2>2. Len(sent') <= MaxFrames
    BY <1>1, <1>4, WireAssumption
  <2>3. ASSUME NEW i \in DOMAIN unread'
        PROVE  /\ unread'[i][1] \in DOMAIN sent'
               /\ unread'[i][2] \in 1..(HeaderLen + sent'[unread'[i][1]].length)
    <3>1. CASE i \in DOMAIN unread
      BY <1>2, <1>4, <1>5, <3>1 DEF TypeOK
    <3>2. CASE i \notin DOMAIN unread
      <4>1. i - Len(unread) \in 1..(HeaderLen + f.length) /\ Len(unread) + (i - Len(unread)) = i
        BY <1>4, <2>3, <3>2
      <4>2. unread'[i] = <<Len(sent) + 1, i - Len(unread)>>
        BY <1>4, <4>1
      <4> QED
        BY <1>4, <4>1, <4>2
    <3> QED
      BY <3>1, <3>2
  <2>4. header' \in [type : Type, length : Nat, frame : {0} \cup DOMAIN sent']
    BY <1>1, <1>2, <1>5 DEF TypeOK
  <2>5. \A i \in DOMAIN handled' : handled'[i].frame \in {0} \cup DOMAIN sent'
    BY <1>1, <1>2, <1>5 DEF TypeOK
  <2> QED
    BY <1>1, <1>2, <1>4, <2>1, <2>2, <2>3, <2>4, <2>5 DEF TypeOK
<1>7. Len(handled) \in Nat /\ DOMAIN handled = 1..Len(handled)
  BY WireTypes
<1>8. StepOK'
  <2>1. ~ torn /\ pc \in {"loop", "header"} => NextIs(0, Len(handled))'
    <3>1. 0 \in 0..Len(unread)
      BY <1>4
    <3>2. ASSUME ~ torn, pc \in {"loop", "header"} PROVE NextIs(0, Len(handled))'
      <4>1. NextIs(0, Len(handled))
        BY <1>2, <3>2 DEF StepOK
      <4> QED
        BY <1>1, <1>3, <1>7, <3>1, <4>1 DEF NextIs
    <3> QED
      BY <3>2
  <2>2. ASSUME ~ torn, pc \in {"receive", "payload"}
        PROVE  LET k == Len(handled) + 1 IN
               /\ k \in DOMAIN sent'
               /\ header = [type |-> sent'[k].type, length |-> sent'[k].length, frame |-> k]
               /\ IF sent'[k].length = 0 THEN NextIs(0, k)'
                  ELSE unread' # <<>> /\ unread'[1] = <<k, HeaderLen + 1>>
    <3> DEFINE k == Len(handled) + 1
    <3>1. /\ k \in DOMAIN sent /\ k \in Nat
          /\ header = [type |-> sent[k].type, length |-> sent[k].length, frame |-> k]
          /\ IF sent[k].length = 0 THEN NextIs(0, k)
             ELSE unread # <<>> /\ unread[1] = <<k, HeaderLen + 1>>
      BY <1>2, <1>7, <2>2 DEF StepOK
    <3>2. sent'[k] = sent[k] /\ k \in DOMAIN sent'
      BY <1>4, <1>5, <3>1
    <3>3. CASE sent[k].length = 0
      <4>1. NextIs(0, k)
        BY <3>1, <3>3
      <4>2. \A j \in Nat : j = k => NextIs(0, j)'
        BY <1>3, <1>4, <4>1
      <4>3. NextIs(0, k)'
        BY <1>1, <3>1, <4>2 DEF NextIs
      <4> QED
        BY <3>1, <3>2, <3>3, <4>3
    <3>4. CASE sent[k].length # 0
      <4>1. Len(unread) # 0
        BY <3>1, <3>4, WireTypes
      <4>2. 1 \in DOMAIN unread /\ Len(unread') # 0
        BY <1>4, <4>1
      <4>3. unread' # <<>>
        BY <4>2
      <4>4. unread'[1] = unread[1]
        BY <1>4, <4>2
      <4> QED
        BY <3>1, <3>2, <3>4, <4>3, <4>4
    <3> QED
      BY <3>3, <3>4
  <2> QED
    BY <1>1, <1>2, <2>1, <2>2 DEF StepOK
<1>9. InStep'
  <2>1. ~ torn => \A i \in DOMAIN handled : handled[i].frame = i /\ i \in 1..Len(handled)
    BY <1>2, <1>7 DEF InStep
  <2>2. ~ torn => \A i \in DOMAIN handled : i \in DOMAIN sent
    <3>1. \A i \in DOMAIN handled : handled[i].frame \in {0} \cup DOMAIN sent
      BY <1>2 DEF TypeOK
    <3>2. \A i \in DOMAIN handled : i # 0
      BY <1>7
    <3> QED
      BY <2>1, <3>1, <3>2
  <2>3. ~ torn => \A i \in DOMAIN handled : sent'[i] = sent[i]
    BY <1>4, <2>2
  <2> QED
    BY <1>1, <1>2, <2>3 DEF InStep, IsLogin, IsText
<1> QED
  BY <1>3, <1>6, <1>8, <1>9 DEF WireInv

\* Steps that neither send, read nor handle: the client closes, bytes arrive, the
\* descriptor is closed, a call begins, or the thread ends.
LEMMA QuietKeeps ==
    ASSUME WireInv, UNCHANGED <<sent, unread, logged_in, header, ValidationCode, handled, torn,
                                absent>>,
           here' \in 0..Len(unread), closed' \in BOOLEAN, open' \in BOOLEAN,
           \/ pc' = pc \/ pc' = "ended"
           \/ pc = "loop" /\ pc' = "header"
           \/ pc = "receive" /\ pc' = "payload"
    PROVE  WireInv'
<1>1. TypeOK'
  BY DEF WireInv, TypeOK
<1>2. StreamOK'
  BY DEF WireInv, StreamOK, FramesWhole, FramesInOrder, FrameLen, NextIs
<1>3. StepOK'
  <2>1. pc' \in {"loop", "header"} => pc \in {"loop", "header"}
    OBVIOUS
  <2>2. pc' \in {"receive", "payload"} => pc \in {"receive", "payload"}
    OBVIOUS
  <2> QED
    BY <2>1, <2>2 DEF WireInv, StepOK, NextIs
<1>4. InStep'
  BY DEF WireInv, InStep
<1> QED
  BY <1>1, <1>2, <1>3, <1>4 DEF WireInv

\* Bytes arrive: they were sent.
LEMMA ArriveKeeps ==
    ASSUME WireInv, Arrive
    PROVE  WireInv'
<1>1. here \in 0..Len(unread) /\ Len(unread) \in Nat /\ closed \in BOOLEAN /\ open \in BOOLEAN
  BY WireTypes DEF WireInv, TypeOK
<1>2. /\ UNCHANGED <<clientVars, unread, open, serverVars>>
      /\ here' \in (here + 1)..Len(unread)
  BY DEF Arrive
<1>3. here' \in 0..Len(unread)
  BY <1>1, <1>2
<1> QED
  BY <1>1, <1>2, <1>3, QuietKeeps DEF clientVars, serverVars

\* Nothing is read: the client closes, the descriptor is closed, a call begins, fails
\* or returns 0, or nothing happens.
LEMMA QuietStepsKeep ==
    ASSUME WireInv,
           \/ ClientCloses \/ Kick \/ CallRecv \/ RecvFails \/ RecvClosed \/ CallRead
           \/ UNCHANGED vars
    PROVE  WireInv'
<1>1. here \in 0..Len(unread) /\ closed \in BOOLEAN /\ open \in BOOLEAN
  BY DEF WireInv, TypeOK
<1>2. CASE ClientCloses \/ Kick \/ UNCHANGED vars
  BY <1>1, <1>2, QuietKeeps DEF ClientCloses, Kick, vars, clientVars, serverVars
<1>3. CASE CallRecv \/ RecvFails \/ RecvClosed \/ CallRead
  BY <1>1, <1>3, QuietKeeps DEF CallRecv, RecvFails, RecvClosed, CallRead, clientVars
<1> QED
  BY <1>2, <1>3

\* The bytes behind a place inside a frame: the last one is where it is counted to be.
LEMMA BytesAhead ==
    ASSUME WireInv, NEW k \in DOMAIN sent, NEW b \in Nat, NEW d \in Nat,
           unread # <<>>, unread[1] = <<k, b>>, b + d <= FrameLen(k)
    PROVE  /\ 1 + d \in 1..Len(unread) /\ unread[1 + d] = <<k, b + d>>
           /\ b + d = FrameLen(k) => NextIs(1 + d, k)
<1>1. /\ Len(unread) \in Nat /\ DOMAIN unread = 1..Len(unread) /\ Len(unread) # 0
      /\ FrameLen(k) \in Nat
  BY WireTypes DEF FrameLen
<1>2. 1 \in DOMAIN unread /\ d \in 0..(FrameLen(k) - b)
  BY <1>1
<1>3. 1 + d \in DOMAIN unread /\ unread[1 + d] = <<k, b + d>>
  BY <1>2 DEF WireInv, StreamOK, FramesWhole
<1>4. b + d = FrameLen(k) => NextIs(1 + d, k)
  <2>1. \A i \in DOMAIN unread :
            unread[i][2] = FrameLen(unread[i][1]) => NextIs(i, unread[i][1])
    BY DEF WireInv, StreamOK, FramesInOrder
  <2>2. unread[1 + d][1] = k /\ unread[1 + d][2] = b + d
    BY <1>3
  <2> QED
    BY <1>3, <2>1, <2>2
<1> QED
  BY <1>1, <1>3, <1>4

\* Reading keeps the types of what is left.
LEMMA TakeTypes ==
    ASSUME WireInv, NEW n \in 0..Len(unread), n <= here, Take(n), UNCHANGED sent
    PROVE  \A i \in DOMAIN unread' :
              LET k == unread'[i][1] IN
              k \in DOMAIN sent' /\ unread'[i][2] \in 1..(HeaderLen + sent'[k].length)
BY TakeKeeps DEF WireInv, TypeOK

\* recv reads a header.
LEMMA RecvHeaderKeeps ==
    ASSUME WireInv, RecvHeader
    PROVE  WireInv'
<1>1. PICK n \in Readable(HeaderLen) \ {0} :
          LET k == Head(unread)[1] IN
          /\ IF Head(unread)[2] = 1
             THEN header' = [type |-> sent[k].type,
                             length |-> IF n = HeaderLen THEN sent[k].length ELSE 0,
                             frame |-> IF n = HeaderLen THEN k ELSE 0]
             ELSE header' \in [type : Type, length : 0..MaxClaim, frame : {0}]
          /\ torn' = (torn \/ n < HeaderLen)
          /\ Take(n)
  BY DEF RecvHeader
<1>2. /\ pc = "header" /\ pc' = "receive"
      /\ UNCHANGED <<sent, closed, open, logged_in, ValidationCode, handled, absent>>
  BY DEF RecvHeader, clientVars
<1>3. n \in 1..HeaderLen /\ n \in 0..Len(unread) /\ n <= here /\ Len(unread) # 0 /\ unread # <<>>
  <2>1. n \in 0..HeaderLen /\ n # 0 /\ n \in 0..Len(unread) /\ n <= here /\ HeaderLen \in Nat
    BY <1>1, ReadableProps, WireAssumption DEF WireInv, StreamOK
  <2> QED
    BY <2>1, WireTypes
<1>4. /\ Len(unread) \in Nat /\ DOMAIN unread = 1..Len(unread) /\ 1 \in DOMAIN unread
      /\ Head(unread) = unread[1]
      /\ HeaderLen \in Nat /\ HeaderLen > 1
  BY <1>3, WireTypes
<1> DEFINE k == unread[1][1]
<1>5. k \in DOMAIN sent /\ sent[k].length \in Nat /\ sent[k].type \in Type
  BY <1>4, WireTypes DEF WireInv, TypeOK
<1>6. /\ StreamOK' /\ here' \in 0..Len(unread')
      /\ DOMAIN unread' = 1..(Len(unread) - n) /\ Len(unread') = Len(unread) - n
      /\ \A i \in DOMAIN unread' : unread'[i] = unread[i + n]
      /\ \A j : NextIs(n, j) => NextIs(0, j)'
  BY <1>1, <1>2, <1>3, TakeKeeps DEF WireInv
<1>7. header' \in [type : Type, length : Nat, frame : {0} \cup DOMAIN sent]
  <2>1. CASE unread[1][2] = 1
    BY <1>1, <1>4, <1>5, <2>1
  <2>2. CASE unread[1][2] # 1
    BY <1>1, <1>4, <2>2, WireAssumption
  <2> QED
    BY <2>1, <2>2
<1>8. TypeOK'
  BY <1>1, <1>2, <1>3, <1>6, <1>7, TakeTypes DEF WireInv, TypeOK
<1>9. InStep'
  BY <1>1, <1>2 DEF WireInv, InStep
<1>10. StepOK'
  <2>1. ASSUME ~ torn'
        PROVE  /\ Len(handled) + 1 = k
               /\ header' = [type |-> sent[k].type, length |-> sent[k].length, frame |-> k]
               /\ IF sent[k].length = 0 THEN \A j : j = k => NextIs(0, j)'
                  ELSE unread' # <<>> /\ unread'[1] = <<k, HeaderLen + 1>>
    <3>1. ~ torn /\ n = HeaderLen
      <4>1. torn' = (torn \/ n < HeaderLen)
        BY <1>1
      <4>2. ~ torn /\ ~ (n < HeaderLen)
        BY <2>1, <4>1, Zenon
      <4> QED
        BY <1>3, <1>4, <4>2
    <3>2. unread[1] = <<Len(handled) + 1, 1>>
      <4>1. NextIs(0, Len(handled))
        BY <1>2, <3>1 DEF WireInv, StepOK
      <4> QED
        BY <1>3, <1>4, <4>1 DEF NextIs
    <3>3. Len(handled) + 1 = k /\ unread[1] = <<k, 1>>
      BY <3>2
    <3>4. header' = [type |-> sent[k].type, length |-> sent[k].length, frame |-> k]
      BY <1>1, <1>4, <3>1, <3>2
    <3> HIDE DEF k
    <3>5. CASE sent[k].length = 0
      <4>1. /\ 1 + (HeaderLen - 1) = FrameLen(k) /\ 1 + (HeaderLen - 1) <= FrameLen(k)
            /\ HeaderLen - 1 \in Nat /\ 1 + (HeaderLen - 1) = n
        BY <1>4, <3>1, <3>5 DEF FrameLen
      <4>2. NextIs(1 + (HeaderLen - 1), k)
        BY <1>3, <1>4, <1>5, <3>3, <4>1, BytesAhead
      <4>3. NextIs(n, k)
        BY <4>1, <4>2
      <4>4. \A j : j = k => NextIs(0, j)'
        BY <1>6, <4>3
      <4> QED
        BY <3>3, <3>4, <3>5, <4>4
    <3>6. CASE sent[k].length # 0
      <4>1. 1 + HeaderLen <= FrameLen(k)
        BY <1>4, <1>5, <3>6 DEF FrameLen
      <4>2. 1 + HeaderLen \in 1..Len(unread) /\ unread[1 + HeaderLen] = <<k, 1 + HeaderLen>>
        BY <1>3, <1>4, <1>5, <3>3, <4>1, BytesAhead
      <4>3. 1 \in DOMAIN unread'
        BY <1>4, <1>6, <3>1, <4>2
      <4>4. unread'[1] = unread[1 + HeaderLen] /\ 1 + HeaderLen = HeaderLen + 1
        BY <1>4, <1>6, <3>1, <4>3
      <4>5. unread' # <<>>
        BY <4>3
      <4> QED
        BY <3>3, <3>4, <3>6, <4>2, <4>4, <4>5
    <3> QED
      BY <3>5, <3>6
  <2>2. handled' \in Seq(Handled)
    BY <1>2 DEF WireInv, StepOK
  <2> HIDE DEF k
  <2>3. ASSUME ~ torn'
        PROVE  LET h == Len(handled') + 1 IN
               /\ h \in DOMAIN sent'
               /\ header' = [type |-> sent'[h].type, length |-> sent'[h].length, frame |-> h]
               /\ IF sent'[h].length = 0 THEN \A j : j = h => NextIs(0, j)'
                  ELSE unread' # <<>> /\ unread'[1] = <<h, HeaderLen + 1>>
    BY <1>2, <1>5, <2>1, <2>3
  <2> QED
    BY <1>2, <2>2, <2>3 DEF StepOK, NextIs
<1> QED
  BY <1>6, <1>8, <1>9, <1>10 DEF WireInv

\* What a frame is to be handled as.
CodeFits(code, f) ==
    /\ code = "login" <=> IsLogin(f)
    /\ code = "command" <=> IsText(f) /\ f.content.slash
    /\ code = "message" <=> IsText(f) /\ ~ f.content.slash

\* network_Receive returns: in step, the frame it was in is the next one handled.
LEMMA HandleKeeps ==
    ASSUME WireInv, pc \in {"receive", "payload"}, absent' \in BOOLEAN,
           NEW code \in Code, NEW in_step \in BOOLEAN,
           Handle(code, in_step), StreamOK', here' \in 0..Len(unread'),
           \A i \in DOMAIN unread' :
              LET k == unread'[i][1] IN
              k \in DOMAIN sent' /\ unread'[i][2] \in 1..(HeaderLen + sent'[k].length),
           in_step => /\ ~ torn
                      /\ \A j : j = Len(handled) + 1 => NextIs(0, j)'
                      /\ CodeFits(code, sent[Len(handled) + 1])
    PROVE  WireInv'
<1> DEFINE k == Len(handled) + 1
           entry == [code |-> code, frame |-> header.frame]
<1>1. /\ ValidationCode' = code /\ torn' = ~ in_step /\ pc' = "loop" /\ header' = NoHeader
      /\ handled' = IF in_step THEN Append(handled, entry) ELSE handled
      /\ sent' = sent /\ closed' = closed /\ open' = open /\ logged_in' \in BOOLEAN
  BY DEF Handle, clientVars, WireInv, TypeOK
<1>2. /\ handled \in Seq(Handled) /\ Len(handled) \in Nat /\ DOMAIN handled = 1..Len(handled)
  BY WireTypes
<1>3. entry \in Handled
  BY DEF Handled, WireInv, TypeOK
<1>4. /\ torn' \in BOOLEAN /\ header' \in [type : Type, length : Nat, frame : {0} \cup DOMAIN sent]
  BY <1>1 DEF NoHeader, Type
<1>5. CASE ~ in_step
  <2>1. handled' = handled /\ torn'
    BY <1>1, <1>5
  <2>2. TypeOK'
    BY <1>1, <1>4, <2>1 DEF WireInv, TypeOK
  <2>3. StepOK' /\ InStep'
    BY <2>1 DEF WireInv, StepOK, InStep
  <2> QED
    BY <2>2, <2>3 DEF WireInv
<1>6. CASE in_step
  <2>1. ~ torn /\ CodeFits(code, sent[k]) /\ \A j : j = k => NextIs(0, j)'
    BY <1>6
  <2>2. k \in DOMAIN sent /\ header.frame = k
    BY <2>1 DEF WireInv, StepOK
  <2> HIDE DEF entry
  <2>3. handled' = Append(handled, entry)
    BY <1>1, <1>6
  <2>4. /\ handled' \in Seq(Handled) /\ Len(handled') = k
        /\ handled'[k] = entry /\ \A i \in 1..Len(handled) : handled'[i] = handled[i]
    BY <1>2, <1>3, <2>3, AppendProperties
  <2>5. DOMAIN handled' = 1..k
    BY <2>4, LenProperties
  <2>6. \A i \in 1..k : i \in 1..Len(handled) \/ i = k
    BY <1>2
  <2>7. entry.frame = k /\ entry.code = code
    BY <2>2 DEF entry
  <2> HIDE DEF k
  <2>8. TypeOK'
    <3>1. \A i \in DOMAIN handled' : handled'[i].frame \in {0} \cup DOMAIN sent'
      BY <1>1, <1>2, <2>2, <2>4, <2>5, <2>6, <2>7 DEF WireInv, TypeOK
    <3> QED
      BY <1>1, <1>4, <3>1 DEF WireInv, TypeOK
  <2>9. StepOK'
    <3>1. NextIs(0, Len(handled))'
      BY <2>1, <2>4 DEF NextIs
    <3> QED
      BY <1>1, <2>4, <3>1 DEF StepOK
  <2>10. InStep'
    <3> SUFFICES ASSUME NEW i \in 1..k
                 PROVE  handled'[i].frame = i /\ CodeFits(handled'[i].code, sent[i])
      BY <1>1, <2>5 DEF InStep, CodeFits
    <3>1. CASE i \in 1..Len(handled)
      BY <1>2, <2>1, <2>4, <3>1 DEF WireInv, InStep, CodeFits
    <3>2. CASE i = k
      BY <2>1, <2>4, <2>7, <3>2
    <3> QED
      BY <2>6, <3>1, <3>2
  <2> QED
    BY <2>8, <2>9, <2>10 DEF WireInv
<1> QED
  BY <1>5, <1>6

\* A length of 0: nothing is read, and the frame was its header.
LEMMA InvalidLengthKeeps ==
    ASSUME WireInv, InvalidLength
    PROVE  WireInv'
<1>1. /\ pc = "receive" /\ header.length = 0 /\ Handle("invalid_length", ~ torn)
      /\ UNCHANGED <<unread, here>> /\ sent' = sent /\ absent' \in BOOLEAN
  BY DEF InvalidLength, Handle, clientVars, WireInv, TypeOK
<1>2. /\ StreamOK' /\ here' \in 0..Len(unread')
      /\ \A i \in DOMAIN unread' :
              LET k == unread'[i][1] IN
              k \in DOMAIN sent' /\ unread'[i][2] \in 1..(HeaderLen + sent'[k].length)
  BY <1>1 DEF WireInv, TypeOK, StreamOK, FramesWhole, FramesInOrder, FrameLen, NextIs
<1>3. ASSUME ~ torn
      PROVE  /\ \A j : j = Len(handled) + 1 => NextIs(0, j)'
             /\ CodeFits("invalid_length", sent[Len(handled) + 1])
  <2> DEFINE k == Len(handled) + 1
  <2>1. k \in DOMAIN sent /\ sent[k].length = 0 /\ NextIs(0, k)
    BY <1>1, <1>3 DEF WireInv, StepOK
  <2> HIDE DEF k
  <2>2. \A j : j = k => NextIs(0, j)'
    BY <1>1, <2>1 DEF NextIs
  <2>3. 0 - LoginFixed \notin 1..NameCap
    BY WireAssumption
  <2>4. CodeFits("invalid_length", sent[k])
    BY <2>1, <2>3 DEF CodeFits, IsLogin, IsText
  <2> QED
    BY <2>2, <2>4 DEF k
<1>4. "invalid_length" \in Code /\ (~ torn) \in BOOLEAN
  BY DEF Code
<1> QED
  BY <1>1, <1>2, <1>3, <1>4, HandleKeeps

\* A type that is not known, or a read that fails: from here on the server is out of
\* step.
LEMMA NothingReadKeeps ==
    ASSUME WireInv, UnknownType \/ ReadFails
    PROVE  WireInv'
<1>1. /\ pc = "receive" /\ \E code \in Code : Handle(code, FALSE)
      /\ UNCHANGED <<unread, here>> /\ sent' = sent /\ absent' \in BOOLEAN
  BY DEF UnknownType, ReadFails, Handle, clientVars, Code, WireInv, TypeOK
<1>2. /\ StreamOK' /\ here' \in 0..Len(unread')
      /\ \A i \in DOMAIN unread' :
              LET k == unread'[i][1] IN
              k \in DOMAIN sent' /\ unread'[i][2] \in 1..(HeaderLen + sent'[k].length)
  BY <1>1 DEF WireInv, TypeOK, StreamOK, FramesWhole, FramesInOrder, FrameLen, NextIs
<1> QED
  BY <1>1, <1>2, HandleKeeps

\* What is said of n bytes of a payload, when the frame is as long as its header claims.
LEMMA VerdictsFit ==
    ASSUME NEW f \in Frame, f.length > 0
    PROVE  /\ f.type = "login" => CodeFits(LoginVerdict(f.length, f.content), f)
           /\ f.type = "text" => CodeFits(TextVerdict(f.length, f.content), f)
<1>1. f.length \in Nat /\ LoginFixed \in Nat /\ NameCap \in Nat
  BY WireAssumption DEF Frame
<1>2. f.length - LoginFixed \in 1..NameCap
        <=> ~ (f.length <= LoginFixed \/ f.length > LoginFixed + NameCap)
  BY <1>1
<1>3. f.type = "login" => CodeFits(LoginVerdict(f.length, f.content), f)
  BY <1>2 DEF CodeFits, LoginVerdict, IsLogin, IsText
<1>4. f.type = "text" => CodeFits(TextVerdict(f.length, f.content), f)
  BY DEF CodeFits, TextVerdict, IsLogin, IsText
<1> QED
  BY <1>3, <1>4

\* read reads a payload.
LEMMA ReadPayloadKeeps ==
    ASSUME WireInv, CallsOK, NEW type \in {"login", "text"}, ReadPayload(type)
    PROVE  WireInv'
<1> DEFINE Verdict(m, c) == IF type = "login" THEN LoginVerdict(m, c) ELSE TextVerdict(m, c)
<1>1. PICK n \in Readable(header.length),
           c \in IF header.frame = 0 THEN Content ELSE {sent[header.frame].content} :
        Handle(Verdict(n, c), ~ torn /\ n = header.length) /\ Take(n)
  BY DEF ReadPayload
<1>2. /\ pc = "payload" /\ header.length > 0 /\ header.type = type /\ sent' = sent
      /\ absent' \in BOOLEAN
  BY DEF ReadPayload, Handle, clientVars, CallsOK, WireInv, TypeOK
<1>3. n \in 0..Len(unread) /\ n <= here /\ n \in Nat
  <2>1. header.length \in Nat
    BY DEF WireInv, TypeOK
  <2> QED
    BY <1>1, <2>1, ReadableProps DEF WireInv, StreamOK
<1>4. /\ StreamOK' /\ here' \in 0..Len(unread')
      /\ \A j : NextIs(n, j) => NextIs(0, j)'
  BY <1>1, <1>2, <1>3, TakeKeeps DEF WireInv
<1>5. \A i \in DOMAIN unread' :
              LET k == unread'[i][1] IN
              k \in DOMAIN sent' /\ unread'[i][2] \in 1..(HeaderLen + sent'[k].length)
  BY <1>1, <1>2, <1>3, TakeTypes
<1>6. Verdict(n, c) \in Code
  BY DEF LoginVerdict, TextVerdict, Code
<1>7. ASSUME ~ torn, n = header.length
      PROVE  /\ \A j : j = Len(handled) + 1 => NextIs(0, j)'
             /\ CodeFits(Verdict(n, c), sent[Len(handled) + 1])
  <2> DEFINE k == Len(handled) + 1
  <2>1. /\ k \in DOMAIN sent /\ k # 0
        /\ header = [type |-> sent[k].type, length |-> sent[k].length, frame |-> k]
        /\ IF sent[k].length = 0 THEN NextIs(0, k)
           ELSE unread # <<>> /\ unread[1] = <<k, HeaderLen + 1>>
    BY <1>2, <1>7, WireTypes DEF WireInv, StepOK
  <2> HIDE DEF k
  <2>2. /\ sent[k] \in Frame /\ sent[k].length = n /\ n > 0 /\ sent[k].type = type
        /\ c = sent[k].content /\ unread # <<>> /\ unread[1] = <<k, HeaderLen + 1>>
    BY <1>1, <1>2, <1>3, <1>7, <2>1, WireTypes
  <2>3. /\ (HeaderLen + 1) + (n - 1) = FrameLen(k) /\ (HeaderLen + 1) + (n - 1) <= FrameLen(k)
        /\ n - 1 \in Nat /\ 1 + (n - 1) = n /\ HeaderLen + 1 \in Nat
    <3>1. FrameLen(k) = HeaderLen + n /\ HeaderLen \in Nat
      BY <2>2, WireAssumption DEF FrameLen
    <3> QED
      BY <1>3, <2>2, <3>1
  <2>4. NextIs(1 + (n - 1), k)
    BY <2>1, <2>2, <2>3, BytesAhead
  <2>5. NextIs(n, k)
    BY <2>3, <2>4
  <2>6. \A j : j = k => NextIs(0, j)'
    BY <1>4, <2>5
  <2>7. CodeFits(Verdict(n, c), sent[k])
    BY <2>2, VerdictsFit
  <2> QED
    BY <2>6, <2>7 DEF k
<1>8. (~ torn /\ n = header.length) \in BOOLEAN
  OBVIOUS
<1> HIDE DEF Verdict
<1> QED
  BY <1>1, <1>2, <1>4, <1>5, <1>6, <1>7, <1>8, HandleKeeps

\* At first nothing has been sent.
LEMMA WireInit == Init => WireInv
<1> SUFFICES ASSUME Init PROVE WireInv
  OBVIOUS
<1>1. /\ sent = <<>> /\ unread = <<>> /\ handled = <<>> /\ here = 0 /\ ~ torn /\ torn \in BOOLEAN
      /\ closed \in BOOLEAN /\ pc = "loop" /\ header = NoHeader /\ ValidationCode = "none"
      /\ open \in BOOLEAN /\ logged_in \in BOOLEAN /\ ~ absent /\ absent \in BOOLEAN
  BY DEF Init
<1>2. /\ Len(<<>>) = 0 /\ DOMAIN <<>> = {} /\ <<>> \in Seq(Frame) /\ <<>> \in Seq(Nat \X Nat)
      /\ <<>> \in Seq(Handled)
  OBVIOUS
<1>3. TypeOK
  BY <1>1, <1>2, WireAssumption DEF TypeOK, NoHeader, Type, Code
<1>4. StreamOK
  BY <1>1, <1>2 DEF StreamOK, FramesWhole, FramesInOrder
<1>5. StepOK
  BY <1>1, <1>2 DEF StepOK, NextIs
<1>6. InStep
  BY <1>1, <1>2 DEF InStep
<1> QED
  BY <1>3, <1>4, <1>5, <1>6 DEF WireInv

\* Every step keeps the invariant.
LEMMA WireStep == WireInv /\ CallsOK /\ [Next]_vars => WireInv'
<1> SUFFICES ASSUME WireInv, CallsOK, [Next]_vars PROVE WireInv'
  OBVIOUS
<1>1. CASE \E f \in Frames : ClientSends(f)
  BY <1>1, ClientSendsKeeps
<1>2. CASE Arrive
  BY <1>2, ArriveKeeps
<1>3. CASE \/ ClientCloses \/ Kick \/ CallRecv \/ RecvFails \/ RecvClosed \/ CallRead
           \/ UNCHANGED vars
  BY <1>3, QuietStepsKeep
<1>4. CASE RecvHeader
  BY <1>4, RecvHeaderKeeps
<1>5. CASE InvalidLength \/ UnknownType \/ ReadFails
  BY <1>5, InvalidLengthKeeps, NothingReadKeeps
<1>6. CASE ReadPayload("login") \/ ReadPayload("text")
  BY <1>6, ReadPayloadKeeps
<1> QED
  BY <1>1, <1>2, <1>3, <1>4, <1>5, <1>6 DEF Next, Server

\* Where the client has closed and everything was read, a waiting call returns 0.
LEMMA NothingToRead ==
    ASSUME TypeOK, unread = <<>>, NEW asked \in Nat
    PROVE  Readable(asked) \subseteq {0}
<1>1. here = 0
  BY DEF TypeOK
<1> QED
  BY <1>1 DEF Readable

\* read of a waiting call: what it takes, and that nothing is there if it takes nothing.
LEMMA ReadTakes ==
    ASSUME WireInv, CallsOK, NEW type \in {"login", "text"}, ReadPayload(type)
    PROVE  /\ pc' = "loop" /\ UNCHANGED <<clientVars, open>>
           /\ absent' => absent \/ (closed /\ unread' = <<>>)
           /\ unread = <<>> => unread' = <<>>
<1>1. /\ pc = "payload" /\ pc' = "loop" /\ UNCHANGED <<clientVars, open>>
      /\ header.length > 0 /\ header.length \in Nat
  BY DEF ReadPayload, Handle, CallsOK, WireInv, TypeOK
<1>2. PICK n \in Readable(header.length) :
          Take(n) /\ absent' = (absent \/ (type = "text" /\ n = 0))
  BY DEF ReadPayload
<1>3. n \in 0..Len(unread) /\ n <= here /\ (n = 0 => closed /\ unread = <<>>)
  BY <1>1, <1>2, ReadableProps DEF WireInv, StreamOK
<1>4. unread = <<>> => unread' = <<>>
  <2>1. unread' \in Seq(Nat \X Nat) /\ Len(unread') = Len(unread) - n /\ Len(unread) \in Nat
    BY <1>1, <1>2, <1>3, TakeKeeps, WireTypes DEF WireInv, StreamOK, clientVars
  <2>2. unread = <<>> => Len(unread) = 0
    OBVIOUS
  <2>3. ASSUME Len(unread) = 0 PROVE Len(unread') = 0
    <3>1. n = 0
      BY <1>3, <2>3
    <3>2. Len(unread') = 0 - 0
      BY <2>1, <2>3, <3>1
    <3> QED
      BY <3>2
  <2> QED
    BY <2>1, <2>2, <2>3, EmptySeq
<1> QED
  BY <1>1, <1>2, <1>3, <1>4

\* A text of which nothing was read comes at the end of the stream, or after a kick.
LEMMA CallsStep == WireInv /\ CallsOK /\ [Next]_vars => CallsOK'
<1> SUFFICES ASSUME WireInv, CallsOK, [Next]_vars PROVE CallsOK'
  OBVIOUS
<1> USE DEF clientVars, serverVars
<1>1. ASSUME NEW f \in Frames, ClientSends(f) PROVE CallsOK'
  BY <1>1 DEF ClientSends, CallsOK
<1>2. CASE ClientCloses \/ Arrive \/ Kick \/ UNCHANGED vars
  BY <1>2 DEF ClientCloses, Arrive, Kick, CallsOK, vars
<1>3. CASE CallRecv \/ RecvFails \/ RecvClosed
  BY <1>3 DEF CallRecv, RecvFails, RecvClosed, CallsOK
<1>4. CASE RecvHeader
  <2>1. ~ absent
    <3> SUFFICES ASSUME absent PROVE FALSE
      OBVIOUS
    <3>1. pc = "header" /\ unread = <<>>
      BY <1>4 DEF RecvHeader, CallsOK
    <3>2. Readable(HeaderLen) \ {0} = {}
      BY <3>1, NothingToRead, WireAssumption DEF WireInv
    <3> QED
      BY <1>4, <3>2 DEF RecvHeader
  <2> QED
    BY <1>4, <2>1 DEF RecvHeader, CallsOK
<1>5. CASE InvalidLength \/ UnknownType
  BY <1>5 DEF InvalidLength, UnknownType, Handle, CallsOK
<1>6. CASE CallRead
  BY <1>6 DEF CallRead, CallsOK
<1>7. CASE ReadFails
  BY <1>7 DEF ReadFails, Handle, CallsOK
<1>8. ASSUME NEW type \in {"login", "text"}, ReadPayload(type) PROVE CallsOK'
  <2>1. /\ pc' = "loop" /\ closed' = closed /\ open' = open
        /\ absent' => absent \/ (closed /\ unread' = <<>>)
        /\ unread = <<>> => unread' = <<>>
    BY <1>8, ReadTakes
  <2> QED
    BY <2>1 DEF CallsOK
<1> QED
  BY <1>1, <1>2, <1>3, <1>4, <1>5, <1>6, <1>7, <1>8 DEF Next, Server

\* The invariant holds in every state.
LEMMA WireAlways == Spec => [](WireInv /\ CallsOK)
<1>1. Init => WireInv /\ CallsOK
  BY WireInit DEF Init, CallsOK
<1>2. (WireInv /\ CallsOK) /\ [Next]_vars => (WireInv /\ CallsOK)'
  BY WireStep, CallsStep
<1> QED
  BY <1>1, <1>2, PTL DEF Spec

\* Types; no byte is read that was not sent, and none comes to the server twice.
THEOREM WireTypeCorrect == Spec => []TypeOK
<1>1. WireInv => TypeOK
  BY DEF WireInv
<1> QED
  BY <1>1, WireAlways, PTL

\* For frames of any lengths, and headers and name fields of any size: as long as each
\* recv and read gets what it asks for and no type is unknown, each frame is handled
\* once, in order, for what it is.
THEOREM StaysInStep == Spec => []InStep
<1>1. WireInv => InStep
  BY DEF WireInv
<1> QED
  BY <1>1, WireAlways, PTL

\* For texts of every length the buffer has room for: a text of which nothing was read
\* passes the overwritten verdict of network.c:41 only at the end of a stream or after
\* a kick, and the thread receives no header after it.
THEOREM NothingFollowsAnEmptyText == Spec => EmptyTextIsLast
<1>1. ASSUME WireInv, CallsOK, [Next]_vars, absent
      PROVE  (~ open \/ (closed /\ unread = <<>>)) /\ pc' # "receive"
  <2> USE DEF clientVars, serverVars
  <2>1. /\ ~ open \/ (closed /\ unread = <<>>)
        /\ pc \in {"loop", "header", "ended"} /\ (pc = "header" => unread = <<>>)
    BY <1>1 DEF CallsOK
  <2>2. ASSUME NEW f, ClientSends(f) PROVE pc' = pc
    BY <2>2 DEF ClientSends
  <2>3. CASE ClientCloses \/ Arrive \/ Kick \/ UNCHANGED vars
    BY <2>1, <2>3 DEF ClientCloses, Arrive, Kick, vars
  <2>4. CASE CallRecv \/ RecvFails \/ RecvClosed
    BY <2>1, <2>4 DEF CallRecv, RecvFails, RecvClosed
  <2>5. CASE RecvHeader
    <3>1. Readable(HeaderLen) \ {0} = {}
      BY <1>1, <2>1, <2>5, NothingToRead, WireAssumption DEF WireInv, RecvHeader
    <3> QED
      BY <2>5, <3>1 DEF RecvHeader
  <2>6. CASE InvalidLength \/ UnknownType \/ CallRead \/ ReadFails
    BY <2>1, <2>6 DEF InvalidLength, UnknownType, CallRead, ReadFails
  <2>7. ASSUME NEW type, ReadPayload(type) PROVE FALSE
    BY <2>1, <2>7 DEF ReadPayload
  <2> QED
    BY <1>1, <2>1, <2>2, <2>3, <2>4, <2>5, <2>6, <2>7 DEF Next, Server
<1> QED
  BY <1>1, WireAlways, PTL DEF Spec, EmptyTextIsLast
================================================================================
