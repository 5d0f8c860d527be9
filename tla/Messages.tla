-------------------------------- MODULE Messages --------------------------------
(***************************************************************************)
(* What the build_ functions of network.c leave in the memory of a message. *)
(* The payloads of a CombinedMessage are a union: a message is built over   *)
(* the one that was received, or over the one that was built before, and    *)
(* only some functions clear it first.  The functions are operators from    *)
(* memory to memory, for one thread that has msg for itself; headers of     *)
(* clients that claim more than the buffers hold are left out, as in Wire.  *)
(***************************************************************************)
EXTENDS Bytes

NET_NAME_LEN == 31
NET_TEXT_LEN == 512

\* Places in the union: it is packed, and Server2Client is its longest member, with
\* 8 bytes of time, the sender and the text.
LoginName == 5
AddedName == 8
RemovedName == 9
OriginalSender == 8
ServerText == 40
Place == 0..551

Bytes(n) == [0..(n - 1) -> Byte]
Least(m, n) == IF m < n THEN m ELSE n

\* memset and memcpy
Cleared == [i \in Place |-> NUL]
Write(mem, at, s, n) ==
    [i \in Place |-> IF i \in at..(at + n - 1) THEN s[i - at] ELSE mem[i]]

\* strncpy of a string of length len, with the size n: NULs behind a shorter one,
\* nothing behind a longer one
StrNCpy(mem, at, s, len, n) ==
    [i \in Place |-> IF i \notin at..(at + n - 1) THEN mem[i]
                     ELSE IF i - at < len THEN s[i - at] ELSE NUL]

\* A reader finds the first n characters of s at a place, and a NUL behind them.
ReadsAs(mem, at, s, n) ==
    /\ \A i \in 0..(n - 1) : mem[at + i] = s[i]
    /\ mem[at + n] = NUL

IsStrLen(mem, at, n) ==
    n \in Nat /\ mem[at + n] = NUL /\ \A i \in 0..(n - 1) : mem[at + i] # NUL
StrLen(mem, at) == CHOOSE n \in Nat : IsStrLen(mem, at, n)

-----------------------------------------------------------------------------
(* The functions; a length is what they put into the header.               *)

\* magic and version are the first five bytes; strcpy copies the NUL as well.
build_login_response(head, server, len) ==
    [payload |-> StrNCpy(Write(Cleared, 0, head, LoginName), LoginName, server, len, len + 1),
     length |-> LoginName + len]

build_User_Added(mem, time, name, len, size) ==
    LET built == StrNCpy(Write(mem, 0, time, 8), AddedName, name, len, size) IN
    [payload |-> built, length |-> AddedName + StrLen(built, AddedName)]

build_User_Removed(mem, time, name, len, size) ==
    [payload |-> StrNCpy(Write(mem, 0, time, RemovedName), RemovedName, name, len, size),
     length |-> RemovedName + size]

\* The text, of which tlen characters come before a NUL, is moved out of the way,
\* and its old place is cleared.
build_Server_to_client(mem, time, sender, len, size, tlen, msg_length) ==
    LET text == [i \in 0..(NET_TEXT_LEN - 1) |-> mem[i]]
        blank == Write(mem, 0, Cleared, NET_TEXT_LEN)
        signed == StrNCpy(Write(blank, 0, time, 8), OriginalSender, sender, len, size) IN
    [payload |-> StrNCpy(signed, ServerText, text, tlen, msg_length),
     length |-> ServerText + msg_length]

\* Also build_Server_response_Special, with the syntax of a command as the sender.
\* Neither string is copied with its NUL.
build_Server_response(mem, time, sender, len, text, tlen) ==
    LET signed == StrNCpy(Write(mem, 0, time, 8), OriginalSender, sender, len, len) IN
    [payload |-> StrNCpy(signed, ServerText, text, tlen, tlen),
     length |-> ServerText + tlen]

\* What network_Receive has read into a cleared message: n bytes of a text.
Received(text, n) == Write(Cleared, 0, text, n)
=================================================================================
