--------------------------------- MODULE Bytes ---------------------------------
(***************************************************************************)
(* The conversions of network.c and util.c that are written twice: 64-bit  *)
(* integers between host and network order, and the check of a name.  A     *)
(* word is the function from the place of a byte, the least significant     *)
(* first, to the byte; the host is little-endian, as the build is, so that  *)
(* this is also its order in memory.                                        *)
(***************************************************************************)
EXTENDS Integers

Byte == 0..255
NUL == 0
Word(n) == [0..(n - 1) -> Byte]

\* htonl and ntohl on a little-endian host
Swap32(w) == [i \in 0..3 |-> w[3 - i]]

Low(v) == [i \in 0..3 |-> v[i]]
High(v) == [i \in 0..3 |-> v[i + 4]]
\* (uint64_t)hi << 32 | lo
Join(hi, lo) == [i \in 0..7 |-> IF i < 4 THEN lo[i] ELSE hi[i - 4]]

htonll(v) == Join(Swap32(Low(v)), Swap32(High(v)))
ntohll(v) == Join(Swap32(Low(v)), Swap32(High(v)))

\* The loop stores the least significant byte at the end of the union.
hton64u(v) == [place \in 0..7 |-> v[7 - place]]

\* The loop shifts in the bytes of the union from the first one on: byte i of the
\* memory is shifted 7 - i times.
ntoh64u(v) == [i \in 0..7 |-> v[7 - i]]

\* What a char of value b is where char is signed
Signed(b) == IF b < 128 THEN b ELSE b - 256

\* The bytes of a string before its NUL
String(n) == [0..(n - 1) -> Byte \ {NUL}]

\* name[x] is a char: bytes from 128 on are negative and below 33.
Forbidden(c) == c < 33 \/ c = 34 \/ c = 39 \/ c = 96 \/ c >= 127
f_Name_has_forbidden_char(name, n) == \E x \in 0..(n - 1) : Forbidden(Signed(name[x]))

\* s[i] is unsigned.  The loop returns the first place whose byte it rejects, or else
\* the length.
IsRejected(b) == b < 33 \/ b = 34 \/ b = 39 \/ b = 96 \/ b >= 127
nameBytesValidateReturns(name, n, result) ==
    /\ result \in 0..n
    /\ \A y \in 0..(result - 1) : ~ IsRejected(name[y])
    /\ result < n => IsRejected(name[result])
================================================================================
