--------------------------------- MODULE Wire ---------------------------------
(***************************************************************************)
(* network.c from the server's side: how the bytes of one client become    *)
(* messages.  TCP keeps the order of bytes and not the borders of frames:   *)
(* recv and read return what has arrived, and are called once each.  An     *)
(* admin who kicks the user closes the descriptor in the thread of his own: *)
(* a call that waits goes on, and the next one fails.                       *)
(*                                                                         *)
(* A byte is known by its frame and its place in it.  What a payload holds  *)
(* matters only as far as network_Receive looks at it.  That the number of  *)
(* a closed descriptor is given to a new connection is left to ClientThread. *)
(***************************************************************************)
EXTENDS Integers, Sequences

CONSTANTS
    HeaderLen,      \* sizeof(MessageHeader)
    LoginFixed,     \* bytes of magic and version
    NameCap,        \* NET_NAME_LEN
    TextLen,        \* NET_TEXT_LEN
    Frames,         \* frames clients send
    MaxFrames,      \* bound: so many of them
    MaxClaim        \* bound: the length in a header read out of step

ASSUME WireAssumption ==
    /\ HeaderLen \in Nat /\ HeaderLen > 1
    /\ LoginFixed \in Nat \ {0} /\ NameCap \in Nat \ {0} /\ TextLen \in Nat \ {0}
    /\ MaxFrames \in Nat /\ MaxClaim \in Nat

Type == {"login", "text", "other"}
\* A right magic number, a right version; a slash at the start of a text
Content == [magic : BOOLEAN, version : BOOLEAN, slash : BOOLEAN]
Code == {"login", "message", "command", "none", "invalid_length", "magic", "version",
         "name_length"}
Frame == [type : Type, length : Nat, content : Content]
ASSUME FramesAssumption ==
    Frames \subseteq Frame /\ \A f \in Frames : f.type = "text" => f.length <= TextLen

VARIABLES
    sent,           \* the frames the client has sent
    unread,         \* the bytes of them that the server has not read
    here,           \* so many of these have arrived
    closed,         \* the client has closed its end
    open,           \* the descriptor of the connection is open
    pc,             \* where the thread of the client is
    logged_in,      \* a login has been found right: the user can be kicked
    header,         \* the header it has read, and the frame that begins with it
    ValidationCode, \* what network_Receive returned last
    handled,        \* history: those codes, while the server is in step
    torn,           \* history: a call has returned less than a frame
    absent          \* history: a text of which nothing was read has passed

clientVars == <<sent, closed>>
serverVars == <<pc, logged_in, header, ValidationCode, handled, torn, absent>>
vars == <<clientVars, unread, here, open, serverVars>>

NoHeader == [type |-> "other", length |-> 0, frame |-> 0]

Init ==
    /\ sent = <<>> /\ unread = <<>> /\ here = 0 /\ closed = FALSE /\ open = TRUE
    /\ pc = "loop" /\ logged_in = FALSE /\ header = NoHeader
    /\ ValidationCode = "none" /\ handled = <<>> /\ torn = FALSE /\ absent = FALSE

-----------------------------------------------------------------------------
(* The client and TCP, until the thread has ended                          *)

BytesOf(k, f) == [i \in 1..(HeaderLen + f.length) |-> <<k, i>>]

ClientSends(f) ==
    /\ pc # "ended" /\ ~ closed /\ Len(sent) < MaxFrames
    /\ sent' = Append(sent, f)
    /\ unread' = unread \o BytesOf(Len(sent) + 1, f)
    /\ UNCHANGED <<here, closed, open, serverVars>>

ClientCloses ==
    /\ ~ closed /\ closed' = TRUE
    /\ UNCHANGED <<sent, unread, here, open, serverVars>>

Arrive ==
    /\ pc # "ended" /\ here < Len(unread)
    /\ here' \in (here + 1)..Len(unread)
    /\ UNCHANGED <<clientVars, unread, open, serverVars>>

\* "/kick" in the thread of an admin: close(target->sock).
Kick ==
    /\ logged_in /\ pc # "ended"
    /\ open /\ open' = FALSE
    /\ UNCHANGED <<clientVars, unread, here, serverVars>>

-----------------------------------------------------------------------------
(* Check_for_Message and network_Receive                                   *)

\* recv and read of a descriptor that was open when they were called: what has
\* arrived, up to the length asked for; 0 only when the client has closed and
\* everything was read.
Readable(asked) ==
    {n \in 0..asked : IF here > 0 \/ asked = 0 THEN n = (IF here < asked THEN here ELSE asked)
                      ELSE n = 0 /\ closed /\ unread = <<>>}
TakePadded(n) ==            \* slip: the structures are not packed
    /\ unread' = SubSeq(unread, n + 2, Len(unread))
    /\ here' = here - n

Take(n) ==
    /\ unread' = SubSeq(unread, n + 1, Len(unread))
    /\ here' = here - n

\* recv is called, and waits.
CallRecv ==
    /\ pc = "loop" /\ open
    /\ pc' = "header"
    /\ UNCHANGED <<clientVars, unread, here, open, logged_in, header, ValidationCode, handled,
                   torn, absent>>

RecvErrorGoesOn ==          \* slip: only 0 ends the loop
    /\ pc = "loop" /\ ~ open
    /\ pc' = "receive"
    /\ UNCHANGED <<clientVars, unread, here, open, logged_in, header, ValidationCode, handled,
                   torn, absent>>

\* recv of a closed descriptor returns -1, and the loop ends.
RecvFails ==
    /\ pc = "loop" /\ ~ open
    /\ pc' = "ended"
    /\ UNCHANGED <<clientVars, unread, here, open, logged_in, header, ValidationCode, handled,
                   torn, absent>>

\* A whole header at its place tells the frame.  Of a short one the length stays 0,
\* for lengths below 256: the structure was cleared.  Anything else is what the
\* bytes happen to be.
RecvHeader ==
    /\ pc = "header"
    /\ \E n \in Readable(HeaderLen) \ {0} :
          LET k == Head(unread)[1] IN
          /\ IF Head(unread)[2] = 1
             THEN header' = [type |-> sent[k].type,
                             length |-> IF n = HeaderLen THEN sent[k].length ELSE 0,
                             frame |-> IF n = HeaderLen THEN k ELSE 0]
             ELSE header' \in [type : Type, length : 0..MaxClaim, frame : {0}]
          /\ torn' = (torn \/ n < HeaderLen)
          /\ Take(n)
    /\ pc' = "receive"
    /\ UNCHANGED <<clientVars, open, logged_in, ValidationCode, handled, absent>>

RecvClosedGoesOn ==         \* slip: 0 does not end the loop
    /\ pc = "header"
    /\ 0 \in Readable(HeaderLen)
    /\ UNCHANGED vars

\* recv returns 0, or an error when the connection is broken.
RecvClosed ==
    /\ pc = "header"
    /\ 0 \in Readable(HeaderLen)
    /\ pc' = "ended"
    /\ UNCHANGED <<clientVars, unread, here, open, logged_in, header, ValidationCode, handled,
                   torn, absent>>

Handle(code, in_step) ==
    /\ ValidationCode' = code
    /\ logged_in' = (logged_in \/ code = "login")
    /\ torn' = ~ in_step
    /\ handled' = IF in_step THEN Append(handled, [code |-> code, frame |-> header.frame])
                  ELSE handled
    /\ pc' = "loop" /\ header' = NoHeader
    /\ UNCHANGED <<clientVars, open>>

InvalidLength ==
    /\ pc = "receive" /\ header.length = 0
    /\ Handle("invalid_length", ~ torn)
    /\ UNCHANGED <<unread, here, absent>>

MagicLast(n, c) ==          \* slip: a right magic number makes up for the rest
    IF ~ c.magic THEN "magic" ELSE "login"

\* Each check overwrites the verdict of the ones before it.
LoginVerdict(n, c) ==
    CASE n <= LoginFixed \/ n > LoginFixed + NameCap -> "name_length"
      [] ~ c.version -> "version"
      [] ~ c.magic -> "magic"
      [] OTHER -> "login"

\* The verdict on the length of a text is overwritten in every case
\* (network.c:41, :43).
TextVerdict(n, c) == IF n > 0 /\ c.slash THEN "command" ELSE "message"

\* read is called, and waits.
CallRead ==
    /\ pc = "receive" /\ header.length > 0 /\ header.type \in {"login", "text"}
    /\ open
    /\ pc' = "payload"
    /\ UNCHANGED <<clientVars, unread, here, open, logged_in, header, ValidationCode, handled,
                   torn, absent>>

\* read of a closed descriptor returns -1, which is no length of a login; a text is
\* passed on as it was cleared.
ReadFails ==
    /\ pc = "receive" /\ header.length > 0 /\ header.type \in {"login", "text"}
    /\ ~ open
    /\ Handle(IF header.type = "login" THEN "name_length" ELSE "message", FALSE)
    /\ absent' = (absent \/ header.type = "text")
    /\ UNCHANGED <<unread, here>>

ReadPayload(type) ==
    /\ pc = "payload" /\ header.type = type
    /\ \E n \in Readable(header.length) :
          \E c \in IF header.frame = 0 THEN Content ELSE {sent[header.frame].content} :
              /\ Handle(IF type = "login" THEN LoginVerdict(n, c) ELSE TextVerdict(n, c),
                        ~ torn /\ n = header.length)
              /\ Take(n)
              /\ absent' = (absent \/ (type = "text" /\ n = 0))

\* The payload of an unknown type is not read.
UnknownType ==
    /\ pc = "receive" /\ header.length > 0 /\ header.type = "other"
    /\ Handle("none", FALSE)
    /\ UNCHANGED <<unread, here, absent>>

Server ==
    \/ CallRecv \/ RecvFails \/ RecvHeader \/ RecvClosed
    \/ InvalidLength \/ CallRead \/ ReadFails
    \/ ReadPayload("login") \/ ReadPayload("text")
    \/ UnknownType

Next ==
    \/ \E f \in Frames : ClientSends(f)
    \/ ClientCloses
    \/ Arrive
    \/ Kick
    \/ Server

\* Bytes arrive in the end, and the thread goes on when it can.
Spec == Init /\ [][Next]_vars
FairSpec == Spec /\ WF_vars(Arrive) /\ WF_vars(Server)

-----------------------------------------------------------------------------
(* Properties.                                                             *)

TypeOK ==
    /\ sent \in Seq(Frame) /\ Len(sent) <= MaxFrames
    /\ here \in 0..Len(unread)
    /\ \A i \in DOMAIN unread :
          LET k == unread[i][1] IN
          k \in DOMAIN sent /\ unread[i][2] \in 1..(HeaderLen + sent[k].length)
    /\ closed \in BOOLEAN /\ open \in BOOLEAN /\ logged_in \in BOOLEAN
    /\ torn \in BOOLEAN /\ absent \in BOOLEAN
    /\ pc \in {"loop", "header", "receive", "payload", "ended"} /\ ValidationCode \in Code
    /\ header \in [type : Type, length : Nat, frame : {0} \cup DOMAIN sent]
    /\ \A i \in DOMAIN handled : handled[i].frame \in {0} \cup DOMAIN sent

IsLogin(f) ==
    /\ f.type = "login" /\ f.content.magic /\ f.content.version
    /\ f.length - LoginFixed \in 1..NameCap
IsText(f) == f.type = "text" /\ f.length > 0

\* As long as each call gets the frame it asks for, and every type is known, each
\* frame is handled once, in order, for what it is: a login if it is right in
\* every respect, a command or a message, or else an error or nothing.
InStep ==
    ~ torn => \A i \in DOMAIN handled :
        /\ handled[i].frame = i
        /\ handled[i].code = "login" <=> IsLogin(sent[i])
        /\ handled[i].code = "command" <=> IsText(sent[i]) /\ sent[i].content.slash
        /\ handled[i].code = "message" <=> IsText(sent[i]) /\ ~ sent[i].content.slash

\* The verdict of network.c:41 on a text of which nothing could be read is
\* overwritten, and the text passes.  It can be so once the client has closed and
\* everything was read, or its descriptor has been closed for a kick; and in both
\* cases no header comes to the thread any more.
EmptyTextIsLast ==
    [][absent => (~ open \/ (closed /\ unread = <<>>)) /\ pc' # "receive"]_vars

\* Whatever its bytes are taken for, the thread of a client that has closed comes to
\* its own end, and to the end of them unless the client was kicked.
DrainsAndEnds == closed ~> pc = "ended" /\ (unread = <<>> \/ ~ open)
=============================================================================
