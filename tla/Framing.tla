------------------------------- MODULE Framing -------------------------------
(***************************************************************************)
(* How messages of the server are cut from the bytes of its connection:    *)
(* dgets() of newio.c and do_server() of server.c.  A message is a header  *)
(* of four bytes, with its length and number, and a body.  Bytes come in   *)
(* pieces of any size.  What dgets() knows between two calls is the record *)
(* io_rec[] of the descriptor.                                             *)
(*                                                                         *)
(* A byte is its position in the stream, so that a body that is delivered  *)
(* tells which bytes it was put together from.                             *)
(***************************************************************************)
EXTENDS Naturals, Sequences, SequencesExt

CONSTANTS
    NMessages,    \* messages sent on one connection
    Lengths,      \* the lengths of their bodies
    HeaderPieces, \* the most reads a header takes
    HandlersTurn, \* whether a handler may turn the main loop
    BufferSize,   \* ioe->buffer_size
    BigBuffer,    \* BIG_BUFFER_SIZE, the room do_server() has for a body
    MaxSegments,  \* MAX_SEGMENTS, the most reads a body takes
    MaxConnects   \* bound: connections

ASSUME FramingAssumption ==
    /\ NMessages \in Nat /\ Lengths \subseteq Nat /\ HeaderPieces \in Nat \ {0}
    /\ HandlersTurn \in BOOLEAN
    /\ BufferSize \in Nat /\ BigBuffer \in Nat /\ MaxSegments \in Nat /\ MaxConnects \in Nat

VARIABLES
    stream,     \* the lengths of the bodies sent on this connection
    arrived,    \* bytes that have come
    taken,      \* bytes that were read
    io_rec,     \* io_rec[des]
    pieces,     \* reads the present header has taken
    handling,   \* a message is with its handler
    delivered,  \* the bodies handed to parse_server()
    link,       \* whether the connection is up
    ended,      \* the server has closed its side
    connects    \* connections so far

framingVars ==
    <<stream, arrived, taken, io_rec, pieces, handling, delivered, link, ended, connects>>

HeaderSize == 4

FreshRec ==
    [databuffer |-> [i \in 1 .. HeaderSize |-> 0], data_read |-> 0, len |-> 0,
     buffer |-> <<>>, read_pos |-> 0, segments |-> 0]

\* The first k messages are this many bytes.
Through(k) == FoldLeft(LAMBDA n, l : n + HeaderSize + l, 0, SubSeq(stream, 1, k))

Header(k) == [i \in 1 .. HeaderSize |-> Through(k - 1) + i]
Body(k) == [i \in 1 .. stream[k] |-> Through(k - 1) + HeaderSize + i]

FramingTypeOK ==
    /\ stream \in [1 .. NMessages -> Lengths]
    /\ taken \in 0 .. arrived /\ arrived \in 0 .. Through(NMessages)
    /\ io_rec.data_read \in 0 .. HeaderSize - 1 /\ io_rec.len \in {0} \cup Lengths
    /\ io_rec.read_pos \in 0 .. Len(io_rec.buffer) /\ io_rec.segments \in Nat
    /\ pieces \in 0 .. HeaderPieces
    /\ handling \in BOOLEAN /\ ended \in BOOLEAN
    /\ delivered \in Seq(Seq(1 .. Through(NMessages)))
    /\ link \in {"up", "closed"} /\ connects \in 0 .. MaxConnects

Connected ==
    /\ stream' \in [1 .. NMessages -> Lengths]
    /\ arrived' = 0 /\ taken' = 0 /\ io_rec' = FreshRec /\ pieces' = 0
    /\ delivered' = <<>> /\ link' = "up" /\ ended' = FALSE

FramingInit ==
    /\ stream \in [1 .. NMessages -> Lengths]
    /\ arrived = 0 /\ taken = 0 /\ io_rec = FreshRec /\ pieces = 0
    /\ handling = FALSE /\ delivered = <<>> /\ link = "up" /\ ended = FALSE
    /\ connects = 0

----------------------------------------------------------------------------
(* dgets() *)

Least(a, b) == IF a < b THEN a ELSE b

\* What was read is what was handed on: begin again at the start of the buffer.
Rewound(r) ==
    IF r.read_pos = Len(r.buffer)
      THEN [r EXCEPT !.read_pos = 0, !.buffer = <<>>, !.segments = 0] ELSE r

\* c bytes from the stream go into the header's buffer.
Stored(r, c) ==
    [i \in 1 .. HeaderSize |->
        IF r.data_read < i /\ i <= r.data_read + c THEN taken + i - r.data_read
                                                   ELSE r.databuffer[i]]

\* The length a header tells: that of the message whose header it is, and
\* anything when the four bytes are no header.
LengthTold(databuffer) ==
    IF \E k \in 1 .. NMessages : databuffer = Header(k)
      THEN {stream[k] : k \in {j \in 1 .. NMessages : databuffer = Header(j)}}
      ELSE Lengths

\* A part of the header has come.  The count of it replaces that of the parts
\* before.
HeaderPart(r, c) == [r EXCEPT !.databuffer = Stored(r, c), !.data_read = c]

HeaderWhole(r, c) ==
    {[r EXCEPT !.databuffer = Stored(r, c), !.data_read = 0, !.len = l] :
        l \in LengthTold(Stored(r, c))}

\* d bytes more of the body, behind the p bytes taken so far.
BodyPart(r, p, d) ==
    [r EXCEPT !.buffer = @ \o [i \in 1 .. d |-> p + i], !.segments = @ + 1]

Complete(r) == r.len = Len(r.buffer)

\* The body in the room there is for it, and the record afterwards.
Text(r) == SubSeq(r.buffer, r.read_pos + 1, Least(Len(r.buffer), r.read_pos + BigBuffer - 1))
Slurped(r) == [r EXCEPT !.read_pos = @ + Len(Text(r))]

\* dget_clear_data(); mutant: it is not called.
DataKept(r) == r
DgetClearData(r) == [r EXCEPT !.len = 0]

----------------------------------------------------------------------------
(* do_server() *)

Readable == link = "up" /\ (arrived > taken \/ ended)

\* Called from the main loop, or from within a handler that turns it.
MayRead == Readable /\ (~ handling \/ HandlersTurn)

\* close_server(), which frees the record.  A message with its handler stays
\* there.
CloseLink ==
    /\ link' = "closed" /\ io_rec' = FreshRec /\ pieces' = 0
    /\ UNCHANGED <<stream, arrived, taken, delivered, handling, ended, connects>>

\* The end of the stream, where a header or the rest of a body should be.
ReadEnd == MayRead /\ arrived = taken /\ CloseLink

\* Not the whole header is there.
ReadHeaderPart ==
    LET r == Rewound(io_rec)
        c == arrived - taken
    IN /\ MayRead /\ io_rec.len = 0 /\ c > 0 /\ c < HeaderSize - r.data_read
       /\ pieces + 1 < HeaderPieces
       /\ io_rec' = HeaderPart(r, c)
       /\ taken' = arrived /\ pieces' = pieces + 1
       /\ UNCHANGED <<stream, arrived, delivered, handling, link, ended, connects>>

\* The records with which the body is read on, and the bytes taken by then: the
\* present one, or one for each length a header that is now complete may tell.
WithHeader ==
    LET r == Rewound(io_rec)
        c == HeaderSize - r.data_read
    IN IF r.len # 0 THEN {<<r, taken>>}
       ELSE IF arrived - taken >= c THEN {<<s, taken + c>> : s \in HeaderWhole(r, c)}
       ELSE {}

\* What a message of length 0 leaves, or one whose last bytes are read: the text
\* goes to parse_server().
Dispatch(r, p) ==
    /\ delivered' = Append(delivered, IF Complete(r) THEN Text(r) ELSE <<>>)
    /\ io_rec' = IF Complete(r) THEN Slurped(r) ELSE r
    /\ handling' = TRUE /\ taken' = p /\ pieces' = 0
    /\ UNCHANGED <<stream, arrived, link, ended, connects>>

ReadEmpty ==
    /\ MayRead /\ arrived > taken
    /\ \E x \in WithHeader : x[1].len = 0 /\ Dispatch(x[1], x[2])

\* The body of a header that has just come is not there yet.
AwaitBody ==
    /\ MayRead /\ arrived > taken
    /\ \E x \in WithHeader :
         /\ x[1].len # 0 /\ Len(x[1].buffer) + x[1].len < BufferSize
         /\ x[2] = arrived /\ ~ ended
         /\ io_rec' = x[1] /\ taken' = x[2] /\ pieces' = 0
         /\ UNCHANGED <<stream, arrived, delivered, handling, link, ended, connects>>

\* As much of the body as is wanted and there.
ReadBody ==
    /\ MayRead /\ arrived > taken
    /\ \E x \in WithHeader :
         LET r == x[1]
             d == Least(r.len - Len(r.buffer), arrived - x[2])
             s == BodyPart(r, x[2], d)
         IN /\ Len(r.buffer) < r.len /\ Len(r.buffer) + r.len < BufferSize /\ arrived > x[2]
            /\ \/ Complete(s) /\ Dispatch(s, x[2] + d)
               \/ /\ ~ Complete(s) /\ s.segments <= MaxSegments
                  /\ io_rec' = s /\ taken' = x[2] + d /\ pieces' = 0
                  /\ UNCHANGED <<stream, arrived, delivered, handling, link, ended, connects>>

\* A body does not fit the buffer, comes in too many pieces, ends with the stream
\* or is taken to be in the buffer already: the connection is closed.
ReadFails ==
    /\ MayRead /\ arrived > taken
    /\ \E x \in WithHeader :
         LET r == x[1]
             d == Least(r.len - Len(r.buffer), arrived - x[2])
         IN /\ r.len # 0
            /\ \/ Len(r.buffer) + r.len >= BufferSize
               \/ x[2] = arrived /\ ended
               \/ x[2] < arrived /\ r.len <= Len(r.buffer)
               \/ x[2] < arrived /\ d < r.len - Len(r.buffer) /\ r.segments >= MaxSegments
    /\ CloseLink

\* /disconnect, from the main loop or run by a hook of the message
Disconnect == link = "up" /\ CloseLink

HandlerDone ==
    /\ handling
    /\ handling' = FALSE
    /\ io_rec' = DgetClearData(io_rec)
    /\ UNCHANGED <<stream, arrived, taken, pieces, delivered, link, ended, connects>>

----------------------------------------------------------------------------
(* The network, and the connection made anew *)

Arrive ==
    /\ link = "up" /\ ~ ended
    /\ arrived' \in arrived + 1 .. Through(NMessages)
    /\ UNCHANGED <<stream, taken, io_rec, pieces, handling, delivered, link, ended, connects>>

ServerCloses ==
    /\ link = "up" /\ ~ ended
    /\ ended' = TRUE
    /\ UNCHANGED <<stream, arrived, taken, io_rec, pieces, handling, delivered, link, connects>>

\* connect_to_server(), by the timer of start_autoconnect() or by the user
Reconnect ==
    /\ link = "closed" /\ ~ handling /\ connects < MaxConnects
    /\ connects' = connects + 1
    /\ Connected
    /\ UNCHANGED handling

FramingNext ==
    \/ ReadEnd \/ ReadHeaderPart \/ ReadEmpty \/ AwaitBody \/ ReadBody \/ ReadFails
    \/ Disconnect \/ HandlerDone \/ Arrive \/ ServerCloses \/ Reconnect

FramingSpec == FramingInit /\ [][FramingNext]_framingVars

----------------------------------------------------------------------------
(* Property *)

\* However the bytes are cut, the bodies handed on are those that were sent, each
\* once and in order, and none is held back once its last byte is read.
Framed ==
    /\ IsPrefix(delivered, [k \in 1 .. NMessages |-> Body(k)])
    /\ link = "up" =>
         \A k \in 1 .. NMessages : Through(k) <= taken <=> k <= Len(delivered)
=============================================================================
