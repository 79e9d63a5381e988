------------------------------- MODULE Buffer -------------------------------
(***************************************************************************)
(* Buffer (Buffer.h, Buffer.cc): a vector<char> buffer_ with readIndex_   *)
(* and writeIndex_, the readable bytes between them and kCheapPrepend     *)
(* bytes reserved in front.  The vector is a sequence; its element at     *)
(* offset i is buffer[i + 1].  Bytes are model values; a slot the vector  *)
(* grows by is value-initialised (Nul).  The operations are the ones the  *)
(* program calls: append (TcpConnection::sendInLoop, the HTTP response),  *)
(* retrieve and retrieveAll (handleWrite, the parser), readFd             *)
(* (TcpConnection::handleRead), and the line extraction of                *)
(* HttpConnection::parseRequest.  Each operation is a pure operator over  *)
(* a record [buf, ri, wi], so that the helpers compose as the member     *)
(* functions call each other; an action applies one to the variables.    *)
(***************************************************************************)
EXTENDS Naturals, Sequences

CONSTANTS
    kCheapPrepend,  \* Buffer.h 13: 8
    kInitialSize,   \* Buffer.h 14: 1024
    kExtraBuf,      \* Buffer.cc 9: sizeof(extrabuf), 65536
    Byte, CR, LF, Nul,
    MaxAppend,      \* the longest append or delivery in one call
    MaxBytes        \* bytes written into the buffer or the socket in all

VARIABLES
    buffer,      \* buffer_
    readIndex,   \* readIndex_
    writeIndex,  \* writeIndex_
    sock,        \* bytes the kernel holds for the socket
    line,        \* the last line parseRequest took
    fed,         \* bytes appended or delivered so far, for the bound
    peak         \* the most readable bytes the buffer has held

vars == <<buffer, readIndex, writeIndex, sock, line, fed, peak>>

Cur == [buf |-> buffer, ri |-> readIndex, wi |-> writeIndex]
Readable(b) == SubSeq(b.buf, b.ri + 1, b.wi)

\* Buffer(size_t initialSize = kInitialSize)
Init ==
    /\ buffer = [i \in 1..kCheapPrepend + kInitialSize |-> Nul]
    /\ readIndex = kCheapPrepend
    /\ writeIndex = kCheapPrepend
    /\ sock = <<>> /\ line = <<>> /\ fed = 0 /\ peak = 0

WritableBytes(b) == Len(b.buf) - b.wi

\* std::copy(d, d + Len(d), v.begin() + at): the bytes at offsets at.. of v
Write(v, at, d) == [i \in 1..Len(v) |-> IF i - at \in 1..Len(d) THEN d[i - at] ELSE v[i]]

\* mutant: the vector grows one slot short of writeIndex_ + len
MakeSpaceShort(b, len) ==
    IF WritableBytes(b) + b.ri < len + kCheapPrepend
    THEN [b EXCEPT !.buf = @ \o [i \in 1..b.wi + len - 1 - Len(@) |-> Nul]]
    ELSE [buf |-> Write(b.buf, kCheapPrepend, Readable(b)),
          ri  |-> kCheapPrepend, wi |-> kCheapPrepend + b.wi - b.ri]

\* mutant: always grow, never move the readable bytes to the front
MakeSpaceResizeOnly(b, len) ==
    [b EXCEPT !.buf = @ \o [i \in 1..b.wi + len - Len(@) |-> Nul]]

\* makeSpace(len): resize to writeIndex_ + len, or move the readable bytes
\* to kCheapPrepend when the space in front and behind suffices
MakeSpace(b, len) ==
    IF WritableBytes(b) + b.ri < len + kCheapPrepend
    THEN [b EXCEPT !.buf = @ \o [i \in 1..b.wi + len - Len(@) |-> Nul]]
    ELSE [buf |-> Write(b.buf, kCheapPrepend, Readable(b)),
          ri  |-> kCheapPrepend, wi |-> kCheapPrepend + b.wi - b.ri]

\* ensureWritableBytes(len)
EnsureWritable(b, len) == IF WritableBytes(b) < len THEN MakeSpace(b, len) ELSE b

\* hasWritten(len) after copying d to beginWrite()
WriteAtEnd(b, d) == [b EXCEPT !.buf = Write(@, b.wi, d), !.wi = @ + Len(d)]

\* append(data, len)
AppendBytes(b, d) == WriteAtEnd(EnsureWritable(b, Len(d)), d)

\* retrieve(len): retrieveAll() when everything is taken
Retrieve(b, len) ==
    IF len < b.wi - b.ri THEN [b EXCEPT !.ri = @ + len]
                         ELSE [b EXCEPT !.ri = kCheapPrepend, !.wi = kCheapPrepend]

\* readFd: readv into the writable space and extrabuf; what overflowed into
\* extrabuf is appended
ReadFd(b, d) ==
    LET writable == WritableBytes(b) IN
    IF Len(d) <= writable
    THEN WriteAtEnd(b, d)
    ELSE AppendBytes(WriteAtEnd(b, SubSeq(d, 1, writable)),
                     SubSeq(d, writable + 1, Len(d)))

\* findCrlf(): the offset of the first CR LF among the readable bytes
IsCrlf(b, p) == b.buf[p + 1] = CR /\ b.buf[p + 2] = LF
FindCrlf(b) == {p \in b.ri..b.wi - 2 : IsCrlf(b, p) /\ \A q \in b.ri..p - 1 : ~IsCrlf(b, q)}

\* mutant: retrieveUntil's length is taken against the old beginRead()
TakeLineOldBase(b, crlf) == Retrieve(Retrieve(b, crlf - b.ri), crlf + 2 - b.ri)

\* line = retrieveAsString(crlf - beginRead()); retrieveUntil(crlf + 2):
\* the pointer crlf is read before the first retrieve and used after it
TakeLineAt(b, crlf) ==
    LET b1 == Retrieve(b, crlf - b.ri) IN Retrieve(b1, crlf + 2 - b1.ri)

Set(b) == buffer' = b.buf /\ readIndex' = b.ri /\ writeIndex' = b.wi
Peak(b) == peak' = IF b.wi - b.ri > peak THEN b.wi - b.ri ELSE peak

Data == UNION {[1..n -> Byte] : n \in 1..MaxAppend}

\* append(data, len) by a writer (sendInLoop, makeResponse)
AppendData ==
    \E d \in Data :
        /\ fed + Len(d) <= MaxBytes
        /\ Set(AppendBytes(Cur, d)) /\ Peak(AppendBytes(Cur, d))
        /\ fed' = fed + Len(d)
        /\ UNCHANGED <<sock, line>>

\* retrieve(n) after write() sent n bytes, or retrieveAsString(remain)
\* of a body; callers never pass more than readableBytes()
RetrieveN ==
    \E n \in 1..writeIndex - readIndex :
        /\ Set(Retrieve(Cur, n))
        /\ UNCHANGED <<sock, line, fed, peak>>

\* retrieveAll(): defaultMessageCallback
RetrieveAll ==
    /\ Set([Cur EXCEPT !.ri = kCheapPrepend, !.wi = kCheapPrepend])
    /\ UNCHANGED <<sock, line, fed, peak>>

\* the peer's bytes reach the socket
Deliver ==
    \E c \in Byte :
        /\ fed < MaxBytes
        /\ sock' = Append(sock, c)
        /\ fed' = fed + 1
        /\ UNCHANGED <<buffer, readIndex, writeIndex, line, peak>>

\* TcpConnection::handleRead -> readFd: readv returns n > 0 bytes, at most
\* what the two iovecs hold
ReadSocket ==
    \E n \in 1..Len(sock) :
        /\ n <= WritableBytes(Cur) + kExtraBuf
        /\ Set(ReadFd(Cur, SubSeq(sock, 1, n))) /\ Peak(ReadFd(Cur, SubSeq(sock, 1, n)))
        /\ sock' = SubSeq(sock, n + 1, Len(sock))
        /\ UNCHANGED <<line, fed>>

\* parseRequest outside kBody, when findCrlf() finds a line
TakeLine ==
    \E crlf \in FindCrlf(Cur) :
        /\ line' = SubSeq(buffer, readIndex + 1, crlf)
        /\ Set(TakeLineAt(Cur, crlf))
        /\ UNCHANGED <<sock, fed, peak>>

Next == AppendData \/ RetrieveN \/ RetrieveAll \/ Deliver \/ ReadSocket \/ TakeLine

Spec == Init /\ [][Next]_vars

-----------------------------------------------------------------------------
Stream == INSTANCE ByteStream WITH content <- Readable(Cur), MaxPut <- MaxAppend

TypeOK ==
    /\ buffer \in Seq(Byte \cup {Nul})
    \* the asserts of retrieve, hasWritten and retrieveUntil
    /\ kCheapPrepend <= readIndex /\ readIndex <= writeIndex /\ writeIndex <= Len(buffer)

(***************************************************************************)
(* Buffer implements a byte queue: through every resize, every move of    *)
(* the readable bytes to the front, readFd's split between the writable   *)
(* space and extrabuf, and the line extraction whose crlf pointer is used *)
(* after the first retrieve has moved readIndex_, the readable bytes are  *)
(* exactly what was put in, in order, minus what was taken from the front. *)
(***************************************************************************)
ImplementsByteStream == Stream!Spec

(***************************************************************************)
(* makeSpace resizes to writeIndex_ + len without reclaiming the space    *)
(* in front, but only when the vector is too small for the bytes it must *)
(* hold: the vector never exceeds twice the most bytes it ever held, plus *)
(* the reserved front, or its initial size.                               *)
(***************************************************************************)
MemoryBounded ==
    Len(buffer) <= IF kCheapPrepend + kInitialSize > 2 * peak + kCheapPrepend
                   THEN kCheapPrepend + kInitialSize ELSE 2 * peak + kCheapPrepend
=============================================================================
