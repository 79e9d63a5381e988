----------------------------- MODULE ByteStream -----------------------------
(***************************************************************************)
(* What a Buffer promises its users (TcpConnection's input and output     *)
(* buffers, HttpConnection's parser): its readable bytes are a FIFO queue *)
(* of bytes.  Writers put bytes at the end, readers take them from the    *)
(* front, a read of the socket moves a prefix of what the kernel holds to *)
(* the end, and taking a line removes everything up to and including the *)
(* first CR LF and yields the bytes before it.                            *)
(***************************************************************************)
EXTENDS Naturals, Sequences

CONSTANTS
    Byte, CR, LF,
    MaxPut   \* the most bytes one write puts

VARIABLES
    content,  \* the readable bytes
    sock,     \* bytes the kernel holds for the socket, not yet read
    line      \* the last line taken

\* a CR LF starts at position k of s
CrlfAt(s, k) == s[k] = CR /\ s[k + 1] = LF

Init == content = <<>> /\ sock = <<>> /\ line = <<>>

Put(d) == content' = content \o d /\ UNCHANGED <<sock, line>>

Take(n) ==
    /\ n \in 1..Len(content)
    /\ content' = SubSeq(content, n + 1, Len(content))
    /\ UNCHANGED <<sock, line>>

TakeAll == content' = <<>> /\ UNCHANGED <<sock, line>>

Deliver(b) == sock' = Append(sock, b) /\ UNCHANGED <<content, line>>

Receive ==
    \E n \in 1..Len(sock) :
        /\ content' = content \o SubSeq(sock, 1, n)
        /\ sock' = SubSeq(sock, n + 1, Len(sock))
        /\ UNCHANGED line

\* the first CR LF splits the readable bytes into the line and the rest
TakeLine ==
    \E k \in 1..Len(content) - 1 :
        /\ CrlfAt(content, k)
        /\ \A j \in 1..k - 1 : ~CrlfAt(content, j)
        /\ line' = SubSeq(content, 1, k - 1)
        /\ content' = SubSeq(content, k + 2, Len(content))
        /\ UNCHANGED sock

Next ==
    \/ \E d \in UNION {[1..k -> Byte] : k \in 1..MaxPut} : Put(d)
    \/ \E n \in 1..Len(content) : Take(n)
    \/ TakeAll
    \/ \E b \in Byte : Deliver(b)
    \/ Receive
    \/ TakeLine

Spec == Init /\ [][Next]_<<content, sock, line>>
=============================================================================
