--------------------------- MODULE HttpConnection ---------------------------
(***************************************************************************)
(* One HTTP connection (HttpConnection.cc) riding on its TcpConnection     *)
(* (base/TcpConnection.cc), seen from its I/O loop, with the client at the *)
(* other end of the socket.                                                *)
(*                                                                         *)
(* The client's byte stream is a sequence of lines: a token stands for one *)
(* CRLF-terminated line (request line, header line, the empty line), or    *)
(* for one body byte, which has no CRLF.  The parser is the loop of        *)
(* parseRequest() as a recursive operator over the input buffer; a         *)
(* response is RespLen units in the output buffer, so the kernel can take  *)
(* part of it.  The idle timer is a flag: armed, it may fire at any time   *)
(* (the 60 s are not modelled).                                            *)
(***************************************************************************)
EXTENDS Naturals, FiniteSets, Sequences, SequencesExt

CONSTANTS
    Script,     \* the client's requests, each a sequence of line tokens
    Pipelined,  \* the client may send a request before the previous answer
    PeerReads,  \* the client keeps reading its socket (fairness)
    SndCap      \* kernel send buffer of the socket, in response units

(* A response is written in RespLen parts (status/headers, then the body). *)
RespLen == 2

(* Request lines that match "^([^ ]+) ([^ ]+) HTTP/([^ ]+)$", with the   *)
(* stat() result of the resolved path and the method/version they carry. *)
ReqLines ==
    [RL     |-> [res |-> "ok",        ver |-> "1.1", post |-> FALSE],
     RL10   |-> [res |-> "ok",        ver |-> "1.0", post |-> FALSE],
     RL404  |-> [res |-> "missing",   ver |-> "1.1", post |-> FALSE],
     RL403  |-> [res |-> "forbidden", ver |-> "1.1", post |-> FALSE],
     RLpost |-> [res |-> "ok",        ver |-> "1.1", post |-> TRUE]]

(* Header lines that match "^([^:]+): *(.+)$": Connection: keep-alive,   *)
(* Connection: close, Content-Length: 1, Content-Length: x, Content-Type: *)
(* application/x-www-form-urlencoded, any other header.                  *)
HeaderLines == {"Hka", "Hclose", "Hcl", "Hclx", "Hform", "Hoth"}

(* Body bytes: a well-formed one-byte form, and a malformed one.  The     *)
(* other tokens are "END" (the empty line), "Hbad" and "RLbad" (lines    *)
(* that match neither pattern).                                           *)
BodyBytes == {"B", "Bbad"}

Tokens == DOMAIN ReqLines \cup HeaderLines \cup BodyBytes \cup {"END", "Hbad", "RLbad"}

ASSUME /\ Script \in Seq(Seq(Tokens))
       /\ Pipelined \in BOOLEAN /\ PeerReads \in BOOLEAN
       /\ SndCap \in Nat \ {0}

Stream == FlattenSeq(Script)

(* Index in Stream of the last token of request k. *)
ReqEnd(k) == Len(FlattenSeq(SubSeq(Script, 1, k)))

VARIABLES
    p,          \* the parser members: parseState_, version_, method_, header_, body_
    inBuf,      \* inputBuffer_ of the TcpConnection
    kin,        \* bytes in the kernel receive buffer, not yet read
    cstate,     \* TcpConnection::state_
    outBuf,     \* outputBuffer_ of the TcpConnection, in response units
    writing,    \* channel_->isWriting()
    sockShut,   \* socket_->shutdown() has been called
    space,      \* free room in the kernel send buffer
    wire,       \* units written to the socket (the client reads a prefix)
    sent,       \* number of Stream tokens the client has written
    peerFin,    \* the client has closed its side
    armed,      \* an idle timer of this connection is scheduled
    timedOut,   \* the idle timer has fired (history)
    crashed     \* an exception escaped into the loop: the process is gone

vars == <<p, inBuf, kin, cstate, outBuf, writing, sockShut, space, wire, sent,
          peerFin, armed, timedOut, crashed>>

-----------------------------------------------------------------------------
(* HttpConnection(): parseState_(kRequestLine), and resetState(). *)
InitP == [st |-> "RequestLine", ver |-> "", post |-> FALSE,
          conn |-> "none", cl |-> "none", ct |-> "none", body |-> <<>>]

(* Mutant: makeResponseHeader() ignores version_. *)
KeepAliveAnyVersion(q) == q.conn = "keep-alive"

(* makeResponseHeader(): keepAlive_ = Connection is keep-alive and the    *)
(* request's version is 1.1.                                              *)
KeepAlive(q) == q.conn = "keep-alive" /\ q.ver = "1.1"

(* initResponse(): the status code of a parse result. *)
Code(ret) == CASE ret = "GetRequest" -> 200
               [] ret = "Forbidden"  -> 403
               [] ret = "NoResource" -> 404
               [] OTHER              -> 400

(* parseRequestLine(): a line that does not match is kBadRequest (state   *)
(* kept); otherwise the state moves to kHeader before stat() may answer   *)
(* kNoResource or kForbidden.                                             *)
RequestLineStep(q, line) ==
    IF line \notin DOMAIN ReqLines THEN [ret |-> "BadRequest", p |-> q]
    ELSE LET r == ReqLines[line] IN
         [ret |-> CASE r.res = "missing"   -> "NoResource"
                    [] r.res = "forbidden" -> "Forbidden"
                    [] OTHER               -> "NoRequest",
          p |-> [q EXCEPT !.st = "Header", !.ver = r.ver, !.post = r.post]]

(* parseRequestHeader(): the empty line ends the headers, stoi() of a     *)
(* non-numeric Content-Length throws; a well-formed line is stored in     *)
(* header_ (a later one of the same name wins); anything else is bad.     *)
RequestHeaderStep(q, line) ==
    CASE line = "END" /\ q.cl = "none" ->
            [ret |-> "GetRequest", p |-> [q EXCEPT !.st = "Finish"]]
      [] line = "END" /\ q.cl = "x" -> [ret |-> "Crash", p |-> q]
      [] line = "END" -> [ret |-> "NoRequest", p |-> [q EXCEPT !.st = "Body"]]
      [] line = "Hka"    -> [ret |-> "NoRequest", p |-> [q EXCEPT !.conn = "keep-alive"]]
      [] line = "Hclose" -> [ret |-> "NoRequest", p |-> [q EXCEPT !.conn = "close"]]
      [] line = "Hcl"    -> [ret |-> "NoRequest", p |-> [q EXCEPT !.cl = "1"]]
      [] line = "Hclx"   -> [ret |-> "NoRequest", p |-> [q EXCEPT !.cl = "x"]]
      [] line = "Hform"  -> [ret |-> "NoRequest", p |-> [q EXCEPT !.ct = "form"]]
      [] line = "Hoth"   -> [ret |-> "NoRequest", p |-> q]
      [] OTHER -> [ret |-> "BadRequest", p |-> q]

(* parseRequestBody() with Content-Length 1: body_ += line; for a POST,   *)
(* parsePost() (no Content-Type is bad; a form is decoded by               *)
(* parseFromUrlEncode()), then userVerify() rewrites the path to the      *)
(* existing /welcome.html.  Only then is the state kFinish.  A failed     *)
(* request keeps state kBody with its body.                               *)
RequestBodyStep(q, bytes) ==
    LET q1 == [q EXCEPT !.body = q.body \o bytes]
        bad == q1.post /\ (q1.ct = "none" \/ "Bbad" \in ToSet(q1.body))
    IN  IF bad THEN [ret |-> "BadRequest", p |-> q1]
        ELSE [ret |-> "GetRequest", p |-> [q1 EXCEPT !.st = "Finish"]]

(* Mutant: the kBody wait uses <= instead of <. *)
BodyReadyStrict(q, buf) == Len(buf) > 1 - Len(q.body)

(* kBody: `readableBytes() < remain` returns kNoRequest. *)
BodyReady(q, buf) == Len(buf) >= 1 - Len(q.body)

(* Index of the first CRLF-terminated token (findCrlf()), 0 if none. *)
LineEnd(buf) ==
    IF \A i \in 1..Len(buf) : buf[i] \in BodyBytes THEN 0
    ELSE CHOOSE i \in 1..Len(buf) : buf[i] \notin BodyBytes
                                    /\ \A j \in 1..i-1 : buf[j] \in BodyBytes

(* The line up to that CRLF.  Body bytes left in front of it (a body that *)
(* was not consumed as one) become part of the line: a header's name, or  *)
(* a request line's method, grows; any other line stays malformed.       *)
LineAt(buf, e) ==
    IF e = 1 THEN buf[1]
    ELSE CASE buf[e] \in HeaderLines -> "Hoth"
           [] buf[e] = "RLpost" -> "RL"
           [] buf[e] \in DOMAIN ReqLines -> buf[e]
           [] OTHER -> "Hbad"

(* parseRequest(): while (parseState_ != kFinish) take a line (or, in     *)
(* kBody, the remaining body bytes), give it to the step of the state,    *)
(* and return the first result that is not kNoRequest.                    *)
RECURSIVE ParseRequest(_, _)
ParseRequest(q, buf) ==
    IF q.st = "Finish" THEN [ret |-> "GetRequest", p |-> q, buf |-> buf]
    ELSE IF q.st = "Body" /\ ~BodyReady(q, buf)
    THEN [ret |-> "NoRequest", p |-> q, buf |-> buf]
    ELSE IF q.st # "Body" /\ LineEnd(buf) = 0
    THEN [ret |-> "NoRequest", p |-> q, buf |-> buf]
    ELSE LET n    == IF q.st = "Body" THEN 1 - Len(q.body) ELSE LineEnd(buf)
             rest == SubSeq(buf, n + 1, Len(buf))
             s    == CASE q.st = "Body" -> RequestBodyStep(q, SubSeq(buf, 1, n))
                       [] q.st = "RequestLine" -> RequestLineStep(q, LineAt(buf, n))
                       [] OTHER -> RequestHeaderStep(q, LineAt(buf, n))
         IN  IF s.ret = "NoRequest" THEN ParseRequest(s.p, rest)
             ELSE [ret |-> s.ret, p |-> s.p, buf |-> rest]

Units(r) == [i \in 1..RespLen |-> <<r, i>>]

(* The byte in front of a message that sendInLoop() appends after EAGAIN. *)
Junk == <<[code |-> 0, keep |-> TRUE], 0>>

MinOf(a, b) == IF a < b THEN a ELSE b

(* The client has read the units it has been sent, minus those still in   *)
(* the kernel send buffer.                                                *)
Received == SubSeq(wire, 1, Len(wire) - (SndCap - space))

(* Number of requests the client has written completely. *)
Completed == Cardinality({k \in 1..Len(Script) : ReqEnd(k) <= sent})

(* Reference responses, from the rules of the protocol rather than from   *)
(* the parser: the status is that of the first fault of the request, and  *)
(* keep-alive holds iff its last Connection header says keep-alive and    *)
(* its version is 1.1.  The connection answers requests up to the first   *)
(* response that is not keep-alive.                                       *)
ConnOf(req) ==
    LET hs == {i \in DOMAIN req : req[i] \in {"Hka", "Hclose"}} IN
    IF hs = {} THEN "none"
    ELSE IF req[CHOOSE i \in hs : \A j \in hs : j <= i] = "Hka" THEN "keep-alive"
    ELSE "close"

RefResponse(req) ==
    LET rl == req[1]
        ok == rl \in DOMAIN ReqLines
    IN [code |-> CASE ~ok -> 400
                   [] ReqLines[rl].res = "missing" -> 404
                   [] ReqLines[rl].res = "forbidden" -> 403
                   [] "Hbad" \in ToSet(req) -> 400
                   [] ReqLines[rl].post /\ ("Hform" \notin ToSet(req)
                                            \/ "Bbad" \in ToSet(req)) -> 400
                   [] OTHER -> 200,
        keep |-> ok /\ ReqLines[rl].ver = "1.1" /\ ConnOf(req) = "keep-alive"]

RECURSIVE Expected(_)
Expected(reqs) ==
    IF reqs = <<>> THEN <<>>
    ELSE LET r == RefResponse(Head(reqs)) IN
         <<r>> \o (IF r.keep THEN Expected(Tail(reqs)) ELSE <<>>)

ExpectedUnits ==
    LET e == Expected(Script) IN FlattenSeq([i \in DOMAIN e |-> Units(e[i])])

-----------------------------------------------------------------------------
(* TcpConnection::send(Buffer* buf) with the output buffer just built by      *)
(* makeResponse(): only when kConnected, retrieveAllAsString() and        *)
(* sendInLoop() -- write directly when nothing is pending (a full kernel  *)
(* buffer is EAGAIN: n = -1, so the byte before the message is appended   *)
(* and its last one lost), append the rest and enable writing.            *)
SendOutput(msg) ==
    IF cstate # "Connected" THEN
        /\ outBuf' = msg
        /\ UNCHANGED <<writing, space, wire>>
    ELSE IF writing THEN
        /\ outBuf' = msg
        /\ UNCHANGED <<writing, space, wire>>
    ELSE LET n    == IF space = 0 THEN -1 ELSE MinOf(Len(msg), space)
             rest == IF n = -1 THEN <<Junk>> \o SubSeq(msg, 1, Len(msg) - 1)
                     ELSE SubSeq(msg, n + 1, Len(msg))
         IN  /\ wire' = wire \o SubSeq(msg, 1, MinOf(n, Len(msg)))
             /\ space' = space - (IF n = -1 THEN 0 ELSE n)
             /\ outBuf' = rest
             /\ writing' = (rest # <<>>)

(* Mutant: shutdownInLoop() shuts the socket even with a write pending. *)
ShutdownUnconditional(isWriting) ==
    IF cstate = "Connected"
    THEN /\ cstate' = "Disconnecting"
         /\ sockShut' = TRUE
    ELSE UNCHANGED <<cstate, sockShut>>

(* TcpConnection::shutdown(): compare-and-swap kConnected ->              *)
(* kDisconnecting, then shutdownInLoop() (runInLoop on the loop thread    *)
(* runs it at once): shut the socket unless a write is pending.           *)
Shutdown(isWriting) ==
    IF cstate = "Connected"
    THEN /\ cstate' = "Disconnecting"
         /\ sockShut' = (sockShut \/ ~isWriting)
    ELSE UNCHANGED <<cstate, sockShut>>

(* processMessage(): parseRequest(); on kNoRequest wait for more bytes;   *)
(* otherwise makeResponse() into the connection's output buffer, send()   *)
(* it, then shutdown() unless keep-alive, else resetState().  stoi()      *)
(* throwing std::invalid_argument ends the process.                       *)
ProcessMessage(r) ==
    IF r.ret = "NoRequest" THEN
        /\ p' = r.p /\ inBuf' = r.buf
        /\ UNCHANGED <<cstate, outBuf, writing, sockShut, space, wire, crashed>>
    ELSE IF r.ret = "Crash" THEN
        /\ crashed' = TRUE
        /\ UNCHANGED <<p, inBuf, cstate, outBuf, writing, sockShut, space, wire>>
    ELSE LET rsp == [code |-> Code(r.ret), keep |-> KeepAlive(r.p)] IN
        /\ inBuf' = r.buf
        /\ SendOutput(outBuf \o Units(rsp))
        /\ p' = IF rsp.keep THEN InitP ELSE r.p
        /\ IF rsp.keep THEN UNCHANGED <<cstate, sockShut>> ELSE Shutdown(writing')
        /\ UNCHANGED crashed

(* TcpConnection::handleRead() with n > 0: readFd() takes every byte the  *)
(* kernel holds; then onMessage(): cancel the idle timer and arm a new    *)
(* one, and processMessage().                                             *)
OnMessageReady == ~crashed /\ cstate # "Disconnected" /\ kin # <<>>

OnMessage ==
    /\ OnMessageReady
    /\ kin' = <<>>
    /\ armed' = TRUE
    /\ LET r == ParseRequest(p, inBuf \o kin) IN ProcessMessage(r)
    /\ UNCHANGED <<sent, peerFin, timedOut>>

(* Mutant: handleWrite() drains the buffer but never shuts down. *)
HandleWriteNoShutdown ==
    /\ ~crashed
    /\ writing /\ space > 0
    /\ LET n == MinOf(Len(outBuf), space) IN
       /\ wire' = wire \o SubSeq(outBuf, 1, n)
       /\ outBuf' = SubSeq(outBuf, n + 1, Len(outBuf))
       /\ space' = space - n
       /\ writing' = (n < Len(outBuf))
    /\ UNCHANGED <<sockShut, p, inBuf, kin, cstate, sent, peerFin, armed,
                   timedOut, crashed>>

(* TcpConnection::handleWrite() on EPOLLOUT: write what the kernel takes; *)
(* once the buffer is empty disable writing, and if kDisconnecting call   *)
(* shutdownInLoop().                                                       *)
HandleWrite ==
    /\ ~crashed
    /\ writing /\ space > 0
    /\ LET n == MinOf(Len(outBuf), space) IN
       /\ wire' = wire \o SubSeq(outBuf, 1, n)
       /\ outBuf' = SubSeq(outBuf, n + 1, Len(outBuf))
       /\ space' = space - n
       /\ writing' = (n < Len(outBuf))
       /\ sockShut' = (sockShut \/ (n = Len(outBuf) /\ cstate = "Disconnecting"))
    /\ UNCHANGED <<p, inBuf, kin, cstate, sent, peerFin, armed, timedOut, crashed>>

(* onConnection() for the down connection: cancel the idle timer by the   *)
(* TimerId kept in the context.                                           *)
OnConnectionDown == armed' = FALSE

(* TcpConnection::handleRead() with n == 0 (the client closed, or our own *)
(* shutdown): handleClose() -- kDisconnected, disableAll(), and           *)
(* onConnection() for the down connection cancels the idle timer.         *)
HandleClose ==
    /\ ~crashed
    /\ cstate # "Disconnected"
    /\ kin = <<>> /\ (peerFin \/ sockShut)
    /\ cstate' = "Disconnected"
    /\ writing' = FALSE
    /\ OnConnectionDown
    /\ UNCHANGED <<p, inBuf, kin, outBuf, sockShut, space, wire, sent, peerFin,
                   timedOut, crashed>>

(* timeoutCallback(): the bound TcpConnectionPtr is alive; shutdown(). *)
TimerFire ==
    /\ ~crashed
    /\ armed
    /\ armed' = FALSE
    /\ timedOut' = TRUE
    /\ Shutdown(writing)
    /\ UNCHANGED <<p, inBuf, kin, outBuf, writing, space, wire, sent, peerFin,
                   crashed>>

-----------------------------------------------------------------------------
(* The client writes the next n tokens: within one request, and only once *)
(* every earlier request is answered, unless it pipelines.  It stops      *)
(* writing after a response that closes the connection.                  *)
ClientSend(n) ==
    /\ ~peerFin
    /\ \A i \in 1..Len(Received) : Received[i][1].keep
    /\ Pipelined \/ Len(Received) >= RespLen * Completed
    /\ sent + n <= IF Pipelined THEN Len(Stream) ELSE ReqEnd(Completed + 1)
    /\ kin' = kin \o SubSeq(Stream, sent + 1, sent + n)
    /\ sent' = sent + n
    /\ UNCHANGED <<p, inBuf, cstate, outBuf, writing, sockShut, space, wire,
                   peerFin, armed, timedOut, crashed>>

(* The client reads one unit from its socket. *)
ClientRead ==
    /\ space < SndCap
    /\ space' = space + 1
    /\ UNCHANGED <<p, inBuf, kin, cstate, outBuf, writing, sockShut, wire, sent,
                   peerFin, armed, timedOut, crashed>>

(* The client may close its side at any time. *)
ClientClose ==
    /\ ~peerFin
    /\ peerFin' = TRUE
    /\ UNCHANGED <<p, inBuf, kin, cstate, outBuf, writing, sockShut, space, wire,
                   sent, armed, timedOut, crashed>>

(* After connectEstablished(): kConnected, and onConnection() has armed   *)
(* the idle timer.                                                         *)
Init ==
    /\ p = InitP
    /\ inBuf = <<>> /\ kin = <<>>
    /\ cstate = "Connected"
    /\ outBuf = <<>> /\ writing = FALSE /\ sockShut = FALSE
    /\ space = SndCap /\ wire = <<>>
    /\ sent = 0 /\ peerFin = FALSE
    /\ armed = TRUE /\ timedOut = FALSE /\ crashed = FALSE

Server == OnMessage \/ HandleWrite \/ HandleClose \/ TimerFire

Next ==
    \/ Server
    \/ \E n \in 1..Len(Stream) : ClientSend(n)
    \/ ClientRead \/ ClientClose
    \/ (cstate = "Disconnected" \/ crashed) /\ UNCHANGED vars

(* The I/O loop serves every ready event; the client is not obliged to    *)
(* write or close, and reads only where PeerReads says so.  The idle      *)
(* timer is not fair: it stands for 60 s of silence.  OnMessage is enabled *)
(* exactly when OnMessageReady holds, so its weak fairness is stated in   *)
(* that form (TLC evaluates ENABLED of the recursive parser slowly).      *)
Fairness ==
    /\ (<>[]OnMessageReady => []<><<OnMessage>>_vars)
    /\ WF_vars(HandleWrite) /\ WF_vars(HandleClose)
    /\ PeerReads => WF_vars(ClientRead)

Spec == Init /\ [][Next]_vars /\ Fairness

-----------------------------------------------------------------------------
(* A unit of a response that tells the client the connection closes. *)
IsClose(u) == ~u[1].keep

TypeOK ==
    /\ p.st \in {"RequestLine", "Header", "Body", "Finish"}
    /\ inBuf \in Seq(Tokens) /\ kin \in Seq(Tokens)
    /\ cstate \in {"Connected", "Disconnecting", "Disconnected"}
    /\ space \in 0..SndCap
    /\ sent \in 0..Len(Stream)
    /\ {writing, sockShut, peerFin, armed, timedOut, crashed} \subseteq BOOLEAN
    /\ writing => outBuf # <<>> /\ ~sockShut /\ cstate # "Disconnected"

(* What reaches the client is, unit for unit, the reference responses to *)
(* its requests in order: parseRequest() over lines split across reads,   *)
(* the keep-alive decision, resetState() and the partial writes of        *)
(* sendInLoop()/handleWrite() together neither drop, repeat, reorder nor  *)
(* corrupt a response.                                                    *)
ResponsesMatchScript == IsPrefix(wire, ExpectedUnits)

(* Every request the connection should answer is answered once the client *)
(* has sent all of it, unless the idle timer closed the connection or the *)
(* client hung up first (processMessage() answers at most one request per *)
(* onMessage()).                                                          *)
RequestsAnswered ==
    \A k \in 1..Len(Expected(Script)) :
        (sent >= ReqEnd(k)) ~> (Len(wire) >= RespLen * k \/ timedOut \/ peerFin)

(* The server closes the connection after a response without keep-alive *)
(* and after the idle timer fired: shutdown() is deferred while output is *)
(* pending, and handleWrite() must complete it.                           *)
ServerCloses ==
    (timedOut \/ \E i \in 1..Len(wire) : IsClose(wire[i]))
        ~> (cstate = "Disconnected")

(* No request makes the process terminate (stoi() of Content-Length). *)
NoCrash == ~crashed

====
