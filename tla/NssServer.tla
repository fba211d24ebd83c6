------------------------------ MODULE NssServer ------------------------------
(***************************************************************************)
(* The inference server of server/nss_server.c in its --serve mode.  One   *)
(* single-threaded process loads a model, listens on a loopback port and   *)
(* then serves one connection at a time: it reads a header and a body,     *)
(* runs the network on the body, writes the two outputs back, each behind  *)
(* a header of its own, and goes round again until the peer goes away.     *)
(*                                                                         *)
(* A byte is represented by the place it comes from: a byte of a request   *)
(* by its connection, frame and offset, a byte of a reply by the frames    *)
(* the network read when it produced it, the output and the offset.  What  *)
(* the network computes is left out; which bytes it computes it from is    *)
(* what the properties are about.                                          *)
(*                                                                         *)
(* The clients (the XeSS shim) and the kernel's sockets are not part of    *)
(* the repository; they are modelled from what the server's calls rely on. *)
(* A read() or write() of n bytes is n steps of one byte each: the loops   *)
(* of read_exactly and write_exactly do nothing else between two bytes, so *)
(* every split the kernel may make of a transfer is covered.               *)
(***************************************************************************)
EXTENDS Naturals, Sequences

CONSTANTS
  Conns,        (* The connections of a run.  A client that comes back is  *)
                (* another connection.                                     *)
  NoConn,       (* What `client` holds when no connection is being served. *)
  Models,       (* The models --model may name.                            *)
  HeaderLen,    (* sizeof(struct header), in bytes.                        *)
  SizeofFloat,  (* sizeof(float), in bytes.                                *)
  BodySizes,    (* The body sizes a client may put in a header.            *)
  MaxFrames,    (* Bound: the frames a client sends on one connection.     *)
  Backlog,      (* Connections the kernel keeps for accept().              *)
  SockBuf,      (* Bytes in flight on a socket, in each direction.         *)
  Sigpipes,     (* The SIGPIPE dispositions the process may inherit.       *)
  Polite        (* TRUE: a client reads a reply before it sends again, and *)
                (* leaves between two frames only.                         *)

Model == [inputElems : Nat \ {0}, inElemSize : {1, SizeofFloat},
          outElems : [{0, 1} -> Nat], outputCount : {1, 2}]

ASSUME ConstantsAssumption ==
  /\ NoConn \notin Conns
  /\ HeaderLen \in Nat \ {0}
  /\ SizeofFloat \in Nat \ {0}
  /\ Models \subseteq Model
  /\ BodySizes \subseteq Nat
  /\ MaxFrames \in Nat
  /\ Backlog \in Nat
  /\ SockBuf \in Nat \ {0}
  /\ Sigpipes \subseteq {"default", "ignored"}
  /\ Polite \in BOOLEAN

VARIABLES
  (* The server process. *)
  pc,        (* Where the process is.                                      *)
  m,         (* struct model: what model_open learned of the model.        *)
  sigpipe,   (* What SIGPIPE does to this process.                         *)
  client,    (* The connection being served.                               *)
  h,         (* The header read last.                                      *)
  input,     (* The input buffer, allocated once for all connections.      *)
  got,       (* Bytes the read_exactly under way has read.                 *)
  outs,      (* The live OrtValues: the frames their input came from.      *)
  oi,        (* Index of the output being written.                         *)
  off,       (* Bytes of its header and data already written.              *)
  failed,    (* A write of this frame's reply failed.                      *)
  served,    (* Per connection, the frames the network was run for.        *)
  (* The sockets. *)
  queue,     (* Connections accept() has not returned yet.                 *)
  phase,     (* Per connection, the server's end.                          *)
  peer,      (* Per connection, the client's end.                          *)
  rd,        (* Per connection, how far the server has read.               *)
  reply,     (* Per connection, the bytes written to a peer that is there. *)
  cutting,   (* Per connection, whether a reset is on its way to the peer. *)
  (* The clients. *)
  hdr,       (* Per connection, the headers of the frames begun.           *)
  sent,      (* Per connection, the bytes of the last of them sent.        *)
  rcvd       (* Per connection, the bytes of the reply received.           *)

procVars   == <<client, h, input, got, outs, oi, off, failed, served>>
sockVars   == <<queue, phase, peer, rd, reply, cutting>>
clientVars == <<hdr, sent, rcvd>>
vars       == <<pc, m, sigpipe, procVars, sockVars, clientVars>>

-----------------------------------------------------------------------------
(* Sizes and positions *)

Header == [magic : BOOLEAN, bytes : BodySizes]

(* The size the server insists on, whatever the element type of the model. *)
BodyLen == m.inputElems * SizeofFloat

(* The size of the tensor the network reads. *)
TensorLen == m.inputElems * m.inElemSize

(* A struct header and value_bytes(out[o]). *)
OutLen(o) == HeaderLen + m.outElems[o] * SizeofFloat

ReplyLen == OutLen(0) + OutLen(1)

FrameLen(c, f) == HeaderLen + hdr[c][f].bytes

AllSent(c) == hdr[c] # <<>> => sent[c] = FrameLen(c, Len(hdr[c]))

(* rd[c] is the frame and offset after the last byte read; the next byte   *)
(* may be the first of the next frame.                                     *)
NextByte(c) ==
  IF rd[c].f \in DOMAIN hdr[c] /\ rd[c].o >= FrameLen(c, rd[c].f)
    THEN [f |-> rd[c].f + 1, o |-> 0]
    ELSE rd[c]

Readable(c) ==
  LET p == NextByte(c) IN
  \/ p.f < Len(hdr[c])
  \/ p.f = Len(hdr[c]) /\ p.o < sent[c]

(* A client begins a frame only behind frames of BodyLen bytes.            *)
Unread(c) ==
  LET p == NextByte(c) IN
  (Len(hdr[c]) - p.f) * (HeaderLen + BodyLen) + sent[c] - p.o

(* A byte of a request; what malloc() returned has no such origin. *)
Byte(c, f, o) == [c |-> c, f |-> f, o |-> o]
Junk == Byte(NoConn, 0, 0)

(* A byte of a reply: the frames the network read, the output, the offset. *)
Unit(c, f, o, k) == [of |-> {<<c, f>>}, o |-> o, k |-> k]

(* The byte that follows u in a reply stream without gaps or repeats: the  *)
(* outputs of a frame in order, then those of the connection's next frame. *)
Successor(u) ==
  IF u.k + 1 < OutLen(u.o) THEN [u EXCEPT !.k = @ + 1]
  ELSE IF u.o = 0 THEN [u EXCEPT !.o = 1, !.k = 0]
  ELSE [of |-> {<<p[1], p[2] + 1>> : p \in u.of}, o |-> 0, k |-> 0]

-----------------------------------------------------------------------------
(* The process starts *)

Init ==
  /\ pc = "open"
  /\ m \in Models
  /\ sigpipe \in Sigpipes
  /\ client = NoConn
  /\ h = [magic |-> FALSE, bytes |-> 0]
  /\ input = [k \in 0 .. BodyLen - 1 |-> Junk]
  /\ got = 0 /\ outs = {} /\ oi = 0 /\ off = 0 /\ failed = FALSE
  /\ served = [c \in Conns |-> 0]
  /\ queue = <<>>
  /\ phase = [c \in Conns |-> "none"]
  /\ peer = [c \in Conns |-> "up"]
  /\ rd = [c \in Conns |-> [f |-> 1, o |-> 0]]
  /\ reply = [c \in Conns |-> <<>>]
  /\ cutting = [c \in Conns |-> FALSE]
  /\ hdr = [c \in Conns |-> <<>>]
  /\ sent = [c \in Conns |-> 0]
  /\ rcvd = [c \in Conns |-> 0]

(* The process ends; the kernel closes its sockets. *)
Die ==
  /\ pc' = "dead"
  /\ client' = NoConn
  /\ outs' = {}
  /\ queue' = <<>>
  /\ phase' = [c \in Conns |-> IF phase[c] = "none" THEN "none" ELSE "closed"]
  /\ cutting' = [c \in Conns |-> cutting[c] \/ phase[c] \in {"queued", "active"}]
  /\ UNCHANGED <<m, sigpipe, h, input, got, oi, off, failed, served,
                 peer, rd, reply, clientVars>>

ModelOpen ==
  /\ pc = "open"
  /\ pc' = "listen"
  /\ UNCHANGED <<m, sigpipe, procVars, sockVars, clientVars>>

Listen ==
  /\ pc = "listen"
  /\ pc' = "accept"
  /\ UNCHANGED <<m, sigpipe, procVars, sockVars, clientVars>>

(* An ORT call of model_open, malloc, socket, bind or listen fails. *)
StartupFails == pc \in {"open", "listen"} /\ Die

-----------------------------------------------------------------------------
(* The server loop.  A definition named Bug_... is a slip somebody could   *)
(* make in the definition that follows it; nothing uses it, it shows that  *)
(* a property would notice.                                                *)

Accept ==
  /\ pc = "accept"
  /\ queue # <<>>
  /\ client' = Head(queue)
  /\ queue' = Tail(queue)
  /\ phase' = [phase EXCEPT ![Head(queue)] = "active"]
  /\ got' = 0
  /\ pc' = "header"
  /\ UNCHANGED <<m, sigpipe, h, input, outs, oi, off, failed, served,
                 peer, rd, reply, cutting, clientVars>>

(* Where a break from the loop over the frames leads: to close(client).    *)
Bug_LoopLeft == "accept"
LoopLeft == "close"

(* read_exactly is done when it has the length it was asked for. *)
HeaderComplete(n) == n = HeaderLen

Bug_ShortBody(n) == n + 1 >= h.bytes
Bug_LongBody(n) == n > h.bytes
Bug_TensorBody(n) == n = TensorLen
BodyComplete(n) == n = h.bytes

(* What the bytes read as a header say: the client's header where they are *)
(* one, anything where they are not.                                       *)
HeadersAt(c, p) ==
  IF p.o = HeaderLen THEN {hdr[c][p.f]} ELSE Header

ReadHeader ==
  LET p == NextByte(client) IN
  /\ pc = "header"
  /\ Readable(client)
  /\ rd' = [rd EXCEPT ![client] = [f |-> p.f, o |-> p.o + 1]]
  /\ got' = got + 1
  /\ IF HeaderComplete(got + 1)
       THEN /\ h' \in HeadersAt(client, [f |-> p.f, o |-> p.o + 1])
            /\ pc' = "check"
       ELSE UNCHANGED <<h, pc>>
  /\ UNCHANGED <<m, sigpipe, client, input, outs, oi, off, failed, served,
                 queue, phase, peer, reply, cutting, clientVars>>

Bug_HeaderAccepted(x) == x.magic
HeaderAccepted(x) == x.magic /\ x.bytes = BodyLen

Bug_BodySkipped ==
  /\ pc = "check"
  /\ got' = 0
  /\ pc' = IF HeaderAccepted(h) THEN "run" ELSE "close"
  /\ UNCHANGED <<m, sigpipe, client, h, input, outs, oi, off, failed, served,
                 sockVars, clientVars>>
CheckHeader ==
  /\ pc = "check"
  /\ got' = 0
  /\ pc' = IF HeaderAccepted(h) THEN "body" ELSE LoopLeft
  /\ UNCHANGED <<m, sigpipe, client, h, input, outs, oi, off, failed, served,
                 sockVars, clientVars>>

ReadBody ==
  LET p == NextByte(client) IN
  /\ pc = "body"
  /\ Readable(client)
  /\ input' = [input EXCEPT ![got] = Byte(client, p.f, p.o)]
  /\ rd' = [rd EXCEPT ![client] = [f |-> p.f, o |-> p.o + 1]]
  /\ got' = got + 1
  /\ pc' = IF BodyComplete(got + 1) THEN "run" ELSE "body"
  /\ UNCHANGED <<m, sigpipe, client, h, outs, oi, off, failed, served,
                 queue, phase, peer, reply, cutting, clientVars>>

(* read() returns 0 behind the last byte of a peer that closed, or fails   *)
(* because the peer reset the connection.                                  *)
Bug_EndMissed(c) == peer[c] = "rst"
StreamEnded(c) ==
  \/ peer[c] \in {"fin", "finrst"} /\ ~Readable(c)
  \/ peer[c] = "rst"

ReadEnds ==
  /\ pc \in {"header", "body"}
  /\ StreamEnded(client)
  /\ pc' = LoopLeft
  /\ UNCHANGED <<m, sigpipe, procVars, sockVars, clientVars>>

(* The network reads the first TensorLen bytes of the buffer. *)
FramesIn(buf) == {<<buf[k].c, buf[k].f>> : k \in 0 .. TensorLen - 1}

Run ==
  /\ pc = "run"
  /\ outs' = FramesIn(input)
  /\ served' = [served EXCEPT ![client] = @ + 1]
  /\ oi' = 0 /\ off' = 0 /\ failed' = FALSE
  /\ pc' = "outputs"
  /\ UNCHANGED <<m, sigpipe, client, h, input, got, sockVars, clientVars>>

(* CreateTensorWithDataAsOrtValue or Run reports an error: CHECK exits. *)
RunFails == pc = "run" /\ Die

(* value_bytes and GetTensorMutableData of out[oi]. *)
TakeOutput ==
  /\ pc = "outputs"
  /\ oi < m.outputCount
  /\ pc' = "write"
  /\ UNCHANGED <<m, sigpipe, procVars, sockVars, clientVars>>

(* One of them reports an error: CHECK exits.  For the second output of a  *)
(* model with one they must, since the loop is over two and out[1] is NULL.*)
OutputFails == pc = "outputs" /\ Die

Bug_NextOutput == IF oi = 0 THEN 1 ELSE 0
NextOutput == oi + 1

(* Where write_exactly stands after one byte more. *)
WriteAdvances ==
  IF off + 1 < OutLen(oi)
    THEN off' = off + 1 /\ UNCHANGED <<oi, pc>>
    ELSE /\ off' = 0
         /\ oi' = NextOutput
         /\ pc' = IF NextOutput < 2 THEN "outputs" ELSE "release"

WriteByte ==
  /\ pc = "write"
  /\ peer[client] = "up"
  /\ Len(reply[client]) - rcvd[client] < SockBuf
  /\ reply' = [reply EXCEPT
                 ![client] = Append(@, [of |-> outs, o |-> oi, k |-> off])]
  /\ WriteAdvances
  /\ UNCHANGED <<m, sigpipe, client, h, input, got, outs, failed, served,
                 queue, phase, peer, rd, cutting, clientVars>>

(* The peer closed in order: write() succeeds, the bytes go nowhere and    *)
(* the peer's kernel answers with a reset sooner or later.                 *)
WriteVanishes ==
  /\ pc = "write"
  /\ peer[client] = "fin"
  /\ \E s \in {"fin", "finrst"} : peer' = [peer EXCEPT ![client] = s]
  /\ WriteAdvances
  /\ UNCHANGED <<m, sigpipe, client, h, input, got, outs, failed, served,
                 queue, phase, rd, reply, cutting, clientVars>>

(* Where the code goes when a write failed: to the releases. *)
Bug_AfterFailedWrite == "close"
AfterFailedWrite == "release"

(* write() returns -1: ECONNRESET, or EPIPE with SIGPIPE ignored. *)
WriteFails ==
  /\ pc = "write"
  /\ peer[client] = "rst" \/ (peer[client] = "finrst" /\ sigpipe = "ignored")
  /\ failed' = TRUE
  /\ pc' = AfterFailedWrite
  /\ UNCHANGED <<m, sigpipe, client, h, input, got, outs, oi, off, served,
                 sockVars, clientVars>>

(* EPIPE with SIGPIPE at its default: the signal ends the process. *)
WriteKills ==
  /\ pc = "write"
  /\ peer[client] = "finrst"
  /\ sigpipe = "default"
  /\ Die

ReleaseOutputs ==
  /\ pc = "release"
  /\ outs' = {}
  /\ got' = 0
  /\ pc' = IF failed THEN LoopLeft ELSE "header"
  /\ UNCHANGED <<m, sigpipe, client, h, input, oi, off, failed, served,
                 sockVars, clientVars>>

(* close() with bytes unread resets the connection: what the peer has not  *)
(* received yet may be lost.                                               *)
CloseClient ==
  /\ pc = "close"
  /\ client' = NoConn
  /\ phase' = [phase EXCEPT ![client] = "closed"]
  /\ cutting' = [cutting EXCEPT ![client] = @ \/ Readable(client)]
  /\ pc' = "accept"
  /\ UNCHANGED <<m, sigpipe, h, input, got, outs, oi, off, failed, served,
                 queue, peer, rd, reply, clientVars>>

ServerStep ==
  \/ ModelOpen \/ Listen
  \/ Accept \/ ReadHeader \/ CheckHeader \/ ReadBody \/ ReadEnds
  \/ Run \/ TakeOutput
  \/ WriteByte \/ WriteVanishes \/ WriteFails
  \/ ReleaseOutputs \/ CloseClient

(* What ends the process. *)
ServerDies == StartupFails \/ RunFails \/ OutputFails \/ WriteKills

-----------------------------------------------------------------------------
(* The clients and their kernel *)

Listening == pc \notin {"open", "listen", "dead"}

Connect(c) ==
  /\ Listening
  /\ phase[c] = "none"
  /\ Len(queue) < Backlog
  /\ phase' = [phase EXCEPT ![c] = "queued"]
  /\ queue' = Append(queue, c)
  /\ UNCHANGED <<pc, m, sigpipe, procVars, peer, rd, reply, cutting, clientVars>>

Connected(c) == peer[c] = "up" /\ phase[c] \in {"queued", "active"}

(* Every frame begun is sent and answered in full. *)
Idle(c) == AllSent(c) /\ rcvd[c] = Len(hdr[c]) * ReplyLen

(* A client that sent a header the server refuses does not send another. *)
BeginFrame(c) ==
  /\ Connected(c)
  /\ Len(hdr[c]) < MaxFrames
  /\ AllSent(c)
  /\ \A f \in DOMAIN hdr[c] : HeaderAccepted(hdr[c][f])
  /\ Polite => Idle(c)
  /\ \E x \in Header : hdr' = [hdr EXCEPT ![c] = Append(@, x)]
  /\ sent' = [sent EXCEPT ![c] = 0]
  /\ UNCHANGED <<pc, m, sigpipe, procVars, sockVars, rcvd>>

Send(c) ==
  /\ Connected(c)
  /\ ~AllSent(c)
  /\ Unread(c) < SockBuf
  /\ sent' = [sent EXCEPT ![c] = @ + 1]
  /\ UNCHANGED <<pc, m, sigpipe, procVars, sockVars, hdr, rcvd>>

(* A byte sent to an end that is closed is answered with a reset. *)
SendToClosed(c) ==
  /\ peer[c] = "up"
  /\ phase[c] = "closed"
  /\ ~AllSent(c)
  /\ cutting' = [cutting EXCEPT ![c] = TRUE]
  /\ UNCHANGED <<pc, m, sigpipe, procVars, queue, phase, peer, rd, reply, clientVars>>

Receive(c) ==
  /\ peer[c] = "up"
  /\ rcvd[c] < Len(reply[c])
  /\ rcvd' = [rcvd EXCEPT ![c] = @ + 1]
  /\ UNCHANGED <<pc, m, sigpipe, procVars, sockVars, hdr, sent>>

(* The reset arrives: the client receives nothing more. *)
ResetArrives(c) ==
  /\ cutting[c]
  /\ peer[c] = "up"
  /\ peer' = [peer EXCEPT ![c] = "rst"]
  /\ UNCHANGED <<pc, m, sigpipe, procVars, queue, phase, rd, reply, cutting, clientVars>>

(* A client that closes, or exits, with bytes unread resets the connection.*)
Close(c) ==
  /\ peer[c] = "up"
  /\ phase[c] # "none"
  /\ Polite => Idle(c) \/ phase[c] = "closed"
  /\ peer' = [peer EXCEPT ![c] = IF rcvd[c] < Len(reply[c]) THEN "rst" ELSE "fin"]
  /\ UNCHANGED <<pc, m, sigpipe, procVars, queue, phase, rd, reply, cutting, clientVars>>

ClientStep(c) ==
  \/ Connect(c) \/ BeginFrame(c) \/ Send(c) \/ SendToClosed(c)
  \/ Receive(c) \/ ResetArrives(c) \/ Close(c)

Next == ServerStep \/ ServerDies \/ \E c \in Conns : ClientStep(c)

Spec == Init /\ [][Next]_vars

(* The server's thread runs whenever it is not blocked.  A client sends    *)
(* what it began, receives what has arrived and hangs up in the end, for   *)
(* the code waits for its client without a timeout.  No client has to      *)
(* connect or to begin a frame.                                            *)
Fairness ==
  /\ WF_vars(ServerStep)
  /\ \A c \in Conns : WF_vars(Send(c)) /\ WF_vars(Receive(c)) /\ WF_vars(Close(c))

FairSpec == Spec /\ Fairness

-----------------------------------------------------------------------------
(* Properties *)

(* Every variable keeps the type the code gives it.  A read() into the     *)
(* struct header is under way only while it has room, and one into the     *)
(* input buffer only while that has.                                       *)
ServerTypes ==
  /\ pc \in {"open", "listen", "accept", "header", "check", "body", "run",
             "outputs", "write", "release", "close", "dead"}
  /\ m \in Models
  /\ sigpipe \in Sigpipes
  /\ client \in Conns \cup {NoConn}
  /\ h \in [magic : BOOLEAN, bytes : Nat]
  /\ input \in [0 .. BodyLen - 1 -> [c : Conns \cup {NoConn}, f : Nat, o : Nat]]
  /\ got \in Nat
  /\ pc = "header" => got < HeaderLen
  /\ pc = "body" => got < BodyLen
  /\ off \in Nat /\ oi \in 0 .. 2
  /\ outs \subseteq (Conns \cup {NoConn}) \X Nat
  /\ failed \in BOOLEAN
  /\ served \in [Conns -> Nat]
ReplyByte == [of : SUBSET ((Conns \cup {NoConn}) \X Nat), o : 0 .. 2, k : Nat]
SocketTypes ==
  /\ queue \in Seq(Conns)
  /\ phase \in [Conns -> {"none", "queued", "active", "closed"}]
  /\ peer \in [Conns -> {"up", "fin", "finrst", "rst"}]
  /\ rd \in [Conns -> [f : Nat \ {0}, o : Nat]]
  /\ reply \in [Conns -> Seq(ReplyByte)]
  /\ cutting \in [Conns -> BOOLEAN]
ClientTypes ==
  /\ hdr \in [Conns -> Seq(Header)]
  /\ sent \in [Conns -> Nat]
  /\ rcvd \in [Conns -> Nat]
TypeOK == ServerTypes /\ SocketTypes /\ ClientTypes

(* The input buffer is shared by all frames of all connections and is      *)
(* never cleared, and a peer may vanish in the middle of a body.  When the *)
(* network runs, every byte of the buffer is nevertheless a byte, in its   *)
(* place, of the frame this client sent after the ones already run.        *)
RunsOnWholeFrame ==
  pc = "run" =>
    LET f == served[client] + 1 IN
    /\ f \in DOMAIN hdr[client] /\ hdr[client][f].magic
    /\ \A k \in 0 .. BodyLen - 1 : input[k] = Byte(client, f, HeaderLen + k)

(* Where the server looks for a header, the next byte of the stream is the *)
(* first of the frame after the ones served: framing is never lost.        *)
FramingKept ==
  pc = "header" /\ got = 0 =>
    NextByte(client) = [f |-> served[client] + 1, o |-> 0]

(* What a client is sent is the outputs of its own first frame, in order   *)
(* and without a gap, then those of its second, and so on: no byte of an   *)
(* older frame or of another client, whoever disconnects in the middle.    *)
ReplyStream ==
  \A c \in Conns : \A j \in 1 .. Len(reply[c]) :
    reply[c][j] = IF j = 1 THEN Unit(c, 1, 0, 0) ELSE Successor(reply[c][j - 1])

(* The two OrtValues of a frame are released before the server reads,      *)
(* accepts or closes again, also when the reply was broken off.            *)
NoValueLeak == outs # {} => pc \in {"outputs", "write", "release"}

(* The server blocked on a full socket while its client is blocked sending *)
(* to it: neither would ever move.                                         *)
NoMutualWait ==
  ~ /\ pc = "write"
    /\ Connected(client)
    /\ Len(reply[client]) - rcvd[client] >= SockBuf
    /\ ~AllSent(client)
    /\ Unread(client) >= SockBuf

(* The reset of a connection the server closes does not overtake a reply   *)
(* on its way to the client, as long as the server lives.                  *)
NoReplyCutOff ==
  \A c \in Conns : pc # "dead" /\ cutting[c] => rcvd[c] = Len(reply[c])

(* A frame sent in full behind a header the server accepts is answered in  *)
(* full, unless the process ends.                                          *)
FrameSent(c, f) ==
  /\ f \in DOMAIN hdr[c] /\ hdr[c][f] = [magic |-> TRUE, bytes |-> BodyLen]
  /\ f < Len(hdr[c]) \/ AllSent(c)
EveryFrameAnswered ==
  \A c \in Conns, f \in 1 .. MaxFrames :
    FrameSent(c, f) ~> (rcvd[c] >= f * ReplyLen \/ pc = "dead")

(* Every client in the accept queue is served and let go in the end,       *)
(* unless the process ends.                                                *)
EveryConnectionEnds ==
  \A c \in Conns : phase[c] = "queued" ~> phase[c] = "closed"

(* The code counts a failed write and closes that client only: writing to  *)
(* a client is never what ends the process.                                *)
ServerOutlivesClients ==
  [][~(pc = "write" /\ pc' = "dead")]_vars

(* A frame that declares the size of the model's input tensor is not       *)
(* refused.                                                                *)
TensorSizedFrameTaken ==
  [][pc = "check" /\ h.magic /\ h.bytes = TensorLen => pc' # "close"]_vars

(* Seen from its clients the server is the service of InferenceService.    *)
Service == INSTANCE InferenceService WITH
  up <- (pc # "dead"), line <- queue, turn <- client,
  done <- {c \in Conns : phase[c] = "closed"}, inferred <- served,
  delivered <- [c \in Conns |-> rcvd[c] \div ReplyLen]
ImplementsService == Service!Spec
=============================================================================
