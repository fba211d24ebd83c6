--------------------------- MODULE NssServer_proofs ---------------------------
(***************************************************************************)
(* Proofs about NssServer, for any number of connections, any models and   *)
(* any sizes of headers, frames and socket buffers.                        *)
(***************************************************************************)
EXTENDS NssServer, SequenceTheorems, TLAPS

Serving == {"header", "check", "body", "run", "outputs", "write", "release", "close"}

(* The connection served, the ones waiting and the ones that have yet to   *)
(* come are told apart by their phase, and nothing was done for the last   *)
(* two.                                                                    *)
Registered ==
  /\ pc \in Serving => client \in Conns /\ phase[client] = "active"
  /\ \A k \in DOMAIN queue : phase[queue[k]] = "queued"
  /\ \A k, l \in DOMAIN queue : k # l => queue[k] # queue[l]
  /\ \A c \in Conns : phase[c] \in {"none", "queued"} =>
       served[c] = 0 /\ rd[c] = [f |-> 1, o |-> 0] /\ reply[c] = <<>>

(* The server has read o bytes, and not all, of the frame after the ones   *)
(* it ran.                                                                 *)
Within(o) ==
  /\ served[client] + 1 \in DOMAIN hdr[client]
  /\ rd[client] = [f |-> served[client] + 1, o |-> o]

(* The server has read the frames it ran and no byte more.                 *)
Between ==
  \/ served[client] = 0 /\ rd[client] = [f |-> 1, o |-> 0]
  \/ /\ served[client] \in DOMAIN hdr[client]
     /\ rd[client] = [f |-> served[client], o |-> FrameLen(client, served[client])]

Declared ==
  /\ h = hdr[client][served[client] + 1]
  /\ HeaderAccepted(h)

(* The first n bytes of the buffer are those of the frame being read.      *)
Filled(n) ==
  \A k \in 0 .. BodyLen - 1 : k < n =>
    input[k] = Byte(client, served[client] + 1, HeaderLen + k)

(* How far the server has read, at every place in its loop.                *)
Position ==
  /\ pc = "header" =>
       \/ got = 0 /\ Between
       \/ got \in 1 .. HeaderLen - 1 /\ Within(got)
  /\ pc = "check" =>
       got = HeaderLen /\ Within(HeaderLen) /\ h = hdr[client][served[client] + 1]
  /\ pc = "body" =>
       got \in 0 .. BodyLen - 1 /\ Within(HeaderLen + got) /\ Declared /\ Filled(got)
  /\ pc = "run" =>
       Within(HeaderLen + BodyLen) /\ Declared /\ Filled(BodyLen)
  /\ pc \in {"outputs", "write", "release"} => Between
  /\ pc \in {"outputs", "write"} => oi \in {0, 1}

ReadInv == TypeOK /\ Registered /\ Position

-----------------------------------------------------------------------------
(* The sizes a model gives are positive.                                   *)
LEMMA Sizes ==
  ASSUME m \in Models
  PROVE  /\ BodyLen \in Nat \ {0}
         /\ TensorLen \in Nat \ {0}
         /\ TensorLen <= BodyLen
         /\ \A o \in {0, 1} : OutLen(o) \in Nat \ {0}
<1>1. m \in Model
  BY ConstantsAssumption
<1>2. /\ m.inputElems \in Nat \ {0} /\ m.inElemSize \in {1, SizeofFloat}
      /\ m.outElems[0] \in Nat /\ m.outElems[1] \in Nat
      /\ SizeofFloat \in Nat \ {0} /\ HeaderLen \in Nat \ {0}
  BY <1>1, ConstantsAssumption DEF Model
<1>3. \A a, b \in Nat \ {0} : a * b \in Nat \ {0} /\ a * 1 <= a * b
  OBVIOUS
<1>4. BodyLen \in Nat \ {0}
  BY <1>2, <1>3 DEF BodyLen
<1>5. TensorLen \in Nat \ {0} /\ TensorLen <= BodyLen
  <2>1. CASE m.inElemSize = 1
    BY <2>1, <1>2, <1>3 DEF TensorLen, BodyLen
  <2>2. CASE m.inElemSize = SizeofFloat
    BY <2>2, <1>2, <1>3 DEF TensorLen, BodyLen
  <2>3. QED
    BY <2>1, <2>2, <1>2
<1>6. \A o \in {0, 1} : OutLen(o) \in Nat \ {0}
  <2>1. \A a, b \in Nat : a * b \in Nat
    OBVIOUS
  <2>2. QED
    BY <2>1, <1>2 DEF OutLen
<1>7. QED
  BY <1>4, <1>5, <1>6

(* A frame is at least as long as its header.                              *)
LEMMA FrameSizes ==
  ASSUME hdr \in [Conns -> Seq(Header)], NEW c \in Conns, NEW f \in DOMAIN hdr[c]
  PROVE  /\ f \in 1 .. Len(hdr[c])
         /\ hdr[c][f] \in Header
         /\ hdr[c][f].bytes \in Nat
         /\ FrameLen(c, f) \in Nat
         /\ FrameLen(c, f) = HeaderLen + hdr[c][f].bytes
         /\ FrameLen(c, f) >= HeaderLen /\ HeaderLen \in Nat \ {0}
<1>1. hdr[c] \in Seq(Header) /\ f \in 1 .. Len(hdr[c])
  OBVIOUS
<1>2. hdr[c][f] \in Header
  BY <1>1
<1>3. hdr[c][f].bytes \in Nat
  BY <1>2, ConstantsAssumption DEF Header
<1>4. QED
  BY <1>1, <1>2, <1>3, ConstantsAssumption DEF FrameLen

(* Between two frames the next byte is the first of the next frame.        *)
LEMMA NextBetween ==
  ASSUME TypeOK, client \in Conns, Between
  PROVE  NextByte(client) = [f |-> served[client] + 1, o |-> 0]
<1>1. hdr \in [Conns -> Seq(Header)] /\ served[client] \in Nat
  BY DEF TypeOK, ServerTypes, ClientTypes
<1>2. CASE served[client] = 0 /\ rd[client] = [f |-> 1, o |-> 0]
  <2>1. 1 \in DOMAIN hdr[client] => ~(0 >= FrameLen(client, 1))
    BY <1>1, FrameSizes
  <2>2. QED
    BY <1>2, <2>1 DEF NextByte
<1>3. CASE /\ served[client] \in DOMAIN hdr[client]
           /\ rd[client] = [f |-> served[client], o |-> FrameLen(client, served[client])]
  <2>1. FrameLen(client, served[client]) \in Nat
    BY <1>1, <1>3, FrameSizes
  <2>2. FrameLen(client, served[client]) >= FrameLen(client, served[client])
    BY <2>1
  <2>3. QED
    BY <1>3, <2>2 DEF NextByte
<1>4. QED
  BY <1>2, <1>3 DEF Between

(* Within a frame it is the one behind the bytes read.                     *)
LEMMA NextWithin ==
  ASSUME TypeOK, client \in Conns, NEW o \in Nat, Within(o),
         o < FrameLen(client, served[client] + 1)
  PROVE  NextByte(client) = [f |-> served[client] + 1, o |-> o]
<1>1. FrameLen(client, served[client] + 1) \in Nat
  BY FrameSizes DEF TypeOK, ClientTypes, Within
<1>2. QED
  BY <1>1 DEF NextByte, Within

-----------------------------------------------------------------------------
(* Types *)

LEMMA InitType == Init => TypeOK
<1> SUFFICES ASSUME Init PROVE TypeOK
  OBVIOUS
<1>1. ServerTypes
  <2>1. BodyLen \in Nat /\ HeaderLen \in Nat
    BY Sizes, ConstantsAssumption DEF Init
  <2>2. Junk \in [c : Conns \cup {NoConn}, f : Nat, o : Nat]
    BY DEF Junk, Byte
  <2>3. input \in [0 .. BodyLen - 1 -> [c : Conns \cup {NoConn}, f : Nat, o : Nat]]
    BY <2>2 DEF Init
  <2>4. h \in [magic : BOOLEAN, bytes : Nat]
    BY DEF Init
  <2>5. served \in [Conns -> Nat]
    BY DEF Init
  <2>6. failed \in BOOLEAN /\ outs \subseteq (Conns \cup {NoConn}) \X Nat
    BY DEF Init
  <2>7. QED
    BY <2>1, <2>3, <2>4, <2>5, <2>6 DEF Init, ServerTypes
<1>2. SocketTypes
  BY DEF Init, SocketTypes
<1>3. ClientTypes
  BY DEF Init, ClientTypes
<1>4. QED
  BY <1>1, <1>2, <1>3 DEF TypeOK

(* The model never changes.                                                *)
LEMMA ModelFixed == [Next]_vars => m' = m /\ sigpipe' = sigpipe
BY DEF Next, ServerStep, ServerDies, ClientStep, vars, ModelOpen, Listen, Accept,
       ReadHeader, CheckHeader, ReadBody, ReadEnds, Run, TakeOutput, WriteByte,
       WriteVanishes, WriteFails, ReleaseOutputs, CloseClient, StartupFails, RunFails,
       OutputFails, WriteKills, Die, Connect, BeginFrame, Send, SendToClosed,
       Receive, ResetArrives, Close

(* Where the next byte of a stream is.                                     *)
LEMMA NextByteType ==
  ASSUME SocketTypes, NEW c \in Conns
  PROVE  /\ NextByte(c) \in [f : Nat \ {0}, o : Nat]
         /\ NextByte(c).f \in Nat \ {0} /\ NextByte(c).o \in Nat
<1>1. rd[c] \in [f : Nat \ {0}, o : Nat]
  BY DEF SocketTypes
<1>2. [f |-> rd[c].f + 1, o |-> 0] \in [f : Nat \ {0}, o : Nat]
  BY <1>1
<1>3. NextByte(c) \in [f : Nat \ {0}, o : Nat]
  BY <1>1, <1>2 DEF NextByte
<1>4. QED
  BY <1>3

LEMMA ServerTypesStep ==
  ASSUME ReadInv, Next
  PROVE  ServerTypes'
<1>1. ServerTypes /\ SocketTypes /\ ClientTypes /\ Registered /\ Position
  BY DEF ReadInv, TypeOK
<1>2. m' = m /\ BodyLen' = BodyLen /\ BodyLen \in Nat \ {0}
  BY <1>1, ModelFixed, Sizes DEF BodyLen, ServerTypes
<1>3. HeaderLen \in Nat \ {0}
  BY ConstantsAssumption
<1>a. pc \in Serving => client \in Conns
  BY <1>1 DEF Registered
<1> USE DEF ServerTypes
<1>4. CASE ModelOpen
  BY <1>1, <1>2, <1>4 DEF ModelOpen, procVars
<1>5. CASE Listen
  BY <1>1, <1>2, <1>5 DEF Listen, procVars
<1>6. CASE Die
  BY <1>1, <1>2, <1>6 DEF Die
<1>7. CASE Accept
  <2>1. client' \in Conns
    BY <1>1, <1>7 DEF Accept, SocketTypes
  <2>2. QED
    BY <1>1, <1>2, <1>3, <1>7, <2>1 DEF Accept
<1>8. CASE ReadHeader
  <2>1. got' \in Nat /\ (pc' = "header" => got' < HeaderLen)
    <3>1. pc = "header" /\ got \in 0 .. HeaderLen - 1 /\ got' = got + 1
      BY <1>1, <1>3, <1>8 DEF ReadHeader, Position
    <3>2. pc' = "header" => got + 1 # HeaderLen
      BY <1>8 DEF ReadHeader, HeaderComplete
    <3>3. QED
      BY <1>3, <3>1, <3>2
  <2>2. h' \in [magic : BOOLEAN, bytes : Nat]
    <3>1. CASE UNCHANGED h
      BY <1>1, <3>1
    <3>2. CASE h' \in HeadersAt(client, [f |-> NextByte(client).f, o |-> NextByte(client).o + 1])
      <4>1. NextByte(client).f \in 1 .. Len(hdr[client])
        BY <1>1, <1>8, <1>a, NextByteType DEF ReadHeader, Readable, Serving, ClientTypes
      <4>2. hdr[client][NextByte(client).f] \in Header
        BY <4>1, <1>1, <1>8, <1>a DEF ReadHeader, Serving, ClientTypes
      <4>3. Header \subseteq [magic : BOOLEAN, bytes : Nat]
        BY ConstantsAssumption DEF Header
      <4>4. QED
        BY <3>2, <4>2, <4>3 DEF HeadersAt
    <3>3. QED
      BY <3>1, <3>2, <1>8 DEF ReadHeader
  <2>3. pc' \in {"header", "check"}
    BY <1>8 DEF ReadHeader
  <2>4. QED
    BY <1>1, <1>2, <1>8, <2>1, <2>2, <2>3 DEF ReadHeader
<1>9. CASE CheckHeader
  BY <1>1, <1>2, <1>3, <1>9 DEF CheckHeader, LoopLeft
<1>10. CASE ReadBody
  <2>1. got' \in Nat /\ (pc' = "body" => got' < BodyLen)
    <3>1. /\ pc = "body" /\ got \in 0 .. BodyLen - 1 /\ got' = got + 1
          /\ h.bytes = BodyLen
      BY <1>1, <1>10 DEF ReadBody, Position, Declared, HeaderAccepted
    <3>2. pc' = "body" => got + 1 # BodyLen
      BY <1>10, <3>1 DEF ReadBody, BodyComplete
    <3>3. QED
      BY <1>2, <3>1, <3>2
  <2>2. Byte(client, NextByte(client).f, NextByte(client).o)
          \in [c : Conns \cup {NoConn}, f : Nat, o : Nat]
    BY <1>1, <1>10, <1>a, NextByteType DEF Byte, ReadBody, Serving
  <2>3. input' \in [0 .. BodyLen - 1 -> [c : Conns \cup {NoConn}, f : Nat, o : Nat]]
    BY <1>1, <1>10, <2>2 DEF ReadBody
  <2>4. pc' \in {"body", "run"}
    BY <1>10 DEF ReadBody
  <2>5. QED
    BY <1>1, <1>2, <1>10, <2>1, <2>3, <2>4 DEF ReadBody
<1>11. CASE ReadEnds
  BY <1>1, <1>2, <1>11 DEF ReadEnds, LoopLeft, procVars
<1>12. CASE Run
  <2>1. \A k \in 0 .. TensorLen - 1 : k \in 0 .. BodyLen - 1
    BY <1>1, Sizes
  <2>2. FramesIn(input) \subseteq (Conns \cup {NoConn}) \X Nat
    BY <1>1, <2>1 DEF FramesIn
  <2>3. served' \in [Conns -> Nat]
    BY <1>1, <1>12, <1>a DEF Run, Serving
  <2>4. failed' \in BOOLEAN
    BY <1>12 DEF Run
  <2>5. QED
    BY <1>1, <1>2, <1>12, <2>2, <2>3, <2>4 DEF Run
<1>13. CASE TakeOutput
  BY <1>1, <1>2, <1>13 DEF TakeOutput, procVars
<1>14. CASE WriteByte \/ WriteVanishes
  <2>1. pc = "write" /\ WriteAdvances
    BY <1>14 DEF WriteByte, WriteVanishes
  <2>2. off' \in Nat
    BY <1>1, <2>1 DEF WriteAdvances
  <2>3. oi' \in 0 .. 2 /\ pc' \in {"write", "outputs", "release"}
    BY <1>1, <2>1 DEF WriteAdvances, NextOutput, Position
  <2>4. QED
    BY <1>1, <1>2, <1>14, <2>2, <2>3 DEF WriteByte, WriteVanishes
<1>15. CASE WriteFails
  BY <1>1, <1>2, <1>15 DEF WriteFails, AfterFailedWrite
<1>16. CASE ReleaseOutputs
  BY <1>1, <1>2, <1>3, <1>16 DEF ReleaseOutputs, LoopLeft
<1>17. CASE CloseClient
  BY <1>1, <1>2, <1>17 DEF CloseClient
<1>18. ASSUME NEW c \in Conns, ClientStep(c)
       PROVE  ServerTypes'
  <2>1. UNCHANGED <<pc, procVars>>
    BY <1>18 DEF ClientStep, Connect, BeginFrame, Send, SendToClosed, Receive,
                 ResetArrives, Close
  <2>2. QED
    BY <1>1, <1>2, <2>1, ModelFixed DEF procVars
<1>19. QED
  BY <1>4, <1>5, <1>6, <1>7, <1>8, <1>9, <1>10, <1>11, <1>12, <1>13, <1>14, <1>15,
     <1>16, <1>17, <1>18
  DEF Next, ServerStep, ServerDies, StartupFails, RunFails, OutputFails, WriteKills

LEMMA SocketTypesStep ==
  ASSUME ReadInv, Next
  PROVE  SocketTypes'
<1>1. ServerTypes /\ SocketTypes /\ ClientTypes /\ Registered /\ Position
  BY DEF ReadInv, TypeOK
<1>2. pc \in Serving => client \in Conns
  BY <1>1 DEF Registered
<1> USE DEF SocketTypes
<1>3. CASE ModelOpen \/ Listen \/ CheckHeader \/ ReadEnds \/ Run \/ TakeOutput
           \/ WriteFails \/ ReleaseOutputs
  BY <1>1, <1>3 DEF ModelOpen, Listen, CheckHeader, ReadEnds, Run, TakeOutput, WriteFails,
                    ReleaseOutputs, sockVars
<1>4. CASE Die
  BY <1>1, <1>4 DEF Die
<1>5. CASE Accept
  BY <1>1, <1>5 DEF Accept
<1>6. CASE ReadHeader \/ ReadBody
  <2>1. client \in Conns /\ NextByte(client).f \in Nat \ {0} /\ NextByte(client).o + 1 \in Nat
    BY <1>1, <1>2, <1>6, NextByteType DEF ReadHeader, ReadBody, Serving
  <2>2. rd' = [rd EXCEPT ![client] = [f |-> NextByte(client).f, o |-> NextByte(client).o + 1]]
    BY <1>6 DEF ReadHeader, ReadBody
  <2>3. rd' \in [Conns -> [f : Nat \ {0}, o : Nat]]
    BY <1>1, <2>1, <2>2
  <2>4. QED
    BY <1>1, <1>6, <2>3 DEF ReadHeader, ReadBody
<1>7. CASE WriteByte
  <2>1. client \in Conns /\ oi \in 0 .. 2 /\ off \in Nat
        /\ outs \in SUBSET ((Conns \cup {NoConn}) \X Nat)
    BY <1>1, <1>2, <1>7 DEF WriteByte, Serving, ServerTypes
  <2>2. [of |-> outs, o |-> oi, k |-> off] \in ReplyByte
    BY <2>1 DEF ReplyByte
  <2>3. Append(reply[client], [of |-> outs, o |-> oi, k |-> off]) \in Seq(ReplyByte)
    BY <1>1, <2>1, <2>2
  <2>4. reply' \in [Conns -> Seq(ReplyByte)]
    BY <1>1, <1>7, <2>1, <2>3 DEF WriteByte
  <2>5. QED
    BY <1>1, <1>7, <2>4 DEF WriteByte
<1>8. CASE WriteVanishes
  <2>1. peer' \in [Conns -> {"up", "fin", "finrst", "rst"}]
    BY <1>1, <1>2, <1>8 DEF WriteVanishes, Serving
  <2>2. QED
    BY <1>1, <1>8, <2>1 DEF WriteVanishes
<1>9. CASE CloseClient
  <2>1. cutting' \in [Conns -> BOOLEAN]
    BY <1>1, <1>9 DEF CloseClient
  <2>2. phase' \in [Conns -> {"none", "queued", "active", "closed"}]
    BY <1>1, <1>9 DEF CloseClient
  <2>3. QED
    BY <1>1, <1>9, <2>1, <2>2 DEF CloseClient
<1>10. ASSUME NEW c \in Conns, ClientStep(c)
       PROVE  SocketTypes'
  <2>1. CASE Connect(c)
    BY <1>1, <2>1 DEF Connect
  <2>2. CASE BeginFrame(c) \/ Send(c) \/ Receive(c)
    BY <1>1, <2>2 DEF BeginFrame, Send, Receive, sockVars
  <2>3. CASE SendToClosed(c)
    BY <1>1, <2>3 DEF SendToClosed
  <2>4. CASE ResetArrives(c)
    BY <1>1, <2>4 DEF ResetArrives
  <2>5. CASE Close(c)
    BY <1>1, <2>5 DEF Close
  <2>6. QED
    BY <1>10, <2>1, <2>2, <2>3, <2>4, <2>5 DEF ClientStep
<1>11. QED
  BY <1>3, <1>4, <1>5, <1>6, <1>7, <1>8, <1>9, <1>10
  DEF Next, ServerStep, ServerDies, StartupFails, RunFails, OutputFails, WriteKills

LEMMA ClientTypesStep ==
  ASSUME ReadInv, Next
  PROVE  ClientTypes'
<1>1. ClientTypes
  BY DEF ReadInv, TypeOK
<1> USE DEF ClientTypes
<1>2. CASE ServerStep \/ ServerDies
  <2>1. UNCHANGED clientVars
    BY <1>2 DEF ServerStep, ServerDies, ModelOpen, Listen, Accept, ReadHeader, CheckHeader,
         ReadBody, ReadEnds, Run, TakeOutput, WriteByte, WriteVanishes, WriteFails,
         ReleaseOutputs, CloseClient, StartupFails, RunFails, OutputFails, WriteKills,
         Die
  <2>2. QED
    BY <1>1, <2>1 DEF clientVars
<1>3. ASSUME NEW c \in Conns, ClientStep(c)
      PROVE  ClientTypes'
  <2>1. CASE Connect(c) \/ SendToClosed(c) \/ ResetArrives(c) \/ Close(c)
    BY <1>1, <2>1 DEF Connect, SendToClosed, ResetArrives, Close, clientVars
  <2>2. CASE BeginFrame(c)
    <3>1. PICK x \in Header : hdr' = [hdr EXCEPT ![c] = Append(@, x)]
      BY <2>2 DEF BeginFrame
    <3>2. hdr' \in [Conns -> Seq(Header)]
      BY <1>1, <3>1
    <3>3. QED
      BY <1>1, <2>2, <3>2 DEF BeginFrame
  <2>3. CASE Send(c)
    BY <1>1, <2>3 DEF Send
  <2>4. CASE Receive(c)
    BY <1>1, <2>4 DEF Receive
  <2>5. QED
    BY <1>3, <2>1, <2>2, <2>3, <2>4 DEF ClientStep
<1>4. QED
  BY <1>2, <1>3 DEF Next

-----------------------------------------------------------------------------
(* Who is served *)

LEMMA RegisteredStep ==
  ASSUME ReadInv, Next
  PROVE  Registered'
<1>1. ServerTypes /\ SocketTypes /\ ClientTypes /\ Registered
  BY DEF ReadInv, TypeOK
<1>2. /\ queue \in Seq(Conns) /\ phase \in [Conns -> {"none", "queued", "active", "closed"}]
      /\ rd \in [Conns -> [f : Nat \ {0}, o : Nat]] /\ served \in [Conns -> Nat]
      /\ reply \in [Conns -> Seq(ReplyByte)]
  BY <1>1 DEF ServerTypes, SocketTypes
<1> USE DEF Registered
<1>3. CASE ModelOpen \/ Listen \/ CheckHeader \/ ReadEnds \/ TakeOutput \/ WriteFails
           \/ WriteVanishes \/ ReleaseOutputs
  <2>1. UNCHANGED <<client, queue, phase, rd, served, reply>>
    BY <1>3 DEF ModelOpen, Listen, CheckHeader, ReadEnds, TakeOutput, WriteFails,
                WriteVanishes, ReleaseOutputs, procVars, sockVars
  <2>2. pc' \in Serving => pc \in Serving
    BY <1>3 DEF ModelOpen, Listen, CheckHeader, ReadEnds, TakeOutput, WriteFails,
                WriteVanishes, ReleaseOutputs, Serving
  <2>3. QED
    BY <1>1, <2>1, <2>2
<1>4. CASE Die
  BY <1>1, <1>2, <1>4 DEF Die, Serving
<1>5. CASE Accept
  <2>1. queue # <<>> /\ queue' = Tail(queue) /\ client' = Head(queue)
        /\ phase' = [phase EXCEPT ![Head(queue)] = "active"]
        /\ UNCHANGED <<rd, served, reply>>
    BY <1>5 DEF Accept
  <2>2. Head(queue) = queue[1] /\ 1 \in DOMAIN queue /\ Head(queue) \in Conns
    BY <1>2, <2>1
  <2>3. /\ DOMAIN queue' = 1 .. Len(queue) - 1
        /\ \A k \in DOMAIN queue' :
             queue'[k] = queue[k + 1] /\ k + 1 \in DOMAIN queue /\ k + 1 # 1
    <3>1. /\ Len(queue') = Len(queue) - 1 /\ queue' \in Seq(Conns)
          /\ Len(queue) \in Nat /\ Len(queue') \in Nat
          /\ \A k \in 1 .. Len(queue') : queue'[k] = queue[k + 1]
      BY <1>2, <2>1, HeadTailProperties
    <3>2. DOMAIN queue' = 1 .. Len(queue') /\ DOMAIN queue = 1 .. Len(queue)
      BY <1>2, <3>1
    <3>3. QED
      BY <3>1, <3>2
  <2>4. \A k \in DOMAIN queue' : phase'[queue'[k]] = "queued"
    BY <1>1, <1>2, <2>1, <2>2, <2>3
  <2>5. \A k, l \in DOMAIN queue' : k # l => queue'[k] # queue'[l]
    BY <1>1, <2>3
  <2>6. client' \in Conns /\ phase'[client'] = "active"
    BY <1>2, <2>1, <2>2
  <2>7. \A c \in Conns : phase'[c] \in {"none", "queued"} => phase'[c] = phase[c]
    BY <1>2, <2>1
  <2>8. QED
    BY <1>1, <2>1, <2>4, <2>5, <2>6, <2>7
<1>6. CASE ReadHeader \/ ReadBody \/ Run \/ WriteByte
  <2>1. client \in Conns /\ phase[client] = "active"
    BY <1>1, <1>6 DEF ReadHeader, ReadBody, Run, WriteByte, Serving
  <2>2. UNCHANGED <<client, queue, phase>>
    BY <1>6 DEF ReadHeader, ReadBody, Run, WriteByte, sockVars
  <2>3. \A c \in Conns \ {client} :
          served'[c] = served[c] /\ rd'[c] = rd[c] /\ reply'[c] = reply[c]
    <3>1. CASE ReadHeader \/ ReadBody
      BY <1>2, <3>1 DEF ReadHeader, ReadBody
    <3>2. CASE Run
      BY <1>2, <3>2 DEF Run, sockVars
    <3>3. CASE WriteByte
      BY <1>2, <3>3 DEF WriteByte
    <3>4. QED
      BY <1>6, <3>1, <3>2, <3>3
  <2>4. QED
    BY <1>1, <2>1, <2>2, <2>3
<1>7. CASE CloseClient
  <2>1. client \in Conns /\ phase[client] = "active"
    BY <1>1, <1>7 DEF CloseClient, Serving
  <2>2. phase' = [phase EXCEPT ![client] = "closed"] /\ pc' = "accept"
        /\ UNCHANGED <<queue, rd, served, reply>>
    BY <1>7 DEF CloseClient
  <2>3. QED
    BY <1>1, <1>2, <2>1, <2>2 DEF Serving
<1>8. ASSUME NEW c \in Conns, ClientStep(c)
      PROVE  Registered'
  <2>1. CASE Connect(c)
    <3>1. /\ phase[c] = "none" /\ phase' = [phase EXCEPT ![c] = "queued"]
          /\ queue' = Append(queue, c)
          /\ UNCHANGED <<pc, client, rd, served, reply>>
      BY <2>1 DEF Connect, procVars
    <3>2. /\ DOMAIN queue' = 1 .. Len(queue) + 1
          /\ \A k \in DOMAIN queue : queue'[k] = queue[k]
          /\ queue'[Len(queue) + 1] = c
          /\ DOMAIN queue = 1 .. Len(queue) /\ Len(queue) \in Nat
      BY <1>2, <3>1
    <3>3. \A k \in DOMAIN queue : queue[k] # c
      BY <1>1, <3>1
    <3>4. \A k \in DOMAIN queue' : phase'[queue'[k]] = "queued"
      <4> SUFFICES ASSUME NEW k \in DOMAIN queue' PROVE phase'[queue'[k]] = "queued"
        OBVIOUS
      <4>1. CASE k = Len(queue) + 1
        BY <1>2, <3>1, <3>2, <4>1
      <4>2. CASE k \in DOMAIN queue
        BY <1>1, <1>2, <3>1, <3>2, <3>3, <4>2
      <4>3. QED
        BY <3>2, <4>1, <4>2
    <3>5. \A k, l \in DOMAIN queue' : k # l => queue'[k] # queue'[l]
      <4> SUFFICES ASSUME NEW k \in DOMAIN queue', NEW l \in DOMAIN queue', k # l
                   PROVE  queue'[k] # queue'[l]
        OBVIOUS
      <4>1. CASE k = Len(queue) + 1
        BY <3>2, <3>3, <4>1
      <4>2. CASE l = Len(queue) + 1
        BY <3>2, <3>3, <4>2
      <4>3. CASE k \in DOMAIN queue /\ l \in DOMAIN queue
        BY <1>1, <3>2, <4>3
      <4>4. QED
        BY <3>2, <4>1, <4>2, <4>3
    <3>6. QED
      BY <1>1, <1>2, <3>1, <3>4, <3>5
  <2>2. CASE BeginFrame(c) \/ Send(c) \/ SendToClosed(c) \/ Receive(c) \/ ResetArrives(c)
             \/ Close(c)
    <3>1. UNCHANGED <<pc, client, queue, phase, rd, served, reply>>
      BY <2>2 DEF BeginFrame, Send, SendToClosed, Receive, ResetArrives, Close, procVars,
                  sockVars
    <3>2. QED
      BY <1>1, <3>1
  <2>3. QED
    BY <1>8, <2>1, <2>2 DEF ClientStep
<1>9. QED
  BY <1>3, <1>4, <1>5, <1>6, <1>7, <1>8
  DEF Next, ServerStep, ServerDies, StartupFails, RunFails, OutputFails, WriteKills

-----------------------------------------------------------------------------
(* How far the server has read *)

(* What was read and declared stays when nothing but the place in the loop *)
(* and the headers behind the ones begun change.                           *)
LEMMA PlacesKept ==
  ASSUME ReadInv, client \in Conns, m' = m,
         UNCHANGED <<client, h, input, served, rd>>,
         \A f \in DOMAIN hdr[client] :
           f \in DOMAIN hdr'[client] /\ hdr'[client][f] = hdr[client][f]
  PROVE  /\ Between => Between'
         /\ \A o : Within(o) => Within(o)'
         /\ \A n : Filled(n) => Filled(n)'
         /\ served[client] + 1 \in DOMAIN hdr[client] =>
              hdr'[client][served[client] + 1] = hdr[client][served[client] + 1]
         /\ Declared /\ served[client] + 1 \in DOMAIN hdr[client] => Declared'
         /\ BodyLen' = BodyLen
<1>1. BodyLen' = BodyLen
  BY DEF BodyLen
<1>2. Between => Between'
  BY DEF Between, FrameLen
<1>3. \A o : Within(o) => Within(o)'
  BY DEF Within
<1>4. \A n : Filled(n) => Filled(n)'
  BY <1>1 DEF Filled
<1>5. Declared /\ served[client] + 1 \in DOMAIN hdr[client] => Declared'
  BY <1>1 DEF Declared, HeaderAccepted
<1>6. QED
  BY <1>1, <1>2, <1>3, <1>4, <1>5

LEMMA PositionStep ==
  ASSUME ReadInv, Next
  PROVE  Position'
<1>1. TypeOK /\ ServerTypes /\ SocketTypes /\ ClientTypes /\ Registered /\ Position
  BY DEF ReadInv, TypeOK
<1>2. m' = m /\ BodyLen' = BodyLen /\ BodyLen \in Nat \ {0} /\ HeaderLen \in Nat \ {0}
  BY <1>1, ModelFixed, Sizes, ConstantsAssumption DEF BodyLen, ServerTypes
<1>3. pc \in Serving => client \in Conns
  BY <1>1 DEF Registered
<1>4. got \in Nat /\ oi \in 0 .. 2 /\ served \in [Conns -> Nat] /\ hdr \in [Conns -> Seq(Header)]
      /\ rd \in [Conns -> [f : Nat \ {0}, o : Nat]]
      /\ input \in [0 .. BodyLen - 1 -> [c : Conns \cup {NoConn}, f : Nat, o : Nat]]
  BY <1>1 DEF ServerTypes, SocketTypes, ClientTypes
<1>5. CASE ModelOpen \/ Listen \/ Die \/ CloseClient
  BY <1>5 DEF ModelOpen, Listen, Die, CloseClient, Position
<1>6. CASE ReadEnds
  BY <1>6 DEF ReadEnds, LoopLeft, Position
<1>7. CASE Accept
  <2>1. client' \in Conns /\ phase[client'] = "queued"
    BY <1>1, <1>7 DEF Accept, SocketTypes, Registered
  <2>2. served'[client'] = 0 /\ rd'[client'] = [f |-> 1, o |-> 0]
    BY <1>1, <1>7, <2>1 DEF Accept, Registered
  <2>3. Between'
    BY <2>2 DEF Between
  <2>4. QED
    BY <1>7, <2>3 DEF Accept, Position
<1>8. CASE ReadHeader
  <2>1. pc = "header" /\ client \in Conns /\ Readable(client)
    BY <1>3, <1>8 DEF ReadHeader, Serving
  <2>2. NextByte(client) = [f |-> served[client] + 1, o |-> got] /\ got \in 0 .. HeaderLen - 1
    <3>1. CASE got = 0 /\ Between
      BY <1>1, <1>2, <2>1, <3>1, NextBetween
    <3>2. CASE got \in 1 .. HeaderLen - 1 /\ Within(got)
      <4>1. got < FrameLen(client, served[client] + 1)
        BY <1>2, <1>4, <2>1, <3>2, FrameSizes DEF Within
      <4>2. QED
        BY <1>1, <1>2, <1>4, <2>1, <3>2, <4>1, NextWithin
    <3>3. QED
      BY <1>1, <2>1, <3>1, <3>2 DEF Position
  <2>3. served[client] + 1 \in DOMAIN hdr[client]
    BY <1>4, <2>1, <2>2 DEF Readable
  <2>4. rd' = [rd EXCEPT ![client] = [f |-> served[client] + 1, o |-> got + 1]]
        /\ got' = got + 1 /\ UNCHANGED <<client, served, hdr>>
    BY <1>8, <2>2 DEF ReadHeader, clientVars
  <2>5. Within(got)'
    BY <1>4, <2>1, <2>3, <2>4 DEF Within
  <2>6. CASE got + 1 = HeaderLen
    <3>1. h' \in HeadersAt(client, [f |-> served[client] + 1, o |-> got + 1]) /\ pc' = "check"
      BY <1>8, <2>2, <2>6 DEF ReadHeader, HeaderComplete
    <3>2. (h = hdr[client][served[client] + 1])'
      BY <2>4, <2>6, <3>1 DEF HeadersAt
    <3>3. Within(HeaderLen)' /\ got' = HeaderLen
      BY <2>4, <2>5, <2>6 DEF Within
    <3>4. QED
      BY <3>1, <3>2, <3>3 DEF Position
  <2>7. CASE got + 1 # HeaderLen
    <3>1. pc' = "header"
      BY <1>8, <2>1, <2>7 DEF ReadHeader, HeaderComplete
    <3>2. got' \in 1 .. HeaderLen - 1
      BY <1>2, <1>4, <2>2, <2>4, <2>7
    <3>3. QED
      BY <2>5, <3>1, <3>2 DEF Position
  <2>8. QED
    BY <2>6, <2>7
<1>9. CASE CheckHeader
  <2>1. pc = "check" /\ client \in Conns /\ got' = 0
        /\ UNCHANGED <<client, h, input, served, rd, hdr>>
    BY <1>3, <1>9 DEF CheckHeader, Serving, sockVars, clientVars
  <2>2. Within(HeaderLen) /\ h = hdr[client][served[client] + 1]
    BY <1>1, <2>1 DEF Position
  <2>3. CASE HeaderAccepted(h)
    <3>1. pc' = "body"
      BY <1>9, <2>3 DEF CheckHeader
    <3>2. Within(HeaderLen)' /\ Declared'
      BY <1>2, <1>1, <2>1, <2>2, <2>3, PlacesKept DEF Declared, Within, ReadInv
    <3>3. Filled(got)'
      BY <1>2, <2>1 DEF Filled
    <3>4. got' \in 0 .. BodyLen' - 1 /\ HeaderLen + got' = HeaderLen
      BY <1>2, <2>1
    <3>5. Within(HeaderLen + got)' /\ Filled(got)'
      BY <3>2, <3>3, <3>4 DEF Within
    <3>6. QED
      BY <3>1, <3>2, <3>4, <3>5 DEF Position
  <2>4. CASE ~HeaderAccepted(h)
    BY <1>9, <2>4 DEF CheckHeader, LoopLeft, Position
  <2>5. QED
    BY <2>3, <2>4
<1>10. CASE ReadBody
  <2>1. pc = "body" /\ client \in Conns
    BY <1>3, <1>10 DEF ReadBody, Serving
  <2>2. got \in 0 .. BodyLen - 1 /\ Within(HeaderLen + got) /\ Declared /\ Filled(got)
    BY <1>1, <2>1 DEF Position
  <2>3. served[client] + 1 \in DOMAIN hdr[client] /\ h.bytes = BodyLen
    BY <2>2 DEF Within, Declared, HeaderAccepted
  <2>4. FrameLen(client, served[client] + 1) = HeaderLen + BodyLen
    BY <1>4, <2>1, <2>2, <2>3, FrameSizes DEF Declared
  <2>5. NextByte(client) = [f |-> served[client] + 1, o |-> HeaderLen + got]
    <3>1. HeaderLen + got \in Nat /\ HeaderLen + got < HeaderLen + BodyLen
      BY <1>2, <2>2
    <3>2. QED
      BY <1>1, <2>1, <2>2, <2>4, <3>1, NextWithin
  <2>6. /\ rd' = [rd EXCEPT ![client] = [f |-> served[client] + 1, o |-> HeaderLen + got + 1]]
        /\ input' = [input EXCEPT ![got] = Byte(client, served[client] + 1, HeaderLen + got)]
        /\ got' = got + 1 /\ pc' = IF got + 1 = BodyLen THEN "run" ELSE "body"
        /\ UNCHANGED <<client, h, served, hdr>>
    BY <1>10, <2>3, <2>5 DEF ReadBody, BodyComplete, clientVars
  <2>7. HeaderLen + got + 1 = HeaderLen + (got + 1) /\ got + 1 \in Nat
    BY <1>2, <2>2
  <2>8. Within(HeaderLen + got)'
    BY <1>4, <2>1, <2>3, <2>6, <2>7 DEF Within
  <2>9. Declared'
    BY <1>2, <2>2, <2>6 DEF Declared, HeaderAccepted
  <2>10. Filled(got)'
    <3> SUFFICES ASSUME NEW k \in 0 .. BodyLen - 1, k < got + 1
                 PROVE  input'[k] = Byte(client, served[client] + 1, HeaderLen + k)
      BY <1>2, <2>6 DEF Filled
    <3>1. CASE k = got
      BY <1>4, <2>6, <3>1
    <3>2. CASE k < got
      <4>1. input[k] = Byte(client, served[client] + 1, HeaderLen + k)
        BY <2>2, <3>2 DEF Filled
      <4>2. QED
        BY <1>4, <2>2, <2>6, <3>2, <4>1
    <3>3. QED
      BY <2>2, <3>1, <3>2
  <2>11. CASE got + 1 = BodyLen
    <3>1. pc' = "run" /\ got' = BodyLen'
      BY <1>2, <2>6, <2>11
    <3>2. Within(HeaderLen + BodyLen)' /\ Filled(BodyLen)'
      BY <2>8, <2>10, <3>1 DEF Within, Filled
    <3>3. QED
      BY <2>9, <3>1, <3>2 DEF Position
  <2>12. CASE got + 1 # BodyLen
    <3>1. pc' = "body" /\ got' \in 0 .. BodyLen' - 1
      BY <1>2, <2>2, <2>6, <2>12
    <3>2. QED
      BY <2>8, <2>9, <2>10, <3>1 DEF Position
  <2>13. QED
    BY <2>11, <2>12
<1>11. CASE Run
  <2>1. pc = "run" /\ client \in Conns /\ pc' = "outputs" /\ oi' = 0
        /\ served' = [served EXCEPT ![client] = @ + 1] /\ UNCHANGED <<client, rd, hdr>>
    BY <1>3, <1>11 DEF Run, Serving, sockVars, clientVars
  <2>2. Within(HeaderLen + BodyLen) /\ Declared
    BY <1>1, <2>1 DEF Position
  <2>3. served[client] + 1 \in DOMAIN hdr[client] /\ h.bytes = BodyLen
        /\ rd[client] = [f |-> served[client] + 1, o |-> HeaderLen + BodyLen]
    BY <2>2 DEF Within, Declared, HeaderAccepted
  <2>4. FrameLen(client, served[client] + 1) = HeaderLen + BodyLen
    BY <1>4, <2>1, <2>2, <2>3, FrameSizes DEF Declared
  <2>5. served'[client] = served[client] + 1
    BY <1>4, <2>1
  <2>6. Between'
    BY <2>1, <2>3, <2>4, <2>5 DEF Between, FrameLen
  <2>7. QED
    BY <2>1, <2>6 DEF Position
<1>12. CASE TakeOutput
  <2>1. pc = "outputs" /\ pc' = "write" /\ UNCHANGED <<client, oi, served, rd, hdr>>
    BY <1>12 DEF TakeOutput, procVars, sockVars, clientVars
  <2>2. Between /\ oi \in {0, 1}
    BY <1>1, <2>1 DEF Position
  <2>3. Between'
    BY <2>1, <2>2 DEF Between, FrameLen
  <2>4. QED
    BY <2>1, <2>2, <2>3 DEF Position
<1>13. CASE WriteByte \/ WriteVanishes
  <2>1. pc = "write" /\ WriteAdvances /\ UNCHANGED <<client, served, rd, hdr>>
    BY <1>13 DEF WriteByte, WriteVanishes, clientVars
  <2>2. Between /\ oi \in {0, 1}
    BY <1>1, <2>1 DEF Position
  <2>3. Between'
    BY <2>1, <2>2 DEF Between, FrameLen
  <2>4. /\ pc' \in {"outputs", "write", "release"}
        /\ pc' \in {"outputs", "write"} => oi' \in {0, 1}
    BY <2>1, <2>2 DEF WriteAdvances, NextOutput
  <2>5. QED
    BY <2>3, <2>4 DEF Position
<1>14. CASE WriteFails
  <2>1. pc = "write" /\ pc' = "release" /\ UNCHANGED <<client, served, rd, hdr>>
    BY <1>14 DEF WriteFails, AfterFailedWrite, sockVars, clientVars
  <2>2. Between'
    BY <1>1, <2>1 DEF Position, Between, FrameLen
  <2>3. QED
    BY <2>1, <2>2 DEF Position
<1>15. CASE ReleaseOutputs
  <2>1. pc = "release" /\ pc' \in {"close", "header"} /\ got' = 0
        /\ UNCHANGED <<client, served, rd, hdr>>
    BY <1>15 DEF ReleaseOutputs, LoopLeft, sockVars, clientVars
  <2>2. Between'
    BY <1>1, <2>1 DEF Position, Between, FrameLen
  <2>3. QED
    BY <2>1, <2>2 DEF Position
<1>16. ASSUME NEW c \in Conns, ClientStep(c)
       PROVE  Position'
  <2>1. UNCHANGED <<pc, client, h, input, got, oi, served, rd>>
    BY <1>16 DEF ClientStep, Connect, BeginFrame, Send, SendToClosed, Receive, ResetArrives,
         Close, procVars, sockVars
  <2>2. CASE pc \notin Serving
    BY <2>1, <2>2 DEF Position, Serving
  <2>3. CASE pc \in Serving
    <3>1. client \in Conns
      BY <1>3, <2>3
    <3>2. \A f \in DOMAIN hdr[client] :
            f \in DOMAIN hdr'[client] /\ hdr'[client][f] = hdr[client][f]
      <4>1. CASE UNCHANGED hdr
        BY <4>1
      <4>2. CASE BeginFrame(c)
        <5>1. PICK x \in Header : hdr' = [hdr EXCEPT ![c] = Append(@, x)]
          BY <4>2 DEF BeginFrame
        <5>2. hdr[c] \in Seq(Header)
          BY <1>4
        <5>3. \A f \in DOMAIN hdr[c] :
                f \in DOMAIN Append(hdr[c], x) /\ Append(hdr[c], x)[f] = hdr[c][f]
          BY <5>2
        <5>4. QED
          BY <1>4, <3>1, <5>1, <5>3
      <4>3. QED
        BY <1>16, <4>1, <4>2 DEF ClientStep, Connect, Send, SendToClosed, Receive,
             ResetArrives, Close, clientVars
    <3>3. QED
      BY <1>1, <1>2, <2>1, <3>1, <3>2, PlacesKept DEF Position, ReadInv, Within
  <2>4. QED
    BY <2>2, <2>3
<1>17. QED
  BY <1>5, <1>6, <1>7, <1>8, <1>9, <1>10, <1>11, <1>12, <1>13, <1>14, <1>15, <1>16
  DEF Next, ServerStep, ServerDies, StartupFails, RunFails, OutputFails, WriteKills

-----------------------------------------------------------------------------
(* The invariant holds throughout, and what it implies.                    *)

LEMMA ReadInvInvariant == Spec => []ReadInv
<1>1. Init => ReadInv
  <2> SUFFICES ASSUME Init PROVE ReadInv
    OBVIOUS
  <2>1. Registered
    BY DEF Init, Registered, Serving
  <2>2. Position
    BY DEF Init, Position
  <2>3. QED
    BY <2>1, <2>2, InitType DEF ReadInv
<1>2. ReadInv /\ [Next]_vars => ReadInv'
  <2> SUFFICES ASSUME ReadInv, [Next]_vars PROVE ReadInv'
    OBVIOUS
  <2>1. CASE Next
    BY <2>1, ServerTypesStep, SocketTypesStep, ClientTypesStep, RegisteredStep,
       PositionStep DEF ReadInv, TypeOK
  <2>2. CASE UNCHANGED vars
    <3>1. UNCHANGED <<pc, m, sigpipe, client, h, input, got, outs, oi, off, failed, served,
                      queue, phase, peer, rd, reply, cutting, hdr, sent, rcvd>>
      BY <2>2 DEF vars, procVars, sockVars, clientVars
    <3>2. BodyLen' = BodyLen
      BY <3>1 DEF BodyLen
    <3>3. ServerTypes'
      BY <3>1, <3>2 DEF ReadInv, TypeOK, ServerTypes
    <3>4. SocketTypes' /\ ClientTypes'
      BY <3>1 DEF ReadInv, TypeOK, SocketTypes, ClientTypes
    <3>5. Registered'
      BY <3>1 DEF ReadInv, Registered
    <3>6. Position'
      BY <3>1, <3>2 DEF ReadInv, Position, Between, Within, Declared, Filled,
         HeaderAccepted, FrameLen
    <3>7. QED
      BY <3>3, <3>4, <3>5, <3>6 DEF ReadInv, TypeOK
  <2>3. QED
    BY <2>1, <2>2
<1>3. QED
  BY <1>1, <1>2, PTL DEF Spec

(* Every variable keeps its type, and no read of the server goes past the  *)
(* header or the end of the input buffer.                                  *)
THEOREM TypeCorrect == Spec => []TypeOK
<1>1. ReadInv => TypeOK
  BY DEF ReadInv
<1>2. QED
  BY <1>1, ReadInvInvariant, PTL

(* Whenever the network runs, the input buffer holds exactly the body of   *)
(* the next frame of the client being served, whatever earlier frames and  *)
(* earlier clients, including those that left in the middle, put there.    *)
THEOREM WholeFrames == Spec => []RunsOnWholeFrame
<1>1. ReadInv => RunsOnWholeFrame
  <2> SUFFICES ASSUME ReadInv, pc = "run"
               PROVE  /\ served[client] + 1 \in DOMAIN hdr[client]
                      /\ hdr[client][served[client] + 1].magic
                      /\ \A k \in 0 .. BodyLen - 1 :
                           input[k] = Byte(client, served[client] + 1, HeaderLen + k)
    BY DEF RunsOnWholeFrame
  <2>1. Within(HeaderLen + BodyLen) /\ Declared /\ Filled(BodyLen)
    BY DEF ReadInv, Position
  <2>2. BodyLen \in Nat \ {0}
    BY Sizes DEF ReadInv, TypeOK, ServerTypes
  <2>3. QED
    BY <2>1, <2>2 DEF Within, Declared, HeaderAccepted, Filled
<1>2. QED
  BY <1>1, ReadInvInvariant, PTL

(* Whenever the server starts to read a header, the next byte of its       *)
(* client's stream is the first of the frame after the ones it ran.        *)
THEOREM FramingIsKept == Spec => []FramingKept
<1>1. ReadInv => FramingKept
  <2> SUFFICES ASSUME ReadInv, pc = "header", got = 0
               PROVE  NextByte(client) = [f |-> served[client] + 1, o |-> 0]
    BY DEF FramingKept
  <2>1. TypeOK /\ Registered /\ Position /\ client \in Conns
    BY DEF ReadInv, Registered, Serving
  <2>2. Between
    BY <2>1 DEF Position
  <2>3. QED
    BY <2>1, <2>2, NextBetween
<1>2. QED
  BY <1>1, ReadInvInvariant, PTL

-----------------------------------------------------------------------------
(* What is sent back *)

(* The byte that would continue the reply sent to c so far.                *)
Expected(c) ==
  IF reply[c] = <<>> THEN Unit(c, 1, 0, 0) ELSE Successor(reply[c][Len(reply[c])])

(* The byte the server writes next continues it, as long as its client is  *)
(* there to be written to; for one that went away nothing is claimed.      *)
InStep ==
  pc \in Serving /\ peer[client] = "up" =>
    /\ pc \in {"header", "check", "body", "run"} \/ (pc = "release" /\ ~failed) =>
         Expected(client) = Unit(client, served[client] + 1, 0, 0)
    /\ pc \in {"outputs", "write"} =>
         /\ outs = {<<client, served[client]>>}
         /\ Expected(client) = Unit(client, served[client], oi, off)

ReplyInv == ReadInv /\ ReplyStream /\ InStep

(* What was sent and what is expected depend on nothing but the reply and  *)
(* the sizes of the outputs.                                               *)
LEMMA StreamKept ==
  ASSUME m' = m, reply' = reply
  PROVE  /\ \A c : Expected(c)' = Expected(c)
         /\ ReplyStream => ReplyStream'
<1>1. \A o : OutLen(o)' = OutLen(o)
  BY DEF OutLen
<1>2. \A u : Successor(u)' = Successor(u)
  BY <1>1 DEF Successor
<1>3. \A c : Expected(c)' = Expected(c)
  BY <1>2 DEF Expected, Unit
<1>4. ReplyStream => ReplyStream'
  BY <1>2 DEF ReplyStream, Unit
<1>5. QED
  BY <1>3, <1>4

(* The network read the bytes of one frame, and at least one of them.      *)
LEMMA OneFrame ==
  ASSUME ReadInv, pc = "run"
  PROVE  FramesIn(input) = {<<client, served[client] + 1>>}
<1>1. TensorLen \in Nat \ {0} /\ TensorLen <= BodyLen /\ BodyLen \in Nat \ {0}
  BY Sizes DEF ReadInv, TypeOK, ServerTypes
<1>2. Filled(BodyLen)
  BY DEF ReadInv, Position
<1>3. \A k \in 0 .. TensorLen - 1 :
        input[k].c = client /\ input[k].f = served[client] + 1
  <2> SUFFICES ASSUME NEW k \in 0 .. TensorLen - 1
               PROVE  input[k].c = client /\ input[k].f = served[client] + 1
    OBVIOUS
  <2>1. k \in 0 .. BodyLen - 1 /\ k < BodyLen
    BY <1>1
  <2>2. input[k] = Byte(client, served[client] + 1, HeaderLen + k)
    BY <1>2, <2>1 DEF Filled
  <2>3. QED
    BY <2>2 DEF Byte
<1>4. 0 \in 0 .. TensorLen - 1
  BY <1>1
<1>5. QED
  BY <1>3, <1>4 DEF FramesIn

(* A byte written to a client that is there.                               *)
LEMMA ReplyGrows ==
  ASSUME ReplyInv, WriteByte
  PROVE  ReplyStream' /\ InStep'
<1>1. /\ pc = "write" /\ client \in Conns /\ peer[client] = "up"
      /\ oi \in {0, 1} /\ off \in Nat /\ served[client] \in Nat
      /\ reply \in [Conns -> Seq(ReplyByte)]
  BY DEF ReplyInv, ReadInv, TypeOK, ServerTypes, SocketTypes, Registered, Position,
         WriteByte, Serving
<1>2. outs = {<<client, served[client]>>}
      /\ Expected(client) = Unit(client, served[client], oi, off)
  BY <1>1 DEF ReplyInv, InStep, Serving
<1> DEFINE u == Unit(client, served[client], oi, off)
<1>3. /\ reply' = [reply EXCEPT ![client] = Append(@, u)]
      /\ WriteAdvances /\ m' = m /\ UNCHANGED <<client, served, peer, outs>>
  BY <1>2 DEF WriteByte, Unit
<1>4. \A v : Successor(v)' = Successor(v)
  BY <1>3 DEF Successor, OutLen
<1>5. /\ reply[client] \in Seq(ReplyByte) /\ Len(reply[client]) \in Nat
      /\ reply'[client] = Append(reply[client], u)
      /\ \A c \in Conns \ {client} : reply'[c] = reply[c]
  BY <1>1, <1>3
<1>6. /\ Len(reply'[client]) = Len(reply[client]) + 1
      /\ reply'[client][Len(reply[client]) + 1] = u
      /\ \A j \in 1 .. Len(reply[client]) : reply'[client][j] = reply[client][j]
  BY <1>5
<1>7. ReplyStream'
  <2> SUFFICES ASSUME NEW c \in Conns, NEW j \in 1 .. Len(reply'[c])
               PROVE  reply'[c][j] = IF j = 1 THEN Unit(c, 1, 0, 0)
                                              ELSE Successor(reply'[c][j - 1])
    BY <1>4 DEF ReplyStream, Unit
  <2>1. CASE c # client
    BY <1>5, <2>1 DEF ReplyInv, ReplyStream
  <2>2. CASE c = client /\ j \in 1 .. Len(reply[client])
    <3>1. j # 1 => j - 1 \in 1 .. Len(reply[client])
      BY <1>5, <2>2
    <3>2. QED
      BY <1>5, <1>6, <2>2, <3>1 DEF ReplyInv, ReplyStream
  <2>3. CASE c = client /\ j = Len(reply[client]) + 1
    <3>1. CASE reply[client] = <<>>
      BY <1>2, <1>5, <1>6, <2>3, <3>1 DEF Expected
    <3>2. CASE reply[client] # <<>>
      <4>1. j - 1 = Len(reply[client]) /\ Len(reply[client]) \in 1 .. Len(reply[client])
            /\ j # 1
        BY <1>5, <2>3, <3>2
      <4>2. u = Successor(reply[client][Len(reply[client])])
        BY <1>2, <3>2 DEF Expected
      <4>3. QED
        BY <1>6, <2>3, <4>1, <4>2
    <3>3. QED
      BY <3>1, <3>2
  <2>4. QED
    BY <1>5, <1>6, <2>1, <2>2, <2>3
<1>8. Expected(client)' = Successor(u)
  <2>1. reply'[client] # <<>> /\ reply'[client][Len(reply'[client])] = u
    BY <1>5, <1>6
  <2>2. QED
    BY <1>3, <1>4, <2>1 DEF Expected
<1>9. u.o = oi /\ u.k = off /\ u.of = {<<client, served[client]>>}
  BY DEF Unit
<1>10. InStep'
  <2>1. CASE off + 1 < OutLen(oi)
    <3>1. pc' = "write" /\ oi' = oi /\ off' = off + 1
      BY <1>1, <1>3, <2>1 DEF WriteAdvances
    <3>2. Successor(u) = Unit(client, served[client], oi, off + 1)
      BY <1>9, <2>1 DEF Successor, Unit
    <3>3. QED
      BY <1>2, <1>3, <1>8, <3>1, <3>2 DEF InStep, Unit
  <2>2. CASE ~(off + 1 < OutLen(oi)) /\ oi = 0
    <3>1. pc' = "outputs" /\ oi' = 1 /\ off' = 0
      BY <1>3, <2>2 DEF WriteAdvances, NextOutput
    <3>2. Successor(u) = Unit(client, served[client], 1, 0)
      BY <1>9, <2>2 DEF Successor, Unit
    <3>3. QED
      BY <1>2, <1>3, <1>8, <3>1, <3>2 DEF InStep, Unit
  <2>3. CASE ~(off + 1 < OutLen(oi)) /\ oi = 1
    <3>1. pc' = "release"
      BY <1>3, <2>3 DEF WriteAdvances, NextOutput
    <3>2. {<<p[1], p[2] + 1>> : p \in u.of} = {<<client, served[client] + 1>>}
      BY <1>9
    <3>3. Successor(u) = Unit(client, served[client] + 1, 0, 0)
      BY <1>9, <2>3, <3>2 DEF Successor, Unit
    <3>4. QED
      BY <1>3, <1>8, <3>1, <3>3 DEF InStep, Unit
  <2>4. QED
    BY <1>1, <2>1, <2>2, <2>3
<1>11. QED
  BY <1>7, <1>10

LEMMA ReplyStep ==
  ASSUME ReplyInv, Next
  PROVE  ReplyStream' /\ InStep'
<1>1. ReadInv /\ Registered /\ Position /\ ReplyStream /\ InStep
      /\ served \in [Conns -> Nat] /\ peer \in [Conns -> {"up", "fin", "finrst", "rst"}]
      /\ queue \in Seq(Conns)
  BY DEF ReplyInv, ReadInv, TypeOK, ServerTypes, SocketTypes
<1>2. m' = m
  BY ModelFixed
<1>3. CASE WriteByte
  BY <1>3, ReplyGrows
<1>4. CASE ModelOpen \/ Listen \/ Die \/ CloseClient
  <2>1. reply' = reply /\ pc' \notin Serving
    BY <1>4 DEF ModelOpen, Listen, Die, CloseClient, sockVars, Serving
  <2>2. QED
    BY <1>1, <1>2, <2>1, StreamKept DEF InStep
<1>5. CASE Accept
  <2>1. reply' = reply /\ pc' = "header" /\ served' = served
    BY <1>5 DEF Accept
  <2>2. client' \in Conns /\ phase[client'] = "queued"
    BY <1>1, <1>5 DEF Accept, Registered
  <2>3. served[client'] = 0 /\ reply[client'] = <<>>
    BY <1>1, <2>2 DEF Registered
  <2>4. Expected(client') = Unit(client', 1, 0, 0)
    BY <2>3 DEF Expected
  <2>5. (Expected(client) = Unit(client, served[client] + 1, 0, 0))'
    BY <1>2, <2>1, <2>3, <2>4, StreamKept DEF Unit
  <2>6. QED
    BY <1>1, <1>2, <2>1, <2>5, StreamKept DEF InStep
<1>6. CASE ReadHeader \/ CheckHeader \/ ReadBody \/ ReadEnds
  <2>1. UNCHANGED <<client, served, peer, reply>> /\ pc \in {"header", "check", "body"}
        /\ pc' \in {"header", "check", "body", "run", "close"}
    BY <1>6 DEF ReadHeader, CheckHeader, ReadBody, ReadEnds, LoopLeft, procVars, sockVars
  <2>2. peer[client] = "up" => Expected(client) = Unit(client, served[client] + 1, 0, 0)
    BY <1>1, <2>1 DEF InStep, Serving
  <2>3. QED
    BY <1>1, <1>2, <2>1, <2>2, StreamKept DEF InStep, Unit
<1>7. CASE Run
  <2>1. /\ pc = "run" /\ pc' = "outputs" /\ outs' = FramesIn(input)
        /\ served' = [served EXCEPT ![client] = @ + 1] /\ oi' = 0 /\ off' = 0
        /\ UNCHANGED <<client, peer, reply>>
    BY <1>7 DEF Run, sockVars
  <2>2. client \in Conns
    BY <1>1, <2>1 DEF Registered, Serving
  <2>3. served'[client] = served[client] + 1
    BY <1>1, <2>1, <2>2
  <2>4. outs' = {<<client, served'[client]>>}
    BY <1>1, <2>1, <2>3, OneFrame
  <2>5. peer[client] = "up" => Expected(client) = Unit(client, served'[client], 0, 0)
    BY <1>1, <2>1, <2>3 DEF InStep, Serving
  <2>6. QED
    BY <1>1, <1>2, <2>1, <2>4, <2>5, StreamKept DEF InStep, Unit
<1>8. CASE TakeOutput
  <2>1. UNCHANGED <<client, served, peer, reply, outs, oi, off>> /\ pc = "outputs"
        /\ pc' = "write"
    BY <1>8 DEF TakeOutput, procVars, sockVars
  <2>2. QED
    BY <1>1, <1>2, <2>1, StreamKept DEF InStep, Serving, Unit
<1>9. CASE WriteVanishes \/ WriteFails
  <2>1. client' = client /\ reply' = reply /\ pc = "write" /\ client \in Conns
    BY <1>1, <1>9 DEF WriteVanishes, WriteFails, Registered, Serving, sockVars
  <2>2. peer'[client] # "up"
    BY <1>1, <1>9, <2>1 DEF WriteVanishes, WriteFails, sockVars
  <2>3. QED
    BY <1>1, <1>2, <2>1, <2>2, StreamKept DEF InStep
<1>10. CASE ReleaseOutputs
  <2>1. UNCHANGED <<client, served, peer, reply>> /\ pc = "release"
        /\ pc' \in {"header", "close"} /\ (pc' = "header" => ~failed)
    BY <1>10 DEF ReleaseOutputs, LoopLeft, sockVars
  <2>2. QED
    BY <1>1, <1>2, <2>1, StreamKept DEF InStep, Serving, Unit
<1>11. ASSUME NEW c \in Conns, ClientStep(c)
       PROVE  ReplyStream' /\ InStep'
  <2>1. UNCHANGED <<pc, client, served, reply, outs, oi, off, failed>>
    BY <1>11 DEF ClientStep, Connect, BeginFrame, Send, SendToClosed, Receive, ResetArrives,
         Close, procVars, sockVars
  <2>2. \A d \in Conns : peer'[d] = "up" => peer[d] = "up"
    BY <1>1, <1>11 DEF ClientStep, Connect, BeginFrame, Send, SendToClosed, Receive,
         ResetArrives, Close, sockVars
  <2>3. pc \in Serving => client \in Conns
    BY <1>1 DEF Registered
  <2>4. QED
    BY <1>1, <1>2, <2>1, <2>2, <2>3, StreamKept DEF InStep, Unit
<1>12. QED
  BY <1>3, <1>4, <1>5, <1>6, <1>7, <1>8, <1>9, <1>10, <1>11
  DEF Next, ServerStep, ServerDies, StartupFails, RunFails, OutputFails, WriteKills

(* What a client is sent is the two outputs of its own first frame, then   *)
(* those of its second, and so on, without a gap, a repeat or a byte that  *)
(* was computed from another frame or for another client.                  *)
THEOREM OwnReplies == Spec => []ReplyStream
<1>1. Init => ReplyStream /\ InStep
  <2> SUFFICES ASSUME Init PROVE ReplyStream /\ InStep
    OBVIOUS
  <2>1. reply = [c \in Conns |-> <<>>] /\ pc = "open"
    BY DEF Init
  <2>2. \A c \in Conns : \A j \in 1 .. Len(reply[c]) : FALSE
    <3>1. \A c \in Conns : Len(reply[c]) = 0
      BY <2>1
    <3>2. QED
      BY <3>1
  <2>3. ReplyStream
    BY <2>2 DEF ReplyStream
  <2>4. QED
    BY <2>1, <2>3 DEF InStep, Serving
<1>2. ReadInv /\ ReplyStream /\ InStep /\ [Next]_vars => ReplyStream' /\ InStep'
  <2> SUFFICES ASSUME ReadInv, ReplyStream, InStep, [Next]_vars
               PROVE  ReplyStream' /\ InStep'
    OBVIOUS
  <2>1. CASE Next
    BY <2>1, ReplyStep DEF ReplyInv
  <2>2. CASE UNCHANGED vars
    <3>1. UNCHANGED <<pc, m, client, served, reply, outs, oi, off, failed, peer>>
      BY <2>2 DEF vars, procVars, sockVars
    <3>2. QED
      BY <3>1, StreamKept DEF InStep, Unit
  <2>3. QED
    BY <2>1, <2>2
<1>3. QED
  BY <1>1, <1>2, ReadInvInvariant, PTL DEF Spec

-----------------------------------------------------------------------------
(* The OrtValues of a frame are gone before the server reads, accepts or   *)
(* closes again, whether or not its reply was broken off.                  *)
THEOREM ValuesReleased == Spec => []NoValueLeak
<1>1. Init => NoValueLeak
  BY DEF Init, NoValueLeak
<1>2. NoValueLeak /\ [Next]_vars => NoValueLeak'
  <2> SUFFICES ASSUME NoValueLeak, [Next]_vars PROVE NoValueLeak'
    OBVIOUS
  <2> USE DEF NoValueLeak
  <2>1. CASE ModelOpen \/ Listen \/ Accept \/ ReadHeader \/ CheckHeader \/ ReadBody
             \/ ReadEnds \/ CloseClient
    BY <2>1 DEF ModelOpen, Listen, Accept, ReadHeader, CheckHeader, ReadBody, ReadEnds,
                CloseClient, procVars
  <2>2. CASE Run \/ TakeOutput \/ WriteFails
    BY <2>2 DEF Run, TakeOutput, WriteFails, AfterFailedWrite
  <2>3. CASE WriteByte \/ WriteVanishes
    BY <2>3 DEF WriteByte, WriteVanishes, WriteAdvances
  <2>4. CASE ReleaseOutputs \/ Die
    BY <2>4 DEF ReleaseOutputs, Die
  <2>5. ASSUME NEW c \in Conns, ClientStep(c) PROVE NoValueLeak'
    <3>1. UNCHANGED <<pc, outs>>
      BY <2>5 DEF ClientStep, Connect, BeginFrame, Send, SendToClosed, Receive,
           ResetArrives, Close, procVars
    <3>2. QED
      BY <3>1
  <2>6. CASE UNCHANGED vars
    BY <2>6 DEF vars, procVars
  <2>7. QED
    BY <2>1, <2>2, <2>3, <2>4, <2>5, <2>6
    DEF Next, ServerStep, ServerDies, StartupFails, RunFails, OutputFails, WriteKills
<1>3. QED
  BY <1>1, <1>2, PTL DEF Spec
=============================================================================
