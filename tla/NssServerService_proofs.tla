----------------------- MODULE NssServerService_proofs -----------------------
(***************************************************************************)
(* Proofs about what the clients of NssServer see: that it implements      *)
(* InferenceService, and that with polite clients nobody waits for the     *)
(* other and no reply is cut off.                                          *)
(***************************************************************************)
EXTENDS NssServer_proofs

-----------------------------------------------------------------------------
(* How much a client has been sent                                         *)

Replying == pc \in {"outputs", "write"}

(* What the server has written of a reply, at most.                        *)
Due(c) ==
  IF Replying /\ c = client
    THEN (served[c] - 1) * ReplyLen + (IF oi = 0 THEN 0 ELSE OutLen(0)) + off
    ELSE served[c] * ReplyLen

(* A client was sent no more than what is due, and received no more.       *)
NoMoreThanDue ==
  /\ Replying => served[client] > 0 /\ off < OutLen(oi)
  /\ \A c \in Conns : Len(reply[c]) <= Due(c) /\ rcvd[c] <= Len(reply[c])

LEMMA ReplySizes ==
  ASSUME ReadInv
  PROVE  /\ OutLen(0) \in Nat \ {0} /\ OutLen(1) \in Nat \ {0}
         /\ ReplyLen \in Nat \ {0} /\ ReplyLen = OutLen(0) + OutLen(1)
BY Sizes DEF ReadInv, TypeOK, ServerTypes, ReplyLen

LEMMA OneMore ==
  ASSUME NEW a \in Nat, NEW r \in Nat
  PROVE  a * r \in Nat /\ (a + 1) * r = a * r + r /\ (a > 0 => (a - 1) * r = a * r - r)
OBVIOUS

LEMMA DueBound ==
  ASSUME ReadInv, NoMoreThanDue, NEW c \in Conns
  PROVE  /\ Due(c) \in Nat /\ Due(c) <= served[c] * ReplyLen
         /\ Replying /\ c = client => Due(c) < served[c] * ReplyLen
         /\ served[c] * ReplyLen \in Nat
         /\ Len(reply[c]) <= served[c] * ReplyLen
<1>1. served[c] \in Nat /\ off \in Nat /\ reply[c] \in Seq(ReplyByte)
  BY DEF ReadInv, TypeOK, ServerTypes, SocketTypes
<1>2. OutLen(0) \in Nat /\ OutLen(1) \in Nat /\ ReplyLen \in Nat /\ ReplyLen = OutLen(0) + OutLen(1)
  BY ReplySizes
<1>3. served[c] * ReplyLen \in Nat
  BY <1>1, <1>2, OneMore
<1>4. CASE Replying /\ c = client
  <2>1. oi \in {0, 1} /\ served[c] > 0 /\ off < OutLen(oi)
    BY <1>4 DEF ReadInv, Position, Replying, NoMoreThanDue
  <2>2. (served[c] - 1) * ReplyLen = served[c] * ReplyLen - ReplyLen
    BY <1>1, <1>2, <2>1, OneMore
  <2>3. (served[c] - 1) * ReplyLen \in Nat
    <3>1. served[c] - 1 \in Nat /\ ReplyLen \in Nat
      BY <1>1, <1>2, <2>1
    <3>2. QED
      BY <3>1, OneMore
  <2>4. Due(c) = (served[c] - 1) * ReplyLen + (IF oi = 0 THEN 0 ELSE OutLen(0)) + off
    BY <1>4 DEF Due
  <2> DEFINE x == served[c] * ReplyLen
             y == (served[c] - 1) * ReplyLen
  <2>5. x \in Nat /\ y \in Nat /\ y = x - ReplyLen
    BY <1>3, <2>2, <2>3
  <2>9. Due(c) = y + (IF oi = 0 THEN 0 ELSE OutLen(0)) + off
    BY <2>4
  <2> HIDE DEF x, y
  <2>6. Due(c) \in Nat /\ Due(c) < x
    <3>1. CASE oi = 0
      <4>1. Due(c) = y + off /\ off < OutLen(0)
        BY <1>1, <2>1, <2>5, <2>9, <3>1
      <4>2. QED
        BY <1>1, <1>2, <2>5, <4>1
    <3>2. CASE oi = 1
      <4>1. Due(c) = y + OutLen(0) + off /\ off < OutLen(1)
        BY <2>1, <2>9, <3>2
      <4>2. y = x - (OutLen(0) + OutLen(1)) /\ off \in Nat
        BY <1>1, <1>2, <2>5
      <4>3. QED
        BY <1>2, <2>5, <4>1, <4>2
    <3>3. QED
      BY <2>1, <3>1, <3>2
  <2>7. Len(reply[c]) \in Nat /\ Len(reply[c]) <= Due(c)
    BY <1>1 DEF NoMoreThanDue
  <2>8. QED
    BY <2>5, <2>6, <2>7 DEF x
<1>5. CASE ~(Replying /\ c = client)
  <2>1. Due(c) = served[c] * ReplyLen
    BY <1>5 DEF Due
  <2>2. Len(reply[c]) <= Due(c)
    BY DEF NoMoreThanDue
  <2> DEFINE x == served[c] * ReplyLen
  <2>3. x \in Nat /\ Due(c) = x
    BY <1>3, <2>1
  <2> HIDE DEF x
  <2>4. Due(c) \in Nat /\ Due(c) <= x /\ Len(reply[c]) <= x
    BY <2>2, <2>3
  <2>5. QED
    BY <1>5, <2>3, <2>4 DEF x
<1>6. QED
  BY <1>4, <1>5

LEMMA ReadInvInit == Init => ReadInv
<1> SUFFICES ASSUME Init PROVE ReadInv
  OBVIOUS
<1>1. Registered
  BY DEF Init, Registered, Serving
<1>2. Position
  BY DEF Init, Position
<1>3. QED
  BY <1>1, <1>2, InitType DEF ReadInv

LEMMA DueInit == Init => NoMoreThanDue
<1> SUFFICES ASSUME Init PROVE NoMoreThanDue
  OBVIOUS
<1>1. ReadInv
  BY ReadInvInit
<1>2. ReplyLen \in Nat
  BY <1>1, ReplySizes
<1>3. ~Replying /\ \A c \in Conns : served[c] = 0 /\ rcvd[c] = 0 /\ Len(reply[c]) = 0
  BY DEF Init, Replying
<1>4. 0 * ReplyLen = 0
  BY <1>2
<1>5. \A c \in Conns : Due(c) = 0
  BY <1>3, <1>4 DEF Due
<1>6. QED
  BY <1>3, <1>5 DEF NoMoreThanDue

(* One byte more: due grows by one as well, or the reply is whole.         *)
LEMMA DueGrows ==
  ASSUME ReadInv, NoMoreThanDue, Next, pc = "write", client' = client, served' = served,
         WriteAdvances
  PROVE  /\ Due(client)' = Due(client) + 1
         /\ \A c \in Conns : c # client => Due(c)' = Due(c)
         /\ (Replying => served[client] > 0 /\ off < OutLen(oi))'
<1>1. OutLen(0) \in Nat \ {0} /\ OutLen(1) \in Nat \ {0}
      /\ ReplyLen \in Nat \ {0} /\ ReplyLen = OutLen(0) + OutLen(1)
  BY ReplySizes
<1>2. ReplyLen' = ReplyLen /\ \A o : OutLen(o)' = OutLen(o)
  BY ModelFixed DEF ReplyLen, OutLen
<1>3. /\ off \in Nat /\ oi \in {0, 1} /\ client \in Conns
      /\ served[client] \in Nat /\ served[client] > 0 /\ off < OutLen(oi)
  BY DEF ReadInv, TypeOK, ServerTypes, Registered, Serving, Position, NoMoreThanDue, Replying
<1>4. \A c \in Conns : c # client => Due(c)' = Due(c)
  BY <1>2 DEF Due
<1> DEFINE x == served[client] * ReplyLen
           y == (served[client] - 1) * ReplyLen
<1>5. x \in Nat /\ y \in Nat /\ y = x - ReplyLen
  BY <1>1, <1>3, OneMore
<1>6. Due(client) = y + (IF oi = 0 THEN 0 ELSE OutLen(0)) + off
  BY DEF Due, Replying
<1>7. /\ Replying' => Due(client)' = y + (IF oi' = 0 THEN 0 ELSE OutLen(0)) + off'
      /\ ~Replying' => Due(client)' = x
  BY <1>2 DEF Due
<1> HIDE DEF x, y
<1>8. CASE off + 1 < OutLen(oi)
  <2>1. off' = off + 1 /\ oi' = oi /\ pc' = pc
    BY <1>8 DEF WriteAdvances
  <2>2. Replying'
    BY <2>1 DEF Replying
  <2>3. Due(client)' = y + (IF oi = 0 THEN 0 ELSE OutLen(0)) + (off + 1)
    BY <1>7, <2>1, <2>2
  <2>4. Due(client)' = Due(client) + 1
    BY <1>1, <1>3, <1>5, <1>6, <2>3
  <2>5. (off < OutLen(oi))'
    BY <1>8, <2>1, ModelFixed DEF OutLen
  <2>6. QED
    BY <1>3, <1>4, <2>4, <2>5
<1>9. CASE ~(off + 1 < OutLen(oi))
  <2>1. off + 1 = OutLen(oi)
    BY <1>1, <1>3, <1>9
  <2>2. /\ off' = 0 /\ oi' = oi + 1
        /\ pc' = IF oi + 1 < 2 THEN "outputs" ELSE "release"
    BY <1>9 DEF WriteAdvances, NextOutput
  <2>3. CASE oi = 0
    <3>1. Replying' /\ oi' = 1
      BY <2>2, <2>3 DEF Replying
    <3>2. Due(client)' = y + OutLen(0) + 0 /\ Due(client) = y + 0 + off
      BY <1>6, <1>7, <2>2, <2>3, <3>1
    <3>3. Due(client)' = Due(client) + 1
      BY <1>1, <1>3, <1>5, <2>1, <2>3, <3>2
    <3>4. (off < OutLen(oi))'
      <4>1. off' = 0 /\ oi' = 1 /\ m' = m /\ 0 < OutLen(1)
        BY <1>1, <2>2, <3>1, ModelFixed
      <4>2. QED
        BY <4>1 DEF OutLen
    <3>5. QED
      BY <1>3, <1>4, <3>3, <3>4
  <2>4. CASE oi = 1
    <3>1. ~Replying'
      BY <2>2, <2>4 DEF Replying
    <3>2. Due(client)' = x /\ Due(client) = y + OutLen(0) + off
      BY <1>6, <1>7, <2>4, <3>1
    <3>3. off + 1 = OutLen(1) /\ y = x - (OutLen(0) + OutLen(1))
      BY <1>1, <1>5, <2>1, <2>4
    <3>4. Due(client)' = Due(client) + 1
      BY <1>1, <1>3, <1>5, <3>2, <3>3
    <3>5. QED
      BY <1>4, <3>1, <3>4
  <2>5. QED
    BY <1>3, <2>3, <2>4
<1>10. QED
  BY <1>8, <1>9

(* Between two replies the whole of the last one is due.                   *)
LEMMA DueWhole ==
  ASSUME ReadInv, NoMoreThanDue, m' = m, UNCHANGED <<reply, rcvd, served>>, ~Replying'
  PROVE  NoMoreThanDue'
<1>1. ReplyLen' = ReplyLen
  BY DEF ReplyLen, OutLen
<1>2. \A c \in Conns : Due(c)' = served[c] * ReplyLen
  BY <1>1 DEF Due
<1>3. \A c \in Conns : Len(reply[c]) <= served[c] * ReplyLen
  BY DueBound
<1>4. QED
  BY <1>2, <1>3 DEF NoMoreThanDue

LEMMA DueStep ==
  ASSUME ReadInv, NoMoreThanDue, Next
  PROVE  NoMoreThanDue'
<1>1. /\ m' = m /\ ReplyLen' = ReplyLen /\ \A o : OutLen(o)' = OutLen(o)
      /\ served \in [Conns -> Nat] /\ reply \in [Conns -> Seq(ReplyByte)]
      /\ rcvd \in [Conns -> Nat]
  BY ModelFixed DEF ReplyLen, OutLen, ReadInv, TypeOK, ServerTypes, SocketTypes, ClientTypes
<1>2. CASE \/ ModelOpen \/ Listen \/ Accept \/ ReadHeader \/ CheckHeader \/ ReadBody
           \/ ReadEnds \/ WriteFails \/ ReleaseOutputs \/ CloseClient \/ Die
  <2>1. ~Replying' /\ UNCHANGED <<reply, rcvd, served>>
    BY <1>2 DEF ModelOpen, Listen, Accept, ReadHeader, CheckHeader, ReadBody, ReadEnds,
         WriteFails, ReleaseOutputs, CloseClient, Die, Replying, LoopLeft, AfterFailedWrite,
         procVars, sockVars, clientVars
  <2>2. QED
    BY <1>1, <2>1, DueWhole
<1>3. CASE Run
  <2>1. /\ ~Replying /\ Replying' /\ client' = client /\ oi' = 0 /\ off' = 0
        /\ served' = [served EXCEPT ![client] = @ + 1] /\ UNCHANGED <<reply, rcvd>>
    BY <1>3 DEF Run, Replying, sockVars, clientVars
  <2>2. client \in Conns /\ OutLen(0) \in Nat \ {0} /\ ReplyLen \in Nat
    BY <1>3, ReplySizes DEF Run, ReadInv, Registered, Serving
  <2>3. served'[client] = served[client] + 1 /\ served[client] \in Nat
        /\ \A c \in Conns : c # client => served'[c] = served[c]
    BY <1>1, <2>1, <2>2
  <2>4. Due(client)' = served[client] * ReplyLen
    <3>1. (served[client] + 1) - 1 = served[client]
      BY <2>3
    <3>2. served[client] * ReplyLen \in Nat
      BY <2>2, <2>3, OneMore
    <3>3. Due(client)' = served[client] * ReplyLen + 0 + 0
      BY <1>1, <2>1, <2>3, <3>1 DEF Due
    <3>4. QED
      BY <3>2, <3>3
  <2>5. \A c \in Conns : c # client => Due(c)' = served[c] * ReplyLen
    BY <1>1, <2>1, <2>3 DEF Due
  <2>6. \A c \in Conns : Len(reply[c]) <= served[c] * ReplyLen
    BY DueBound
  <2>7. (Replying => served[client] > 0 /\ off < OutLen(oi))'
    <3>1. (off < OutLen(oi))'
      BY <1>1, <2>1, <2>2 DEF OutLen
    <3>2. QED
      BY <2>1, <2>3, <3>1
  <2>8. QED
    BY <2>1, <2>4, <2>5, <2>6, <2>7 DEF NoMoreThanDue
<1>4. CASE TakeOutput
  <2>1. UNCHANGED <<Replying, client, oi, off, served, reply, rcvd>>
    BY <1>4 DEF TakeOutput, Replying, procVars, sockVars, clientVars
  <2>2. \A c \in Conns : Due(c)' = Due(c)
    BY <1>1, <2>1 DEF Due
  <2>3. QED
    BY <1>1, <2>1, <2>2 DEF NoMoreThanDue, OutLen
<1>5. CASE WriteByte \/ WriteVanishes
  <2>1. pc = "write" /\ WriteAdvances /\ UNCHANGED <<client, served, rcvd>>
    BY <1>5 DEF WriteByte, WriteVanishes, clientVars
  <2>2. client \in Conns
    BY <2>1 DEF ReadInv, Registered, Serving
  <2>3. /\ Due(client)' = Due(client) + 1
        /\ \A c \in Conns : c # client => Due(c)' = Due(c)
        /\ (Replying => served[client] > 0 /\ off < OutLen(oi))'
    BY <2>1, DueGrows
  <2>4. \A c \in Conns : reply'[c] = reply[c] \/ (c = client /\ Len(reply'[c]) = Len(reply[c]) + 1)
    BY <1>1, <1>5, <2>2 DEF WriteByte, WriteVanishes
  <2>5. \A c \in Conns : Len(reply[c]) \in Nat /\ Due(c) \in Nat /\ rcvd[c] \in Nat
    BY <1>1, DueBound
  <2>6. \A c \in Conns : Len(reply[c]) <= Due(c) /\ rcvd[c] <= Len(reply[c])
    BY DEF NoMoreThanDue
  <2>7. \A c \in Conns : Len(reply'[c]) <= Due(c)' /\ rcvd'[c] <= Len(reply'[c])
    BY <2>1, <2>3, <2>4, <2>5, <2>6
  <2>8. QED
    BY <2>3, <2>7 DEF NoMoreThanDue
<1>6. ASSUME NEW d \in Conns, ClientStep(d)
      PROVE  NoMoreThanDue'
  <2>1. UNCHANGED <<Replying, client, oi, off, served, reply>>
    BY <1>6 DEF ClientStep, Connect, BeginFrame, Send, SendToClosed, Receive, ResetArrives,
         Close, Replying, procVars, sockVars
  <2>2. \A c \in Conns : Due(c)' = Due(c)
    BY <1>1, <2>1 DEF Due
  <2>3. \A c \in Conns :
          rcvd'[c] = rcvd[c] \/ (rcvd'[c] = rcvd[c] + 1 /\ rcvd[c] < Len(reply[c]))
    BY <1>1, <1>6 DEF ClientStep, Connect, BeginFrame, Send, SendToClosed, Receive,
         ResetArrives, Close, clientVars
  <2>4. \A c \in Conns : Len(reply[c]) \in Nat /\ rcvd[c] \in Nat
    BY <1>1
  <2>5. \A c \in Conns : rcvd'[c] <= Len(reply[c])
    BY <2>3, <2>4 DEF NoMoreThanDue
  <2>6. QED
    BY <1>1, <2>1, <2>2, <2>5 DEF NoMoreThanDue, OutLen
<1>7. QED
  BY <1>2, <1>3, <1>4, <1>5, <1>6
  DEF Next, ServerStep, ServerDies, StartupFails, RunFails, OutputFails, WriteKills

LEMMA DueInvariant == Spec => []NoMoreThanDue
<1>1. ReadInv /\ NoMoreThanDue /\ [Next]_vars => NoMoreThanDue'
  <2> SUFFICES ASSUME ReadInv, NoMoreThanDue, [Next]_vars PROVE NoMoreThanDue'
    OBVIOUS
  <2>1. CASE Next
    BY <2>1, DueStep
  <2>2. CASE UNCHANGED vars
    BY <2>2 DEF vars, procVars, sockVars, clientVars, NoMoreThanDue, Due, Replying,
         ReplyLen, OutLen
  <2>3. QED
    BY <2>1, <2>2
<1>2. QED
  BY <1>1, DueInit, ReadInvInvariant, PTL DEF Spec

-----------------------------------------------------------------------------
(* Whose turn it is, and the refinement                                    *)

(* Registered says that whoever waits is in the phase of one who waits;    *)
(* this is the converse: a connection that is waiting is in the queue, one *)
(* that is served is `client`.                                             *)
Turns ==
  /\ pc \notin Serving => client = NoConn
  /\ \A c \in Conns : phase[c] = "active" => c = client
  /\ \A c \in Conns : phase[c] = "queued" => \E k \in DOMAIN queue : queue[k] = c

LEMMA TurnsStep ==
  ASSUME ReadInv, Turns, Next
  PROVE  Turns'
<1>1. /\ queue \in Seq(Conns) /\ phase \in [Conns -> {"none", "queued", "active", "closed"}]
      /\ pc \in Serving => client \in Conns
      /\ Registered /\ Turns
  BY DEF ReadInv, TypeOK, SocketTypes, Registered
<1>2. CASE Die
  <2>1. pc' = "dead" /\ client' = NoConn /\ queue' = <<>>
        /\ \A c \in Conns : phase'[c] \in {"none", "closed"}
    BY <1>2 DEF Die
  <2>2. QED
    BY <2>1 DEF Turns, Serving
<1>3. CASE Accept
  <2>1. /\ pc' = "header" /\ client' = Head(queue) /\ queue' = Tail(queue) /\ queue # <<>>
        /\ phase' = [phase EXCEPT ![Head(queue)] = "active"] /\ pc = "accept"
    BY <1>3 DEF Accept
  <2>2. client = NoConn /\ Head(queue) \in Conns /\ client \notin Conns
    BY <1>1, <2>1, ConstantsAssumption DEF Turns, Serving
  <2>3. \A c \in Conns : phase'[c] = "active" => c = client'
    BY <1>1, <2>1, <2>2 DEF Turns
  <2>4. ASSUME NEW c \in Conns, phase'[c] = "queued"
        PROVE  \E k \in DOMAIN queue' : queue'[k] = c
    <3>1. phase[c] = "queued" /\ c # Head(queue)
      BY <1>1, <2>1, <2>2, <2>4
    <3>2. PICK k \in DOMAIN queue : queue[k] = c
      BY <1>1, <3>1 DEF Turns
    <3>3. k \in 1 .. Len(queue) /\ k # 1
      BY <1>1, <2>1, <3>1, <3>2
    <3>4. k - 1 \in 1 .. Len(Tail(queue)) /\ Tail(queue)[k - 1] = queue[k]
      BY <1>1, <2>1, <3>3
    <3>5. k - 1 \in DOMAIN queue'
      BY <1>1, <2>1, <3>4
    <3>6. QED
      BY <2>1, <3>2, <3>4, <3>5
  <2>5. QED
    BY <2>1, <2>3, <2>4 DEF Turns, Serving
<1>4. CASE CloseClient
  <2>1. /\ pc = "close" /\ pc' = "accept" /\ client' = NoConn /\ queue' = queue
        /\ phase' = [phase EXCEPT ![client] = "closed"]
    BY <1>4 DEF CloseClient
  <2>2. client \in Conns
    BY <1>1, <2>1 DEF Serving
  <2>3. QED
    BY <1>1, <2>1, <2>2 DEF Turns, Serving
<1>5. CASE \/ ModelOpen \/ Listen \/ ReadHeader \/ CheckHeader \/ ReadBody \/ ReadEnds
           \/ Run \/ TakeOutput \/ WriteByte \/ WriteVanishes \/ WriteFails \/ ReleaseOutputs
  <2>1. UNCHANGED <<client, queue, phase>> /\ (pc' \notin Serving => pc \notin Serving)
    BY <1>5 DEF ModelOpen, Listen, ReadHeader, CheckHeader, ReadBody, ReadEnds, Run,
         TakeOutput, WriteByte, WriteVanishes, WriteFails, ReleaseOutputs, WriteAdvances,
         LoopLeft, AfterFailedWrite, procVars, sockVars, Serving
  <2>2. QED
    BY <1>1, <2>1 DEF Turns
<1>6. ASSUME NEW d \in Conns, ClientStep(d)
      PROVE  Turns'
  <2>1. CASE Connect(d)
    <3>1. /\ UNCHANGED <<pc, client>> /\ queue' = Append(queue, d)
          /\ phase' = [phase EXCEPT ![d] = "queued"]
      BY <2>1 DEF Connect, procVars
    <3>2. \A k \in DOMAIN queue : k \in DOMAIN queue' /\ queue'[k] = queue[k]
      BY <1>1, <3>1
    <3>3. Len(queue) + 1 \in DOMAIN queue' /\ queue'[Len(queue) + 1] = d
      BY <1>1, <3>1
    <3>4. \A c \in Conns : phase'[c] = "queued" => \E k \in DOMAIN queue' : queue'[k] = c
      BY <1>1, <3>1, <3>2, <3>3 DEF Turns
    <3>5. QED
      BY <1>1, <3>1, <3>4 DEF Turns
  <2>2. CASE ~Connect(d)
    <3>1. UNCHANGED <<pc, client, queue, phase>>
      BY <1>6, <2>2 DEF ClientStep, BeginFrame, Send, SendToClosed, Receive, ResetArrives,
           Close, procVars, sockVars
    <3>2. QED
      BY <1>1, <3>1 DEF Turns
  <2>3. QED
    BY <2>1, <2>2
<1>7. QED
  BY <1>2, <1>3, <1>4, <1>5, <1>6
  DEF Next, ServerStep, ServerDies, StartupFails, RunFails, OutputFails, WriteKills

LEMMA TurnsInvariant == Spec => []Turns
<1>1. Init => Turns
  BY DEF Init, Turns, Serving
<1>2. ReadInv /\ Turns /\ [Next]_vars => Turns'
  <2> SUFFICES ASSUME ReadInv, Turns, [Next]_vars PROVE Turns'
    OBVIOUS
  <2>1. CASE Next
    BY <2>1, TurnsStep
  <2>2. CASE UNCHANGED vars
    BY <2>2 DEF vars, procVars, sockVars, Turns
  <2>3. QED
    BY <2>1, <2>2
<1>3. QED
  BY <1>1, <1>2, ReadInvInvariant, PTL DEF Spec

(* One byte more completes one reply at most, and only one that was run.   *)
LEMMA WholeReplies ==
  ASSUME NEW r \in Nat \ {0}, NEW n \in Nat, NEW s \in Nat, n + 1 <= s * r
  PROVE  /\ n \div r \in Nat
         /\ \/ (n + 1) \div r = n \div r
            \/ (n + 1) \div r = n \div r + 1 /\ n \div r < s
OBVIOUS

Done == {c \in Conns : phase[c] = "closed"}
Delivered == [c \in Conns |-> rcvd[c] \div ReplyLen]

ServiceKept == UNCHANGED <<(pc # "dead"), queue, client, Done, served, Delivered>>

LEMMA RefinesStep ==
  ASSUME ReadInv, NoMoreThanDue, Turns, Next
  PROVE  Service!Next \/ ServiceKept
<1>1. /\ ReplyLen' = ReplyLen /\ m' = m /\ ReplyLen \in Nat \ {0}
      /\ queue \in Seq(Conns) /\ phase \in [Conns -> {"none", "queued", "active", "closed"}]
      /\ served \in [Conns -> Nat] /\ rcvd \in [Conns -> Nat]
      /\ pc \in Serving => client \in Conns /\ phase[client] = "active"
      /\ Registered /\ Turns
  BY ModelFixed, ReplySizes DEF ReplyLen, OutLen, ReadInv, TypeOK, ServerTypes, SocketTypes,
     ClientTypes, Registered
<1>2. rcvd' = rcvd => Delivered' = Delivered
  BY <1>1 DEF Delivered
<1>3. CASE Die /\ pc # "dead"
  <2>1. /\ pc' = "dead" /\ client' = NoConn /\ queue' = <<>> /\ UNCHANGED <<served, rcvd>>
        /\ \A c \in Conns : phase'[c] = IF phase[c] = "none" THEN "none" ELSE "closed"
    BY <1>3 DEF Die, clientVars
  <2>2. \A c \in Conns : phase[c] = "queued" <=> \E k \in DOMAIN queue : queue[k] = c
    BY <1>1 DEF Turns, Registered
  <2>3. \A c \in Conns : phase[c] = "active" <=> c = client
    BY <1>1, ConstantsAssumption DEF Turns
  <2>4. Done' = Done \cup {c \in Conns : (\E k \in DOMAIN queue : queue[k] = c) \/ c = client}
    BY <1>1, <2>1, <2>2, <2>3 DEF Done
  <2>5. Service!Stop
    BY <1>2, <1>3, <2>1, <2>4 DEF Service!Stop, Service!InLine, Done, Delivered
  <2>6. QED
    BY <2>5 DEF Service!Next
<1>4. CASE Accept
  <2>1. /\ pc = "accept" /\ pc' = "header" /\ client' = Head(queue) /\ queue' = Tail(queue)
        /\ queue # <<>> /\ phase' = [phase EXCEPT ![Head(queue)] = "active"]
        /\ UNCHANGED <<served, rcvd>>
    BY <1>4 DEF Accept, clientVars
  <2>2. client = NoConn /\ Head(queue) \in Conns /\ phase[Head(queue)] = "queued"
    BY <1>1, <2>1 DEF Turns, Registered, Serving
  <2>3. Done' = Done
    BY <1>1, <2>1, <2>2 DEF Done
  <2>4. Service!Begin
    BY <1>2, <2>1, <2>2, <2>3 DEF Service!Begin, Done, Delivered
  <2>5. QED
    BY <2>4 DEF Service!Next
<1>5. CASE Run
  <2>1. /\ pc = "run" /\ pc' = "outputs" /\ served' = [served EXCEPT ![client] = @ + 1]
        /\ UNCHANGED <<client, queue, phase, rcvd>>
    BY <1>5 DEF Run, sockVars, clientVars
  <2>2. client \in Conns
    BY <1>1, <2>1 DEF Serving
  <2>3. Service!Infer
    BY <1>2, <2>1, <2>2 DEF Service!Infer, Done, Delivered
  <2>4. QED
    BY <2>3 DEF Service!Next
<1>6. CASE CloseClient
  <2>1. /\ pc = "close" /\ pc' = "accept" /\ client' = NoConn
        /\ phase' = [phase EXCEPT ![client] = "closed"]
        /\ UNCHANGED <<queue, served, rcvd>>
    BY <1>6 DEF CloseClient, clientVars
  <2>2. client \in Conns
    BY <1>1, <2>1 DEF Serving
  <2>3. Done' = Done \cup {client}
    BY <1>1, <2>1, <2>2 DEF Done
  <2>4. Service!End
    BY <1>2, <2>1, <2>2, <2>3 DEF Service!End, Done, Delivered
  <2>5. QED
    BY <2>4 DEF Service!Next
<1>7. CASE \/ ModelOpen \/ Listen \/ ReadHeader \/ CheckHeader \/ ReadBody \/ ReadEnds
           \/ TakeOutput \/ WriteByte \/ WriteVanishes \/ WriteFails \/ ReleaseOutputs
  <2>1. UNCHANGED <<client, queue, phase, served, rcvd>> /\ pc # "dead" /\ pc' # "dead"
    BY <1>7 DEF ModelOpen, Listen, ReadHeader, CheckHeader, ReadBody, ReadEnds,
         TakeOutput, WriteByte, WriteVanishes, WriteFails, ReleaseOutputs, WriteAdvances,
         LoopLeft, AfterFailedWrite, procVars, sockVars, clientVars
  <2>2. QED
    BY <1>2, <2>1 DEF ServiceKept, Done
<1>8. ASSUME NEW d \in Conns, ClientStep(d)
      PROVE  Service!Next \/ ServiceKept
  <2>1. CASE Connect(d)
    <3>1. /\ UNCHANGED <<pc, client, served, rcvd>> /\ pc # "dead"
          /\ queue' = Append(queue, d) /\ phase[d] = "none"
          /\ phase' = [phase EXCEPT ![d] = "queued"]
      BY <2>1 DEF Connect, Listening, procVars, clientVars
    <3>2. Done' = Done /\ d \notin Done
      BY <1>1, <3>1 DEF Done
    <3>3. d # client /\ ~\E k \in DOMAIN queue : queue[k] = d
      BY <1>1, <3>1, ConstantsAssumption DEF Registered, Turns
    <3>4. Service!Arrive(d)
      BY <1>2, <3>1, <3>2, <3>3 DEF Service!Arrive, Service!InLine, Done, Delivered
    <3>5. QED
      BY <3>4 DEF Service!Next
  <2>2. CASE Receive(d)
    <3>1. /\ UNCHANGED <<pc, client, served, queue, phase>> /\ rcvd[d] < Len(reply[d])
          /\ rcvd' = [rcvd EXCEPT ![d] = @ + 1]
      BY <2>2 DEF Receive, procVars, sockVars
    <3>2. rcvd[d] \in Nat /\ served[d] \in Nat /\ Len(reply[d]) \in Nat
          /\ Len(reply[d]) <= served[d] * ReplyLen /\ served[d] * ReplyLen \in Nat
      BY <1>1, DueBound DEF ReadInv, TypeOK, SocketTypes
    <3>3. rcvd[d] + 1 <= served[d] * ReplyLen
      BY <3>1, <3>2
    <3>4. \/ (rcvd[d] + 1) \div ReplyLen = rcvd[d] \div ReplyLen
          \/ /\ (rcvd[d] + 1) \div ReplyLen = rcvd[d] \div ReplyLen + 1
             /\ rcvd[d] \div ReplyLen < served[d]
      BY <1>1, <3>2, <3>3, WholeReplies
    <3>5. /\ \A c \in Conns : Delivered'[c] = rcvd'[c] \div ReplyLen
          /\ \A c \in Conns : Delivered[c] = rcvd[c] \div ReplyLen
          /\ \A c \in Conns : c # d => rcvd'[c] = rcvd[c]
          /\ rcvd'[d] = rcvd[d] + 1
      BY <1>1, <3>1 DEF Delivered
    <3>6. CASE (rcvd[d] + 1) \div ReplyLen = rcvd[d] \div ReplyLen
      <4>1. \A c \in Conns : Delivered'[c] = Delivered[c]
        BY <3>5, <3>6
      <4>2. Delivered' = Delivered
        BY <4>1 DEF Delivered
      <4>3. QED
        BY <3>1, <4>2 DEF ServiceKept, Done
    <3>7. CASE /\ (rcvd[d] + 1) \div ReplyLen = rcvd[d] \div ReplyLen + 1
               /\ rcvd[d] \div ReplyLen < served[d]
      <4>1. Delivered'[d] = Delivered[d] + 1 /\ \A c \in Conns : c # d => Delivered'[c] = Delivered[c]
        BY <3>5, <3>7
      <4>2. Delivered' = [Delivered EXCEPT ![d] = @ + 1]
        BY <4>1 DEF Delivered
      <4>3. Delivered[d] < served[d]
        BY <3>5, <3>7
      <4>4. Service!Deliver(d)
        BY <3>1, <4>2, <4>3 DEF Service!Deliver, Delivered, Done
      <4>5. QED
        BY <4>4 DEF Service!Next
    <3>8. QED
      BY <3>4, <3>6, <3>7
  <2>3. CASE ~Connect(d) /\ ~Receive(d)
    <3>1. UNCHANGED <<pc, client, queue, phase, served, rcvd>>
      BY <1>8, <2>3 DEF ClientStep, BeginFrame, Send, SendToClosed, ResetArrives, Close,
           procVars, sockVars, clientVars
    <3>2. QED
      BY <1>2, <3>1 DEF ServiceKept, Done
  <2>4. QED
    BY <2>1, <2>2, <2>3
<1>9. ServerDies => Die /\ pc # "dead"
  BY DEF ServerDies, StartupFails, RunFails, OutputFails, WriteKills
<1>10. QED
  BY <1>3, <1>4, <1>5, <1>6, <1>7, <1>8, <1>9 DEF Next, ServerStep

(* Seen from its clients the server is the service of InferenceService:    *)
(* first come first served, one at a time and none twice, and no client    *)
(* ever holds more whole replies than the network was run for it.          *)
THEOREM ServerIsService == Spec => ImplementsService
<1>1. Init => Service!Init
  <2> SUFFICES ASSUME Init PROVE Service!Init
    OBVIOUS
  <2>1. ReplyLen \in Nat \ {0}
    BY ReadInvInit, ReplySizes
  <2>2. 0 \div ReplyLen = 0
    BY <2>1
  <2>3. [c \in Conns |-> rcvd[c] \div ReplyLen] = [c \in Conns |-> 0]
    BY <2>2 DEF Init
  <2>4. QED
    BY <2>3 DEF Init, Service!Init
<1>2. ReadInv /\ NoMoreThanDue /\ Turns /\ [Next]_vars => [Service!Next]_(Service!vars)
  <2> SUFFICES ASSUME ReadInv, NoMoreThanDue, Turns, [Next]_vars
               PROVE  [Service!Next]_(Service!vars)
    OBVIOUS
  <2>1. CASE Next
    BY <2>1, RefinesStep DEF ServiceKept, Service!vars, Done, Delivered
  <2>2. CASE UNCHANGED vars
    BY <2>2 DEF vars, procVars, sockVars, clientVars, Service!vars, ReplyLen, OutLen
  <2>3. QED
    BY <2>1, <2>2
<1>3. QED
  BY <1>1, <1>2, ReadInvInvariant, DueInvariant, TurnsInvariant, PTL
  DEF Spec, ImplementsService, Service!Spec

-----------------------------------------------------------------------------
(* How far a client has sent                                               *)

(* The server has read no byte that was not sent, and has run the network  *)
(* for no frame that was not sent in full.                                 *)
ReadBehind ==
  \A c \in Conns :
    /\ served[c] <= Len(hdr[c])
    /\ hdr[c] # <<>> => sent[c] <= FrameLen(c, Len(hdr[c]))
    /\ rd[c].f <= Len(hdr[c]) \/ rd[c].o = 0
    /\ rd[c].f = Len(hdr[c]) => rd[c].o <= sent[c]
    /\ served[c] = Len(hdr[c]) => AllSent(c)

(* A frame that a client begins has no other frame of it waiting for its   *)
(* reply, if clients are polite.                                           *)
Answered ==
  \A c \in Conns : hdr[c] # <<>> => rcvd[c] >= (Len(hdr[c]) - 1) * ReplyLen

(* Where the server gives a connection up it is in the middle of a frame   *)
(* or between two.                                                         *)
PlaceAtClose == pc = "close" => Between \/ \E o \in Nat : Within(o)

(* A reset is on its way to a client that has received its whole reply.    *)
CutOnlyAfter ==
  pc # "dead" =>
    \A c \in Conns : cutting[c] => phase[c] = "closed" /\ rcvd[c] = Len(reply[c])

LEMMA ReadBehindStep ==
  ASSUME ReadInv, ReadBehind, Next
  PROVE  ReadBehind'
<1>1. /\ hdr \in [Conns -> Seq(Header)] /\ sent \in [Conns -> Nat] /\ served \in [Conns -> Nat]
      /\ rd \in [Conns -> [f : Nat \ {0}, o : Nat]]
      /\ pc \in Serving => client \in Conns
      /\ Position
  BY DEF ReadInv, TypeOK, ServerTypes, SocketTypes, ClientTypes, Registered
<1>2. CASE ReadHeader \/ ReadBody
  <2>1. PICK p : p = NextByte(client)
    OBVIOUS
  <2>2. /\ client \in Conns /\ Readable(client) /\ UNCHANGED <<served, hdr, sent>>
        /\ rd' = [rd EXCEPT ![client] = [f |-> p.f, o |-> p.o + 1]]
    BY <1>1, <1>2, <2>1 DEF ReadHeader, ReadBody, Serving, clientVars
  <2>3. p.f \in Nat /\ p.o \in Nat
    BY <2>1, <2>2, NextByteType DEF ReadInv, TypeOK
  <2>4. p.f < Len(hdr[client]) \/ (p.f = Len(hdr[client]) /\ p.o < sent[client])
    BY <2>1, <2>2 DEF Readable
  <2>5. rd'[client].f = p.f /\ rd'[client].o = p.o + 1
        /\ \A c \in Conns : c # client => rd'[c] = rd[c]
    BY <1>1, <2>2
  <2>6. Len(hdr[client]) \in Nat /\ sent[client] \in Nat
    BY <1>1, <2>2
  <2>7. /\ rd'[client].f <= Len(hdr[client])
        /\ rd'[client].f = Len(hdr[client]) => rd'[client].o <= sent[client]
    BY <2>3, <2>4, <2>5, <2>6
  <2>8. \A c \in Conns : AllSent(c)' = AllSent(c)
    BY <2>2 DEF AllSent, FrameLen
  <2>9. QED
    BY <2>2, <2>5, <2>7, <2>8 DEF ReadBehind, FrameLen
<1>3. CASE Run
  <2>1. /\ pc = "run" /\ client \in Conns /\ UNCHANGED <<rd, hdr, sent>>
        /\ served' = [served EXCEPT ![client] = @ + 1]
    BY <1>1, <1>3 DEF Run, Serving, sockVars, clientVars
  <2> DEFINE f == served[client] + 1
  <2>2. f \in DOMAIN hdr[client] /\ rd[client] = [f |-> f, o |-> HeaderLen + BodyLen]
        /\ hdr[client][f].bytes = BodyLen
    BY <1>1, <2>1 DEF Position, Within, Declared, HeaderAccepted
  <2>3. f \in Nat /\ Len(hdr[client]) \in Nat /\ f <= Len(hdr[client])
    BY <1>1, <2>1, <2>2
  <2>4. ASSUME f = Len(hdr[client]) PROVE AllSent(client)
    <3>1. HeaderLen + BodyLen <= sent[client] /\ sent[client] <= FrameLen(client, f)
      <4>1. hdr[client] # <<>>
        BY <1>1, <2>1, <2>2
      <4>2. rd[client].f = Len(hdr[client]) /\ rd[client].o = HeaderLen + BodyLen
        BY <2>2, <2>4
      <4>3. QED
        BY <2>1, <2>4, <4>1, <4>2 DEF ReadBehind
    <3>2. FrameLen(client, f) = HeaderLen + BodyLen /\ FrameLen(client, f) \in Nat
      BY <1>1, <2>1, <2>2, FrameSizes DEF FrameLen
    <3>3. sent[client] \in Nat
      BY <1>1, <2>1
    <3>4. sent[client] = FrameLen(client, f)
      BY <3>1, <3>2, <3>3
    <3>5. QED
      BY <2>4, <3>4 DEF AllSent
  <2>5. served'[client] = f /\ \A c \in Conns : c # client => served'[c] = served[c]
    BY <1>1, <2>1
  <2> HIDE DEF f
  <2>6. \A c \in Conns : AllSent(c)' = AllSent(c)
    BY <2>1 DEF AllSent, FrameLen
  <2>7. QED
    BY <2>1, <2>3, <2>4, <2>5, <2>6 DEF ReadBehind, FrameLen
<1>4. CASE \/ ModelOpen \/ Listen \/ Accept \/ CheckHeader \/ ReadEnds \/ TakeOutput
           \/ WriteByte \/ WriteVanishes \/ WriteFails \/ ReleaseOutputs \/ CloseClient \/ Die
  <2>1. UNCHANGED <<served, rd, hdr, sent>>
    BY <1>4 DEF ModelOpen, Listen, Accept, CheckHeader, ReadEnds, TakeOutput, WriteByte,
         WriteVanishes, WriteFails, ReleaseOutputs, CloseClient, Die, procVars, sockVars,
         clientVars
  <2>2. QED
    BY <2>1 DEF ReadBehind, AllSent, FrameLen
<1>5. ASSUME NEW d \in Conns, ClientStep(d)
      PROVE  ReadBehind'
  <2>1. UNCHANGED <<served, rd>>
    BY <1>5 DEF ClientStep, Connect, BeginFrame, Send, SendToClosed, Receive, ResetArrives,
         Close, procVars, sockVars
  <2>2. CASE BeginFrame(d)
    <3>1. PICK x \in Header : hdr' = [hdr EXCEPT ![d] = Append(@, x)]
      BY <2>2 DEF BeginFrame
    <3>2. sent' = [sent EXCEPT ![d] = 0]
      BY <2>2 DEF BeginFrame
    <3>3. /\ hdr'[d] = Append(hdr[d], x) /\ sent'[d] = 0
          /\ \A c \in Conns : c # d => hdr'[c] = hdr[c] /\ sent'[c] = sent[c]
      BY <1>1, <3>1, <3>2
    <3>4. Len(hdr'[d]) = Len(hdr[d]) + 1 /\ hdr'[d][Len(hdr[d]) + 1] = x /\ Len(hdr[d]) \in Nat
      BY <1>1, <3>3
    <3>5. FrameLen(d, Len(hdr[d]))' >= 0
      <4>1. x.bytes \in Nat
        BY <3>1, ConstantsAssumption DEF Header
      <4>2. FrameLen(d, Len(hdr[d]))' = HeaderLen + x.bytes
        BY <3>4 DEF FrameLen
      <4>3. QED
        BY <4>1, <4>2, ConstantsAssumption
    <3>6. \A c \in Conns : c # d => AllSent(c)' = AllSent(c)
      BY <3>3 DEF AllSent, FrameLen
    <3>7. \A c \in Conns : c # d => FrameLen(c, Len(hdr[c]))' = FrameLen(c, Len(hdr[c]))
      BY <3>3 DEF FrameLen
    <3>8. rd[d].f \in Nat /\ rd[d].o \in Nat /\ served[d] \in Nat
      BY <1>1
    <3>9. QED
      BY <2>1, <3>3, <3>4, <3>5, <3>6, <3>7, <3>8 DEF ReadBehind
  <2>3. CASE Send(d)
    <3>1. hdr' = hdr /\ sent' = [sent EXCEPT ![d] = @ + 1] /\ ~AllSent(d)
      BY <2>3 DEF Send
    <3>2. sent'[d] = sent[d] + 1 /\ sent[d] \in Nat
          /\ \A c \in Conns : c # d => sent'[c] = sent[c]
      BY <1>1, <3>1
    <3>3. hdr[d] # <<>> /\ sent[d] # FrameLen(d, Len(hdr[d]))
      BY <3>1 DEF AllSent
    <3>4. FrameLen(d, Len(hdr[d])) \in Nat
      <4>1. Len(hdr[d]) \in DOMAIN hdr[d]
        BY <1>1, <3>3
      <4>2. QED
        BY <1>1, <4>1, FrameSizes
    <3>5. \A c \in Conns : \A n : FrameLen(c, n)' = FrameLen(c, n)
      BY <3>1 DEF FrameLen
    <3>6. \A c \in Conns : c # d => AllSent(c)' = AllSent(c)
      BY <3>1, <3>2 DEF AllSent, FrameLen
    <3>7. rd[d].o \in Nat
      BY <1>1
    <3>8. QED
      BY <2>1, <3>1, <3>2, <3>3, <3>4, <3>5, <3>6, <3>7 DEF ReadBehind
  <2>4. CASE ~BeginFrame(d) /\ ~Send(d)
    <3>1. UNCHANGED <<hdr, sent>>
      BY <1>5, <2>4 DEF ClientStep, Connect, SendToClosed, Receive, ResetArrives, Close,
           clientVars
    <3>2. QED
      BY <2>1, <3>1 DEF ReadBehind, AllSent, FrameLen
  <2>5. QED
    BY <2>2, <2>3, <2>4
<1>6. QED
  BY <1>2, <1>3, <1>4, <1>5
  DEF Next, ServerStep, ServerDies, StartupFails, RunFails, OutputFails, WriteKills

LEMMA ReadBehindInvariant == Spec => []ReadBehind
<1>1. Init => ReadBehind
  <2> SUFFICES ASSUME Init PROVE ReadBehind
    OBVIOUS
  <2>1. \A c \in Conns : /\ served[c] = 0 /\ hdr[c] = <<>> /\ Len(hdr[c]) = 0
                         /\ rd[c].f = 1 /\ rd[c].o = 0
    BY DEF Init
  <2>2. \A c \in Conns : AllSent(c)
    BY <2>1 DEF AllSent
  <2>3. ASSUME NEW c \in Conns
        PROVE  /\ served[c] <= Len(hdr[c])
               /\ rd[c].f <= Len(hdr[c]) \/ rd[c].o = 0
               /\ rd[c].f = Len(hdr[c]) => rd[c].o <= sent[c]
    BY <2>1
  <2>4. QED
    BY <2>1, <2>2, <2>3 DEF ReadBehind
<1>2. ReadInv /\ ReadBehind /\ [Next]_vars => ReadBehind'
  <2> SUFFICES ASSUME ReadInv, ReadBehind, [Next]_vars PROVE ReadBehind'
    OBVIOUS
  <2>1. CASE Next
    BY <2>1, ReadBehindStep
  <2>2. CASE UNCHANGED vars
    BY <2>2 DEF vars, procVars, sockVars, clientVars, ReadBehind, AllSent, FrameLen
  <2>3. QED
    BY <2>1, <2>2
<1>3. QED
  BY <1>1, <1>2, ReadInvInvariant, PTL DEF Spec

LEMMA PlaceStep ==
  ASSUME ReadInv, PlaceAtClose, Next
  PROVE  PlaceAtClose'
<1>1. ReadInv /\ Position /\ Registered /\ TypeOK /\ HeaderLen \in Nat
      /\ hdr \in [Conns -> Seq(Header)]
  BY ConstantsAssumption DEF ReadInv, TypeOK, ClientTypes
<1>2. CASE CheckHeader \/ ReadEnds \/ ReleaseOutputs
  <2>1. UNCHANGED <<client, served, rd, hdr>>
        /\ pc \in {"header", "check", "body", "release"}
    BY <1>2 DEF CheckHeader, ReadEnds, ReleaseOutputs, procVars, sockVars, clientVars
  <2>2. Between \/ \E o \in Nat : Within(o)
    <3>1. CASE pc = "header"
      BY <1>1, <3>1 DEF Position
    <3>2. CASE pc = "body"
      <4>1. got \in Nat /\ HeaderLen + got \in Nat /\ Within(HeaderLen + got)
        BY <1>1, <3>2 DEF Position, TypeOK, ServerTypes
      <4>2. QED
        BY <4>1
    <3>3. QED
      BY <1>1, <2>1, <3>1, <3>2 DEF Position
  <2>3. (Between \/ \E o \in Nat : Within(o))'
    BY <2>1, <2>2 DEF Between, Within, FrameLen
  <2>4. QED
    BY <2>3 DEF PlaceAtClose
<1>3. CASE \/ ModelOpen \/ Listen \/ Accept \/ ReadHeader \/ ReadBody \/ Run \/ TakeOutput
           \/ WriteByte \/ WriteVanishes \/ WriteFails \/ CloseClient \/ Die
  <2>1. pc' # "close"
    BY <1>3 DEF ModelOpen, Listen, Accept, ReadHeader, ReadBody, Run, TakeOutput,
         WriteByte, WriteVanishes, WriteFails, CloseClient, Die, WriteAdvances,
         AfterFailedWrite
  <2>2. QED
    BY <2>1 DEF PlaceAtClose
<1>4. ASSUME NEW d \in Conns, ClientStep(d), pc = "close"
      PROVE  PlaceAtClose'
  <2>1. UNCHANGED <<pc, client, served, rd, h, input>> /\ client \in Conns /\ m' = m
    BY <1>1, <1>4 DEF ClientStep, Connect, BeginFrame, Send, SendToClosed, Receive,
         ResetArrives, Close, procVars, sockVars, Registered, Serving
  <2>2. \A f \in DOMAIN hdr[client] :
          f \in DOMAIN hdr'[client] /\ hdr'[client][f] = hdr[client][f]
    <3>1. CASE UNCHANGED hdr
      BY <3>1
    <3>2. CASE BeginFrame(d)
      <4>1. PICK x \in Header : hdr' = [hdr EXCEPT ![d] = Append(@, x)]
        BY <3>2 DEF BeginFrame
      <4>2. hdr[d] \in Seq(Header)
        BY <1>1
      <4>3. \A f \in DOMAIN hdr[d] :
              f \in DOMAIN Append(hdr[d], x) /\ Append(hdr[d], x)[f] = hdr[d][f]
        BY <4>2
      <4>4. QED
        BY <1>1, <2>1, <4>1, <4>3
    <3>3. QED
      BY <1>4, <3>1, <3>2 DEF ClientStep, Connect, Send, SendToClosed, Receive,
           ResetArrives, Close, clientVars
  <2>3. (Between => Between') /\ \A o : Within(o) => Within(o)'
    BY <2>1, <2>2, PlacesKept
  <2>4. QED
    BY <1>4, <2>3 DEF PlaceAtClose
<1>5. ASSUME NEW d \in Conns, ClientStep(d), pc # "close"
      PROVE  PlaceAtClose'
  <2>1. pc' = pc
    BY <1>5 DEF ClientStep, Connect, BeginFrame, Send, SendToClosed, Receive,
         ResetArrives, Close
  <2>2. QED
    BY <1>5, <2>1 DEF PlaceAtClose
<1>6. QED
  BY <1>2, <1>3, <1>4, <1>5
  DEF Next, ServerStep, ServerDies, StartupFails, RunFails, OutputFails, WriteKills

LEMMA PlaceInvariant == Spec => []PlaceAtClose
<1>1. Init => PlaceAtClose
  BY DEF Init, PlaceAtClose
<1>2. ReadInv /\ PlaceAtClose /\ [Next]_vars => PlaceAtClose'
  <2> SUFFICES ASSUME ReadInv, PlaceAtClose, [Next]_vars PROVE PlaceAtClose'
    OBVIOUS
  <2>1. CASE Next
    BY <2>1, PlaceStep
  <2>2. CASE UNCHANGED vars
    <3>1. UNCHANGED <<pc, client, served, rd, hdr>>
      BY <2>2 DEF vars, procVars, sockVars, clientVars
    <3>2. QED
      BY <3>1 DEF PlaceAtClose, Between, Within, FrameLen
  <2>3. QED
    BY <2>1, <2>2
<1>3. QED
  BY <1>1, <1>2, ReadInvInvariant, PTL DEF Spec

-----------------------------------------------------------------------------
(* Polite clients                                                          *)

LEMMA AnsweredStep ==
  ASSUME Polite, ReadInv, Answered, Next
  PROVE  Answered'
<1>1. /\ hdr \in [Conns -> Seq(Header)] /\ rcvd \in [Conns -> Nat] /\ ReplyLen \in Nat
      /\ ReplyLen' = ReplyLen
  BY ReplySizes, ModelFixed DEF ReadInv, TypeOK, ClientTypes, ReplyLen, OutLen
<1>2. CASE ServerStep \/ ServerDies
  <2>1. UNCHANGED <<hdr, rcvd>>
    BY <1>2 DEF ServerStep, ServerDies, ModelOpen, Listen, Accept, ReadHeader, CheckHeader,
         ReadBody, ReadEnds, Run, TakeOutput, WriteByte, WriteVanishes, WriteFails,
         ReleaseOutputs, CloseClient, StartupFails, RunFails, OutputFails, WriteKills, Die,
         clientVars
  <2>2. QED
    BY <1>1, <2>1 DEF Answered
<1>3. ASSUME NEW d \in Conns, ClientStep(d)
      PROVE  Answered'
  <2>1. CASE BeginFrame(d)
    <3>1. PICK x \in Header : hdr' = [hdr EXCEPT ![d] = Append(@, x)]
      BY <2>1 DEF BeginFrame
    <3>2. rcvd' = rcvd /\ rcvd[d] = Len(hdr[d]) * ReplyLen
      BY <2>1 DEF BeginFrame, Idle
    <3>3. Len(hdr'[d]) = Len(hdr[d]) + 1 /\ Len(hdr[d]) \in Nat
          /\ \A c \in Conns : c # d => hdr'[c] = hdr[c]
      BY <1>1, <3>1
    <3>4. Len(hdr'[d]) - 1 = Len(hdr[d])
      BY <3>3
    <3>5. rcvd[d] \in Nat
      BY <1>1
    <3>6. rcvd'[d] >= (Len(hdr'[d]) - 1) * ReplyLen'
      BY <1>1, <3>2, <3>4, <3>5
    <3>7. QED
      BY <1>1, <3>2, <3>3, <3>6 DEF Answered
  <2>2. CASE Receive(d)
    <3>1. hdr' = hdr /\ \A c \in Conns : rcvd'[c] \in {rcvd[c], rcvd[c] + 1}
      BY <1>1, <2>2 DEF Receive
    <3>2. ASSUME NEW c \in Conns, hdr[c] # <<>>
          PROVE  rcvd'[c] >= (Len(hdr[c]) - 1) * ReplyLen
      <4>1. Len(hdr[c]) - 1 \in Nat
        BY <1>1, <3>2
      <4>2. (Len(hdr[c]) - 1) * ReplyLen \in Nat
        BY <1>1, <4>1, OneMore
      <4> DEFINE x == (Len(hdr[c]) - 1) * ReplyLen
      <4>3. x \in Nat /\ rcvd[c] \in Nat /\ rcvd[c] >= x
        BY <1>1, <3>2, <4>2 DEF Answered
      <4> HIDE DEF x
      <4>4. rcvd'[c] >= x
        BY <3>1, <4>3
      <4>5. QED
        BY <4>4 DEF x
    <3>3. QED
      BY <1>1, <3>1, <3>2 DEF Answered
  <2>3. CASE ~BeginFrame(d) /\ ~Receive(d)
    <3>1. UNCHANGED <<hdr, rcvd>>
      BY <1>3, <2>3 DEF ClientStep, Connect, Send, SendToClosed, ResetArrives, Close,
           clientVars
    <3>2. QED
      BY <1>1, <3>1 DEF Answered
  <2>4. QED
    BY <2>1, <2>2, <2>3
<1>4. QED
  BY <1>2, <1>3 DEF Next

(* A client with a frame the network was not run for has all its replies.  *)
LEMMA AllReceived ==
  ASSUME ReadInv, NoMoreThanDue, Answered, NEW c \in Conns, served[c] < Len(hdr[c])
  PROVE  rcvd[c] = Len(reply[c]) /\ ~(Replying /\ c = client)
<1>1. served[c] \in Nat /\ Len(hdr[c]) \in Nat /\ Len(reply[c]) \in Nat /\ rcvd[c] \in Nat
      /\ hdr[c] \in Seq(Header)
  BY DEF ReadInv, TypeOK, ServerTypes, SocketTypes, ClientTypes
<1>2. ReplyLen \in Nat
  BY ReplySizes
<1>3. hdr[c] # <<>> /\ served[c] <= Len(hdr[c]) - 1 /\ Len(hdr[c]) - 1 \in Nat
  BY <1>1
<1>4. \A a, b, r \in Nat : a <= b => a * r \in Nat /\ b * r \in Nat /\ a * r <= b * r
  OBVIOUS
<1> DEFINE x == served[c] * ReplyLen
           y == (Len(hdr[c]) - 1) * ReplyLen
<1>5. x \in Nat /\ y \in Nat /\ x <= y
  BY <1>1, <1>2, <1>3, <1>4
<1>6. rcvd[c] >= y /\ rcvd[c] <= Len(reply[c]) /\ Len(reply[c]) <= x
  BY <1>3, DueBound DEF Answered, NoMoreThanDue
<1>7. Due(c) \in Nat /\ Len(reply[c]) <= Due(c) /\ (Replying /\ c = client => Due(c) < x)
  BY DueBound DEF NoMoreThanDue
<1> HIDE DEF x, y
<1>8. QED
  BY <1>1, <1>5, <1>6, <1>7

LEMMA CutStep ==
  ASSUME ReadInv, NoMoreThanDue, ReadBehind, PlaceAtClose, Answered, CutOnlyAfter, Next
  PROVE  CutOnlyAfter'
<1>1. /\ cutting \in [Conns -> BOOLEAN] /\ reply \in [Conns -> Seq(ReplyByte)]
      /\ phase \in [Conns -> {"none", "queued", "active", "closed"}]
      /\ rcvd \in [Conns -> Nat] /\ served \in [Conns -> Nat] /\ hdr \in [Conns -> Seq(Header)]
      /\ queue \in Seq(Conns)
      /\ pc \in Serving => client \in Conns /\ phase[client] = "active"
      /\ Registered /\ TypeOK
  BY DEF ReadInv, TypeOK, SocketTypes, ServerTypes, ClientTypes, Registered
<1>2. CASE Die
  BY <1>2 DEF Die, CutOnlyAfter
<1>3. CASE CloseClient
  <2>1. /\ pc = "close" /\ phase' = [phase EXCEPT ![client] = "closed"]
        /\ cutting' = [cutting EXCEPT ![client] = @ \/ Readable(client)]
        /\ UNCHANGED <<reply, rcvd>>
    BY <1>3 DEF CloseClient, clientVars
  <2>2. client \in Conns /\ ~cutting[client]
    BY <1>1, <2>1 DEF Serving, CutOnlyAfter
  <2>3. ASSUME Readable(client) PROVE rcvd[client] = Len(reply[client])
    <3>1. Len(hdr[client]) \in Nat /\ served[client] \in Nat
      BY <1>1, <2>2
    <3>2. NextByte(client).f <= Len(hdr[client])
      BY <2>2, <2>3, <3>1, <1>1, NextByteType DEF Readable, TypeOK
    <3>3. served[client] < Len(hdr[client])
      <4>1. CASE Between
        <5>1. NextByte(client).f = served[client] + 1
          BY <1>1, <2>2, <4>1, NextBetween
        <5>2. QED
          BY <3>1, <3>2, <5>1
      <4>2. CASE \E o \in Nat : Within(o)
        <5>1. served[client] + 1 \in 1 .. Len(hdr[client])
          BY <1>1, <2>2, <4>2 DEF Within
        <5>2. QED
          BY <3>1, <5>1
      <4>3. QED
        BY <2>1, <4>1, <4>2 DEF PlaceAtClose
    <3>4. QED
      BY <2>2, <3>3, AllReceived
  <2>4. \A c \in Conns : c # client => cutting'[c] = cutting[c] /\ phase'[c] = phase[c]
    BY <1>1, <2>1
  <2>5. phase'[client] = "closed" /\ (cutting'[client] => Readable(client))
    BY <1>1, <2>1, <2>2
  <2>6. QED
    BY <2>1, <2>3, <2>4, <2>5 DEF CutOnlyAfter
<1>4. CASE WriteByte
  <2>1. UNCHANGED <<phase, cutting, rcvd>> /\ pc = "write"
        /\ \A c \in Conns : c # client => reply'[c] = reply[c]
    BY <1>1, <1>4 DEF WriteByte, clientVars
  <2>2. QED
    BY <1>1, <2>1 DEF CutOnlyAfter, Serving
<1>5. CASE Accept
  <2>1. /\ UNCHANGED <<cutting, rcvd, reply>> /\ pc = "accept" /\ queue # <<>>
        /\ phase' = [phase EXCEPT ![Head(queue)] = "active"]
    BY <1>5 DEF Accept, clientVars
  <2>2. phase[Head(queue)] = "queued"
    BY <1>1, <2>1 DEF Registered
  <2>3. \A c \in Conns : phase[c] = "closed" => phase'[c] = "closed"
    BY <1>1, <2>1, <2>2
  <2>4. QED
    BY <2>1, <2>3 DEF CutOnlyAfter
<1>6. CASE \/ ModelOpen \/ Listen \/ ReadHeader \/ CheckHeader \/ ReadBody \/ ReadEnds
           \/ Run \/ TakeOutput \/ WriteVanishes \/ WriteFails \/ ReleaseOutputs
  <2>1. UNCHANGED <<phase, cutting, rcvd, reply>> /\ pc # "dead"
    BY <1>6 DEF ModelOpen, Listen, ReadHeader, CheckHeader, ReadBody, ReadEnds, Run,
         TakeOutput, WriteVanishes, WriteFails, ReleaseOutputs, procVars, sockVars, clientVars
  <2>2. QED
    BY <2>1 DEF CutOnlyAfter
<1>7. ASSUME NEW d \in Conns, ClientStep(d)
      PROVE  CutOnlyAfter'
  <2>1. UNCHANGED <<pc, reply>>
    BY <1>7 DEF ClientStep, Connect, BeginFrame, Send, SendToClosed, Receive, ResetArrives,
         Close, procVars, sockVars
  <2>2. CASE SendToClosed(d)
    <3>1. /\ UNCHANGED <<phase, rcvd>> /\ cutting' = [cutting EXCEPT ![d] = TRUE]
          /\ phase[d] = "closed" /\ ~AllSent(d)
      BY <2>2 DEF SendToClosed, clientVars
    <3>2. served[d] < Len(hdr[d])
      <4>1. served[d] \in Nat /\ Len(hdr[d]) \in Nat
        BY <1>1
      <4>2. QED
        BY <3>1, <4>1 DEF ReadBehind
    <3>3. rcvd[d] = Len(reply[d])
      BY <3>2, AllReceived
    <3>4. QED
      BY <1>1, <2>1, <3>1, <3>3 DEF CutOnlyAfter
  <2>3. CASE Connect(d)
    <3>1. UNCHANGED <<cutting, rcvd>> /\ phase[d] = "none"
          /\ phase' = [phase EXCEPT ![d] = "queued"]
      BY <2>3 DEF Connect, clientVars
    <3>2. QED
      BY <1>1, <2>1, <3>1 DEF CutOnlyAfter
  <2>4. CASE Receive(d)
    <3>1. UNCHANGED <<cutting, phase>> /\ rcvd[d] < Len(reply[d])
          /\ \A c \in Conns : c # d => rcvd'[c] = rcvd[c]
      BY <1>1, <2>4 DEF Receive, sockVars
    <3>2. rcvd[d] \in Nat /\ Len(reply[d]) \in Nat
      BY <1>1
    <3>3. QED
      BY <2>1, <3>1, <3>2 DEF CutOnlyAfter
  <2>5. CASE BeginFrame(d) \/ Send(d) \/ ResetArrives(d) \/ Close(d)
    <3>1. UNCHANGED <<phase, cutting, rcvd>>
      BY <2>5 DEF BeginFrame, Send, ResetArrives, Close, sockVars, clientVars
    <3>2. QED
      BY <2>1, <3>1 DEF CutOnlyAfter
  <2>6. QED
    BY <1>7, <2>2, <2>3, <2>4, <2>5 DEF ClientStep
<1>8. QED
  BY <1>2, <1>3, <1>4, <1>5, <1>6, <1>7
  DEF Next, ServerStep, ServerDies, StartupFails, RunFails, OutputFails, WriteKills

LEMMA AnsweredInvariant ==
  ASSUME Polite
  PROVE  Spec => []Answered
<1>1. Init => Answered
  BY DEF Init, Answered
<1>2. ReadInv /\ Answered /\ [Next]_vars => Answered'
  <2> SUFFICES ASSUME ReadInv, Answered, [Next]_vars PROVE Answered'
    OBVIOUS
  <2>1. CASE Next
    BY <2>1, AnsweredStep
  <2>2. CASE UNCHANGED vars
    BY <2>2 DEF vars, clientVars, Answered, ReplyLen, OutLen
  <2>3. QED
    BY <2>1, <2>2
<1>3. QED
  BY <1>1, <1>2, ReadInvInvariant, PTL DEF Spec

(* With clients that read a reply before they send again, the server never *)
(* waits for a client that waits for it, however small the socket buffers. *)
THEOREM NobodyWaits ==
  ASSUME Polite
  PROVE  Spec => []NoMutualWait
<1>1. ReadInv /\ NoMoreThanDue /\ ReadBehind /\ Answered => NoMutualWait
  <2> SUFFICES ASSUME ReadInv, NoMoreThanDue, ReadBehind, Answered, pc = "write"
               PROVE  AllSent(client)
    BY DEF NoMutualWait
  <2>1. client \in Conns /\ Replying
    BY DEF ReadInv, Registered, Serving, Replying
  <2>2. served[client] \in Nat /\ Len(hdr[client]) \in Nat
    BY <2>1 DEF ReadInv, TypeOK, ServerTypes, ClientTypes
  <2>3. ~(served[client] < Len(hdr[client]))
    BY <2>1, AllReceived
  <2>4. served[client] = Len(hdr[client])
    BY <2>1, <2>2, <2>3 DEF ReadBehind
  <2>5. QED
    BY <2>1, <2>4 DEF ReadBehind
<1>2. QED
  BY <1>1, ReadInvInvariant, DueInvariant, ReadBehindInvariant, AnsweredInvariant, PTL

(* With such clients, a connection the server closes with bytes unread is  *)
(* never one whose reply is still on its way.                              *)
THEOREM RepliesArrive ==
  ASSUME Polite
  PROVE  Spec => []NoReplyCutOff
<1>1. Init => CutOnlyAfter
  BY DEF Init, CutOnlyAfter
<1>2. /\ ReadInv /\ NoMoreThanDue /\ ReadBehind /\ PlaceAtClose /\ Answered /\ CutOnlyAfter
      /\ [Next]_vars
      => CutOnlyAfter'
  <2> SUFFICES ASSUME ReadInv, NoMoreThanDue, ReadBehind, PlaceAtClose, Answered,
                      CutOnlyAfter, [Next]_vars
               PROVE  CutOnlyAfter'
    OBVIOUS
  <2>1. CASE Next
    BY <2>1, CutStep
  <2>2. CASE UNCHANGED vars
    BY <2>2 DEF vars, sockVars, clientVars, CutOnlyAfter
  <2>3. QED
    BY <2>1, <2>2
<1>3. CutOnlyAfter => NoReplyCutOff
  BY DEF CutOnlyAfter, NoReplyCutOff
<1>4. QED
  BY <1>1, <1>2, <1>3, ReadInvInvariant, DueInvariant, ReadBehindInvariant, PlaceInvariant,
     AnsweredInvariant, PTL DEF Spec
=============================================================================
