--------------------------- MODULE SessionProofs ---------------------------
(***************************************************************************)
(* Proofs about Session, for every set of calls, every number of packets   *)
(* and every choice of the server's answers: its types, the mutual         *)
(* exclusion that Conn.mu gives the calls, the handshake of breaks and     *)
(* resets, and the keystreams of SecureSession that it restarts; then that *)
(* requests and responses stay paired and that the session implements      *)
(* CallService, and that one break fails at most one call.                 *)
(***************************************************************************)
EXTENDS SecureSession, SequenceTheorems, FiniteSetTheorems, TLAPS

\* A call that is still writing has packets left to write, because only the
\* holder of Conn.mu touches the write buffer.
RequestUnfinished == \A k \in Calls : pc[k] = "write" => sent < ReqPkts

\* The server goes back to idle with the last packet of its response.
ResponseUnfinished == srv = "replying" => left > 0

IInv == TypeOK /\ Holder /\ RequestUnfinished /\ ResponseUnfinished

USE SessionAssumption DEF Reply, ClientMarker, ServerMarker, Data, Breakers

---------------------------------------------------------------------------
(* Packets and writes.                                                     *)

\* What is written is a packet of the right kind.
LEMMA PacketTypes ==
  /\ \A m \in ClientMarker : Mark(m) \in ToServer
  /\ \A m \in ServerMarker : Ack(m) \in ToClient
BY DEF Mark, Ack, ToServer, ToClient

\* A write, succeed or fail, keeps the stream to the server well typed and
\* leaves the transport open or closed.
LEMMA SendType ==
  ASSUME TypeOK, NEW p \in ToServer, Send(p)
  PROVE  c2s' \in Seq(ToServer) /\ alive' \in BOOLEAN
<1>1. c2s \in Seq(ToServer) /\ alive \in BOOLEAN
  BY DEF TypeOK
<1>2. Append(c2s, p) \in Seq(ToServer)
  BY <1>1, AppendProperties
<1> QED
  BY <1>1, <1>2 DEF Send

\* Reading a packet leaves a well typed stream, and the packet has its type.
LEMMA ConsumeType ==
  ASSUME TypeOK, s2c # <<>>, Consume
  PROVE  /\ s2c' \in Seq(ToClient)
         /\ Head(s2c) \in ToClient
         /\ cur' \in {"data"} \cup ServerMarker
BY HeadTailProperties DEF TypeOK, Consume, IsMarker, ToClient

---------------------------------------------------------------------------
(* The steps of a call.  Two of them return, the others move on with the   *)
(* lock kept, and only the packets they write or read change the wire.     *)

\* Inside processMessageCtx a call moves on and keeps Conn.mu.
LEMMA MovesOn ==
  ASSUME IInv, NEW k \in Calls, NEW step \in Steps \ {"ready", "done"},
         pc[k] \notin {"ready", "done"}, Goto(k, step), mu' = mu
  PROVE  pc' \in [Calls -> Steps] /\ Holder'
BY DEF IInv, TypeOK, Holder, Goto, Steps

\* processMessageLocked ends with a typed result, Conn.mu still held.
LEMMA Leaves ==
  ASSUME IInv, NEW k \in Calls, NEW r \in Results,
         pc[k] \notin {"ready", "done"}, Leave(k, r), mu' = mu
  PROVE  /\ pc' \in [Calls -> Steps] /\ Holder' /\ res' \in [Calls -> Results]
         /\ pc'[k] = "stop" /\ \A j \in Calls \ {k} : pc'[j] = pc[j]
BY DEF IInv, TypeOK, Holder, Leave, Goto, Steps

\* A call that returns leaves Conn.mu free: it held it, or nobody did.
LEMMA Returns ==
  ASSUME IInv, NEW k \in Calls, NEW r \in Results, pc[k] # "done",
         pc[k] = "ready" => mu = NoCall, Return(k, r)
  PROVE  /\ pc' \in [Calls -> Steps] /\ Holder' /\ res' \in [Calls -> Results]
         /\ mu' = NoCall /\ \A j \in Calls : pc'[j] # "write"
BY DEF IInv, TypeOK, Holder, Return, Goto, Steps

\* Nobody else is writing while k is inside processMessageCtx.
LEMMA OneWriter ==
  ASSUME IInv, NEW k \in Calls, pc[k] \notin {"ready", "done"}
  PROVE  \A j \in Calls \ {k} : pc[j] # "write"
BY DEF IInv, TypeOK, Holder


---------------------------------------------------------------------------
(* One lemma per action whose steps need more than their definitions.      *)

\* Writing a packet counts it, and never past the end of the request.
LEMMA WriteRequestInv ==
  ASSUME IInv, NEW k \in Calls, WriteRequest(k)
  PROVE  IInv'
<1>1. [type |-> "request", call |-> k, last |-> sent + 1 = ReqPkts] \in ToServer
  BY DEF ToServer
<1>2. c2s' \in Seq(ToServer) /\ alive' \in BOOLEAN
  BY <1>1, SendType DEF IInv, WriteRequest
<1>3. sent < ReqPkts /\ sent \in 0 .. ReqPkts
  BY DEF IInv, TypeOK, RequestUnfinished, WriteRequest
<1>4. pc' \in [Calls -> Steps] /\ Holder'
  BY MovesOn DEF WriteRequest, Leave, Steps
<1>5. TypeOK'
  BY <1>2, <1>3, <1>4 DEF IInv, TypeOK, Results, WriteRequest, Leave, breakVars, serverVars, history
<1>6. RequestUnfinished'
  BY <1>3, OneWriter DEF IInv, TypeOK, RequestUnfinished, WriteRequest, Leave, Goto
<1> QED
  BY <1>4, <1>5, <1>6 DEF IInv, ResponseUnfinished, WriteRequest, serverVars

\* A failed read makes the error of the read buffer the call's, or none.
LEMMA ReadFailsInv ==
  ASSUME IInv, NEW k \in Calls, ReadFails(k)
  PROVE  IInv'
<1>1. pc[k] \notin {"ready", "done", "write"} /\ mu' = mu
  BY DEF ReadFails
<1>2. rerr' \in {"marker", "closed"} /\ alive' \in BOOLEAN
  BY DEF IInv, TypeOK, ReadFails
<1>3. \/ \E step \in {"clear", "stop"} : Goto(k, step) /\ res' = res
      \/ Leave(k, rerr')
  BY DEF ReadFails
<1>4. pc' \in [Calls -> Steps] /\ Holder' /\ res' \in [Calls -> Results]
  BY <1>1, <1>2, <1>3, MovesOn, Leaves DEF IInv, TypeOK, Steps, Results
<1>5. TypeOK'
  BY <1>2, <1>4 DEF IInv, TypeOK, ReadFails, breakVars, serverVars, history
<1>6. RequestUnfinished'
  BY <1>1, <1>3, OneWriter DEF IInv, TypeOK, RequestUnfinished, ReadFails, Leave, Goto
<1> QED
  BY <1>4, <1>5, <1>6 DEF IInv, ResponseUnfinished, ReadFails, serverVars

\* A marker inside a response resets, breaks off, or ends the call.
LEMMA ReadMarkerInv ==
  ASSUME IInv, NEW k \in Calls, ReadMarker(k)
  PROVE  IInv'
<1>1. pc[k] \notin {"ready", "done", "write"} /\ mu' = mu
  BY DEF ReadMarker
<1>2. s2c' \in Seq(ToClient) /\ cur' \in {"data"} \cup ServerMarker
  BY ConsumeType DEF IInv, ReadMarker, CanRead
<1>3. /\ stage' \in {"first", "again", "flush", "fail", "late"}
      /\ res' \in [Calls -> Results]
      /\ \E step \in {"reset", "break", "stop", "clear"} : Goto(k, step)
  BY DEF IInv, TypeOK, ReadMarker, Leave, Results
<1>4. pc' \in [Calls -> Steps] /\ Holder'
  BY <1>1, <1>3, MovesOn DEF Steps
<1>5. TypeOK'
  BY <1>2, <1>3, <1>4 DEF IInv, TypeOK, ReadMarker, breakVars, serverVars, history
<1>6. RequestUnfinished'
  BY <1>1, <1>3, OneWriter DEF IInv, TypeOK, RequestUnfinished, ReadMarker, Goto
<1> QED
  BY <1>4, <1>5, <1>6 DEF IInv, ResponseUnfinished, ReadMarker, serverVars

\* What a call records of a response packet is typed.
LEMMA RecordType ==
  ASSUME TypeOK, NEW k \in Calls, NEW p \in ToClient, ~IsMarker(p), Record(k, p)
  PROVE  /\ got' \in [Calls -> SUBSET Calls] /\ answer' \in [Calls -> Data \cup {"none"}]
         /\ UNCHANGED <<targeted, breaks, ran>>
<1>1. p.type \in Data /\ p.from \in SUBSET Calls
  BY DEF ToClient, IsMarker
<1>2. got' \in [Calls -> SUBSET Calls]
  BY <1>1 DEF TypeOK, Record
<1>3. answer' \in [Calls -> Data \cup {"none"}]
  BY <1>1 DEF TypeOK, Record
<1> QED
  BY <1>2, <1>3 DEF Record

\* A complete response leaves the call, resends or asks for the flush; it
\* starts to write only with an empty request.
LEMMA CompleteType ==
  ASSUME IInv, NEW k \in Calls, NEW p \in ToClient, ~IsMarker(p), Complete(k, p)
  PROVE  /\ stage' \in {"first", "again", "flush", "fail", "late"}
         /\ sent' \in 0 .. ReqPkts /\ alive' \in BOOLEAN /\ res' \in [Calls -> Results]
         /\ \E step \in {"write", "flush", "stop", "clear"} :
              Goto(k, step) /\ (step = "write" => sent' = 0)
<1>1. p.type \in Data
  BY DEF ToClient, IsMarker
<1>2. CASE stage = "late"
  BY <1>2 DEF Complete, IInv, TypeOK
<1>3. CASE stage # "late" /\ p.type = "retry"
  BY <1>3 DEF Complete, IInv, TypeOK
<1>4. CASE stage # "late" /\ p.type = "flush"
  BY <1>4 DEF Complete, IInv, TypeOK
<1>5. CASE stage # "late" /\ p.type = "dead"
  BY <1>5 DEF Complete, IInv, TypeOK, Leave, Results
<1>6. CASE stage # "late" /\ p.type \notin {"retry", "flush", "dead"}
  BY <1>1, <1>6 DEF Complete, IInv, TypeOK, Leave, Results
<1> QED
  BY <1>2, <1>3, <1>4, <1>5, <1>6

\* A packet of the response is consumed; the last one completes the call.
LEMMA ReadDataInv ==
  ASSUME IInv, NEW k \in Calls, ReadData(k)
  PROVE  IInv'
<1>1. pc[k] \notin {"ready", "done", "write"} /\ mu' = mu /\ s2c # <<>>
  BY DEF ReadData, CanRead
<1>2. s2c' \in Seq(ToClient) /\ Head(s2c) \in ToClient /\ cur' \in {"data"} \cup ServerMarker
  BY <1>1, ConsumeType DEF IInv, ReadData
<1>3. /\ got' \in [Calls -> SUBSET Calls] /\ answer' \in [Calls -> Data \cup {"none"}]
      /\ UNCHANGED <<targeted, breaks, ran>>
  BY <1>2, RecordType DEF IInv, ReadData
<1>4. /\ stage' \in {"first", "again", "flush", "fail", "late"}
      /\ sent' \in 0 .. ReqPkts /\ alive' \in BOOLEAN /\ res' \in [Calls -> Results]
      /\ \E step \in {"read", "write", "flush", "stop", "clear"} :
           Goto(k, step) /\ (step = "write" => sent' = 0)
  <2>1. CASE Head(s2c).last
    BY <1>2, <2>1, CompleteType DEF ReadData
  <2>2. CASE ~Head(s2c).last
    BY <2>2 DEF ReadData, IInv, TypeOK
  <2> QED
    BY <2>1, <2>2
<1>5. pc' \in [Calls -> Steps] /\ Holder'
  BY <1>1, <1>4, MovesOn DEF Steps
<1>6. TypeOK'
  BY <1>2, <1>3, <1>4, <1>5 DEF IInv, TypeOK, ReadData, breakVars, serverVars
<1>7. RequestUnfinished'
  BY <1>1, <1>4, OneWriter DEF IInv, TypeOK, RequestUnfinished, Goto
<1> QED
  BY <1>5, <1>6, <1>7 DEF IInv, ResponseUnfinished, ReadData, serverVars

\* So is one that the client cannot process.
LEMMA ReadAbortsInv ==
  ASSUME IInv, NEW k \in Calls, ReadAborts(k)
  PROVE  IInv'
<1>1. pc[k] \notin {"ready", "done", "write"} /\ mu' = mu /\ s2c # <<>> /\ ~IsMarker(Head(s2c))
  BY DEF ReadAborts, CanRead, IsMarker
<1>2. s2c' \in Seq(ToClient) /\ Head(s2c) \in ToClient /\ cur' \in {"data"} \cup ServerMarker
  BY <1>1, ConsumeType DEF IInv, ReadAborts
<1>3. /\ got' \in [Calls -> SUBSET Calls] /\ answer' \in [Calls -> Data \cup {"none"}]
      /\ UNCHANGED <<targeted, breaks, ran>>
  BY <1>1, <1>2, RecordType DEF IInv, ReadAborts
<1>4. /\ stage' \in {"first", "again", "flush", "fail", "late"}
      /\ res' \in [Calls -> Results]
      /\ \E step \in {"break", "stop", "clear"} : Goto(k, step)
  BY DEF IInv, TypeOK, ReadAborts, Leave, Results
<1>5. pc' \in [Calls -> Steps] /\ Holder'
  BY <1>1, <1>4, MovesOn DEF Steps
<1>6. TypeOK'
  BY <1>2, <1>3, <1>4, <1>5 DEF IInv, TypeOK, ReadAborts, breakVars, serverVars
<1>7. RequestUnfinished'
  BY <1>1, <1>4, OneWriter DEF IInv, TypeOK, RequestUnfinished, ReadAborts, Goto
<1> QED
  BY <1>5, <1>6, <1>7 DEF IInv, ResponseUnfinished, ReadAborts, serverVars

\* The flush message is one packet of its own.
LEMMA SendFlushInv ==
  ASSUME IInv, NEW k \in Calls, SendFlush(k)
  PROVE  IInv'
<1>1. pc[k] \notin {"ready", "done", "write"} /\ mu' = mu
  BY DEF SendFlush
<1>2. c2s' \in Seq(ToServer) /\ alive' \in BOOLEAN
  <2>1. [type |-> "flush", call |-> k, last |-> TRUE] \in ToServer
    BY DEF ToServer
  <2> QED
    BY <2>1, SendType DEF IInv, SendFlush
<1>3. (Goto(k, "receive") /\ res' = res) \/ Leave(k, "closed")
  BY DEF SendFlush
<1>4. pc' \in [Calls -> Steps] /\ Holder' /\ res' \in [Calls -> Results]
  BY <1>1, <1>3, MovesOn, Leaves DEF IInv, TypeOK, Steps, Results
<1>5. TypeOK'
  BY <1>2, <1>4 DEF IInv, TypeOK, SendFlush, breakVars, serverVars, history
<1>6. RequestUnfinished'
  BY <1>1, <1>3, OneWriter DEF IInv, TypeOK, RequestUnfinished, SendFlush, Leave, Goto
<1> QED
  BY <1>4, <1>5, <1>6 DEF IInv, ResponseUnfinished, SendFlush, serverVars

\* The markers behind a reset, and the error response after them.
LEMMA SkipMarkersInv ==
  ASSUME IInv, NEW k \in Calls, SkipMarkers(k)
  PROVE  IInv'
<1>1. pc[k] \notin {"ready", "done", "write"} /\ mu' = mu /\ s2c # <<>>
  BY DEF SkipMarkers, CanRead
<1>2. s2c' \in Seq(ToClient) /\ cur' \in {"none", "data"} \cup ServerMarker
  BY <1>1, ConsumeType DEF IInv, TypeOK, SkipMarkers
<1>3. pc' = pc \/ \E step \in {"stop", "read"} : Goto(k, step)
  BY DEF SkipMarkers
<1>4. pc' \in [Calls -> Steps] /\ Holder'
  BY <1>1, <1>3, MovesOn DEF IInv, TypeOK, Holder, Steps
<1>5. TypeOK'
  BY <1>2, <1>4 DEF IInv, TypeOK, SkipMarkers, breakVars, serverVars, history
<1>6. RequestUnfinished'
  BY <1>1, <1>3, OneWriter DEF IInv, TypeOK, RequestUnfinished, SkipMarkers, Goto
<1> QED
  BY <1>4, <1>5, <1>6 DEF IInv, ResponseUnfinished, SkipMarkers, serverVars

\* The call returns, or cleans up after a break.
LEMMA StopInv ==
  ASSUME IInv, NEW k \in Calls, Stop(k)
  PROVE  IInv'
<1>1. pc[k] = "stop" /\ res[k] \in Results
  BY DEF IInv, TypeOK, Stop
<1>2. breaker' \in [Breakers -> {"off", "armed", "stopping", "fired"}]
  BY DEF IInv, TypeOK, Stop
<1>3. CASE Return(k, res[k]) /\ UNCHANGED <<stage, c2s, alive>>
  <2>1. pc' \in [Calls -> Steps] /\ Holder' /\ res' \in [Calls -> Results] /\ mu' = NoCall
        /\ \A j \in Calls : pc'[j] # "write"
    BY <1>1, <1>3, Returns
  <2>2. TypeOK'
    BY <1>2, <1>3, <2>1 DEF IInv, TypeOK, Stop, serverVars, history
  <2> QED
    BY <2>1, <2>2 DEF IInv, RequestUnfinished, ResponseUnfinished, Stop, serverVars
<1>4. CASE /\ PairUrgent(k)
           /\ UNCHANGED <<mu, res>>
           /\ IF AwaitsAnswer(k) THEN Goto(k, "receive") /\ stage' = "late"
                                 ELSE Goto(k, "clear") /\ UNCHANGED stage
  <2>1. c2s' \in Seq(ToServer) /\ alive' \in BOOLEAN
    BY <1>4, PacketTypes, SendType DEF IInv, TypeOK, PairUrgent
  <2>2. pc' \in [Calls -> Steps] /\ Holder'
    BY <1>1, <1>4, MovesOn DEF Steps
  <2>3. TypeOK'
    BY <1>2, <1>4, <2>1, <2>2 DEF IInv, TypeOK, Stop, serverVars, history
  <2>4. RequestUnfinished'
    BY <1>1, <1>4, OneWriter DEF IInv, TypeOK, RequestUnfinished, Stop, Goto
  <2> QED
    BY <2>2, <2>3, <2>4 DEF IInv, ResponseUnfinished, Stop, serverVars
<1> QED
  BY <1>3, <1>4 DEF Stop

\* The last step of a call that was broken.
LEMMA ClearInv ==
  ASSUME IInv, NEW k \in Calls, Clear(k)
  PROVE  IInv'
<1>1. pc[k] = "clear" /\ "ctx" \in Results /\ res[k] \in Results
  BY DEF IInv, TypeOK, Clear, Results
<1>2. (IF ctxDone[k] THEN "ctx" ELSE res[k]) \in Results
  BY <1>1, Zenon
<1>3. /\ pc' \in [Calls -> Steps] /\ Holder' /\ res' \in [Calls -> Results]
      /\ mu' = NoCall /\ \A j \in Calls : pc'[j] # "write"
  BY <1>1, <1>2, Returns DEF Clear
<1>4. /\ breakSent' \in BOOLEAN
      /\ UNCHANGED <<stage, sent, cur, rerr, alive, ctxDone, breaker, cancels, wireVars, serverVars, history>>
  BY Zenon DEF Clear
<1>5. TypeOK'
  BY <1>3, <1>4 DEF IInv, TypeOK, wireVars, serverVars, history
<1> QED
  BY <1>3, <1>4, <1>5 DEF IInv, RequestUnfinished, ResponseUnfinished, serverVars

\* Every step of a call, whatever the others are doing.
LEMMA CallStepInv ==
  ASSUME IInv, NEW k \in Calls, CallStep(k)
  PROVE  IInv'
<1> USE DEF IInv, TypeOK, Holder, RequestUnfinished, ResponseUnfinished, Steps, Results, Goto, serverVars, history
<1>1. CASE LockFails(k)
  BY <1>1 DEF LockFails, Return, Unlocked, breakVars, wireVars
<1>2. CASE Lock(k)
  BY <1>2 DEF Lock, Unlocked, wireVars
<1>3. CASE WriteRequest(k)
  BY <1>3, WriteRequestInv
<1>4. CASE WriteDefers(k)
  BY <1>4 DEF WriteDefers, Leave, breakVars, wireVars
<1>5. CASE ReadFails(k)
  BY <1>5, ReadFailsInv
<1>6. CASE ReceiveMarker(k)
  BY <1>6, ConsumeType DEF ReceiveMarker, CanRead, breakVars
<1>7. CASE ReadMarker(k)
  BY <1>7, ReadMarkerInv
<1>8. CASE ReadData(k)
  BY <1>8, ReadDataInv
<1>9. CASE ReadAborts(k)
  BY <1>9, ReadAbortsInv
<1>10. CASE SendFlush(k)
  BY <1>10, SendFlushInv
<1>11. CASE SendBreakMarker(k)
  <2>1. c2s' \in Seq(ToServer) /\ alive' \in BOOLEAN
    BY <1>11, SendType, PacketTypes DEF SendBreakMarker
  <2> QED
    BY <1>11, <2>1 DEF SendBreakMarker, breakVars
<1>12. CASE SendReset(k)
  BY <1>12, SendType, PacketTypes DEF SendReset, breakVars
<1>13. CASE Drain(k)
  BY <1>13, ConsumeType DEF Drain, CanRead, breakVars
<1>14. CASE SkipMarkers(k)
  BY <1>14, SkipMarkersInv
<1>15. CASE Stop(k)
  BY <1>15, StopInv
<1>16. CASE Clear(k)
  BY <1>16, ClearInv
<1> QED
  BY <1>1, <1>2, <1>3, <1>4, <1>5, <1>6, <1>7, <1>8, <1>9, <1>10, <1>11, <1>12, <1>13, <1>14, <1>15, <1>16
     DEF CallStep

---------------------------------------------------------------------------
(* Cancellation, the server and the network leave the calls where they are. *)

\* A break touches neither Conn.mu nor the request being written.
LEMMA BreakStepInv ==
  ASSUME IInv, NEW b \in Breakers, BreakStep(b)
  PROVE  IInv'
<1> USE DEF IInv, Holder, RequestUnfinished, ResponseUnfinished, clientVars, serverVars, history
<1>1. CASE SwapBreakSent(b)
  <2>1. cancels' \in 0 .. MaxCancels
    BY <1>1 DEF SwapBreakSent, WantsBreak, TypeOK
  <2>2. breaker' \in [Breakers -> {"off", "armed", "stopping", "fired"}]
    BY <1>1 DEF SwapBreakSent, TypeOK
  <2>3. breakSent' \in BOOLEAN
    BY <1>1, Zenon DEF SwapBreakSent, TypeOK
  <2>4. breaks' \in Nat /\ targeted' \in SUBSET Calls
    BY <1>1 DEF SwapBreakSent, TypeOK
  <2>5. UNCHANGED <<clientVars, ctxDone, wireVars, serverVars, got, answer, ran>>
    BY <1>1 DEF SwapBreakSent
  <2> QED
    BY <2>1, <2>2, <2>3, <2>4, <2>5 DEF TypeOK, wireVars
<1>2. CASE SendBreak(b)
  BY <1>2, SendType, PacketTypes DEF SendBreak, TypeOK
<1>3. CASE WatcherExits(b)
  BY <1>3 DEF WatcherExits, TypeOK, wireVars
<1> QED
  BY <1>1, <1>2, <1>3 DEF BreakStep

\* The server appends typed packets, and counts its response down to zero.
LEMMA ServerStepInv ==
  ASSUME IInv, ServerStep
  PROVE  IInv'
<1> USE DEF IInv, Holder, RequestUnfinished, ResponseUnfinished, clientVars, breakVars, history
<1>1. c2s # <<>> => Head(c2s) \in ToServer /\ Tail(c2s) \in Seq(ToServer)
  BY HeadTailProperties DEF TypeOK
<1>2. \A p \in ToClient : Append(s2c, p) \in Seq(ToClient)
  BY AppendProperties DEF TypeOK
<1>3. CASE ServerReceives
  <2>1. c2s' \in Seq(ToServer) /\ Head(c2s).call \in Calls
    BY <1>1, <1>3 DEF ServerReceives, Arrived, ToServer
  <2>2. final' \in BOOLEAN /\ owed' \in BOOLEAN
    BY <1>3, Zenon DEF ServerReceives
  <2>3. srv' \in {"executing", "partial"} /\ req' \in SUBSET Calls
    BY <1>3, <2>1 DEF ServerReceives, TypeOK
  <2>4. UNCHANGED <<clientVars, breakVars, s2c, urgent, peer, reply, left, history>>
    BY <1>3 DEF ServerReceives
  <2> QED
    BY <2>1, <2>2, <2>3, <2>4 DEF TypeOK
<1>4. CASE ServerExecutes
  BY <1>4 DEF ServerExecutes, TypeOK, wireVars
<1>5. CASE ServerReplies
  <2>1. [type |-> reply, from |-> req, last |-> left = 1] \in ToClient
    BY DEF TypeOK, ToClient
  <2> QED
    <3>1. s2c' \in Seq(ToClient)
      BY <1>2, <1>5, <2>1 DEF ServerReplies
    <3>2. left > 0 /\ left \in 0 .. RespPkts /\ left' = left - 1
      BY <1>5 DEF ServerReplies, TypeOK
    <3>3. peer' \in BOOLEAN /\ req' \in SUBSET Calls /\ srv' = IF left = 1 THEN "idle" ELSE "replying"
      <4>1. CASE left = 1
        <5>1. peer' \in BOOLEAN
          BY <1>5, <4>1, Zenon DEF ServerReplies
        <5>2. srv' = "idle" /\ req' = {}
          BY <1>5, <4>1, Zenon DEF ServerReplies
        <5> QED
          BY <4>1, <5>1, <5>2
      <4>2. CASE left # 1
        BY <1>5, <4>2 DEF ServerReplies, TypeOK
      <4> QED
        BY <4>1, <4>2
    <3>4. UNCHANGED <<clientVars, breakVars, c2s, urgent, reply, final, owed, history>>
      BY <1>5 DEF ServerReplies
    <3> QED
      BY <3>1, <3>2, <3>3, <3>4 DEF TypeOK
<1>6. CASE ServerBreaks
  <2>1. s2c' \in Seq(ToClient) /\ c2s' \in Seq(ToServer)
    BY <1>1, <1>2, <1>6, PacketTypes DEF ServerBreaks, Arrived, TypeOK
  <2>2. urgent' \in BOOLEAN /\ owed' \in BOOLEAN
    BY <1>6, Zenon DEF ServerBreaks, TypeOK
  <2>3. srv' = "resetting" /\ UNCHANGED <<clientVars, breakVars, peer, req, reply, left, final, history>>
    BY <1>6 DEF ServerBreaks
  <2> QED
    BY <2>1, <2>2, <2>3 DEF TypeOK
<1>7. CASE ServerIdleMarker
  <2>1. c2s' \in Seq(ToServer)
    BY <1>1, <1>7 DEF ServerIdleMarker, Arrived
  <2>2. s2c' \in Seq(ToClient)
    <3>1. Ack("break") \in ToClient
      BY PacketTypes
    <3>2. s2c' = s2c \/ s2c' = Append(s2c, Ack("break"))
      BY <1>7 DEF ServerIdleMarker
    <3> QED
      BY <1>2, <3>1, <3>2 DEF TypeOK
  <2>3. urgent' \in BOOLEAN /\ owed' \in BOOLEAN
    BY <1>7, Zenon DEF ServerIdleMarker, TypeOK
  <2>4. srv' \in {srv, "resetting"} /\ UNCHANGED <<clientVars, breakVars, peer, req, reply, left, final, history>>
    BY <1>7 DEF ServerIdleMarker
  <2>5. srv \in {"idle", "partial"}
    BY <1>7 DEF ServerIdleMarker
  <2> QED
    BY <2>1, <2>2, <2>3, <2>4, <2>5 DEF TypeOK
<1>8. CASE ServerDiscards
  BY <1>1, <1>8 DEF ServerDiscards, Arrived, TypeOK, serverVars
<1>9. CASE ServerResets
  <2>1. <<Ack("reset"), [type |-> "cancelled", from |-> req, last |-> TRUE]>> \in Seq(ToClient)
    BY PacketTypes DEF TypeOK, ToClient
  <2>2. s2c' \in Seq(ToClient)
    BY <1>9, <2>1, ConcatProperties DEF ServerResets, TypeOK
  <2> QED
    BY <1>1, <1>9, <2>2 DEF ServerResets, Arrived, TypeOK
<1> QED
  BY <1>3, <1>4, <1>5, <1>6, <1>7, <1>8, <1>9 DEF ServerStep

\* A lost connection empties the streams and nothing else.
LEMMA LoseInv ==
  ASSUME IInv, Lose
  PROVE  IInv'
<1>1. s2c \in Seq(ToClient)
  BY DEF IInv, TypeOK
<1>2. c2s' = <<>> /\ s2c' \in {s2c, <<>>}
  BY Zenon DEF Lose
<1>3. c2s' \in Seq(ToServer) /\ s2c' \in Seq(ToClient)
  BY <1>1, <1>2, EmptySeq
<1>4. peer' \in BOOLEAN /\ urgent' \in BOOLEAN
  BY Zenon DEF Lose
<1>5. UNCHANGED <<clientVars, breakVars, serverVars, history>>
  BY DEF Lose
<1> QED
  BY <1>3, <1>4, <1>5 DEF IInv, TypeOK, Holder, RequestUnfinished, ResponseUnfinished,
     clientVars, breakVars, serverVars, history

---------------------------------------------------------------------------
(* The theorems.                                                           *)

LEMMA InitInv == Init => IInv
<1> SUFFICES ASSUME Init PROVE IInv
  OBVIOUS
<1>1. c2s \in Seq(ToServer) /\ s2c \in Seq(ToClient)
  BY EmptySeq DEF Init
<1>2. /\ alive \in BOOLEAN /\ breakSent \in BOOLEAN /\ urgent \in BOOLEAN /\ peer \in BOOLEAN
      /\ final \in BOOLEAN /\ owed \in BOOLEAN
  BY Zenon DEF Init
<1>3. /\ mu \in Calls \cup {NoCall} /\ pc \in [Calls -> Steps]
      /\ stage \in {"first", "again", "flush", "fail", "late"}
      /\ sent \in 0 .. ReqPkts /\ cur \in {"none", "data"} \cup ServerMarker
      /\ rerr \in {"none", "marker", "closed"} /\ res \in [Calls -> Results]
      /\ ctxDone \in [Calls -> BOOLEAN] /\ breaker \in [Breakers -> {"off", "armed", "stopping", "fired"}]
      /\ cancels \in 0 .. MaxCancels
  BY DEF Init, Steps, Results
<1>4. /\ srv \in {"idle", "partial", "executing", "replying", "resetting"}
      /\ req \in SUBSET Calls /\ reply \in Reply /\ left \in 0 .. RespPkts
      /\ got \in [Calls -> SUBSET Calls] /\ answer \in [Calls -> Data \cup {"none"}]
      /\ targeted \in SUBSET Calls /\ breaks \in Nat /\ ran \in SUBSET Calls
  BY DEF Init
<1>5. TypeOK
  BY <1>1, <1>2, <1>3, <1>4 DEF TypeOK
<1> QED
  BY <1>5 DEF Init, IInv, Holder, RequestUnfinished, ResponseUnfinished

LEMMA NextInv == IInv /\ [Next]_vars => IInv'
<1> SUFFICES ASSUME IInv, [Next]_vars PROVE IInv'
  OBVIOUS
<1> USE DEF IInv, TypeOK, Holder, RequestUnfinished, ResponseUnfinished,
            vars, clientVars, breakVars, wireVars, serverVars, history
<1>1. CASE \E k \in Calls : CallStep(k)
  BY <1>1, CallStepInv
<1>2. CASE \E k \in Calls : CancelCtx(k)
  BY <1>2 DEF CancelCtx
<1>3. CASE \E b \in Breakers : BreakStep(b)
  BY <1>3, BreakStepInv
<1>4. CASE ServerStep
  BY <1>4, ServerStepInv
<1>5. CASE Lose
  BY <1>5, LoseInv
<1>6. CASE UNCHANGED vars
  BY <1>6
<1> QED
  BY <1>1, <1>2, <1>3, <1>4, <1>5, <1>6 DEF Next, Finished

\* The inductive invariant holds of every behaviour of the session.
THEOREM Invariance == Spec => []IInv
BY InitInv, NextInv, PTL DEF Spec

\* Every variable keeps its type, whatever the calls, the breaks, the server
\* and the network do.
THEOREM TypeCorrect == Spec => []TypeOK
BY Invariance, PTL DEF IInv

\* Conn.mu excludes: a call is between Lock and Unlock exactly while it is
\* the holder, so that at most one call at a time uses the session.
THEOREM MutualExclusion == Spec => []Holder
BY Invariance, PTL DEF IInv

---------------------------------------------------------------------------
(* The server receives a reset marker only while it is discarding up to    *)
(* one.  reset() and sendBreak take several steps each, with breaks of     *)
(* watchers and of the application between any two of them, so the         *)
(* invariant relates the markers in both directions of the stream to the   *)
(* step the holder of Conn.mu is at.                                       *)

\* Where the holder of Conn.mu is.
At == IF mu \in Calls THEN pc[mu] ELSE "out"

Has(s, types) == \E i \in DOMAIN s : s[i].type \in types

\* Only after the server's end is gone does the client close the transport.
PeerAlive == peer => alive

\* A session that is dead is closed behind the one packet that says so.
DeadIsLast ==
  peer => /\ ~Has(s2c, {"dead"})
          /\ srv = "replying" /\ reply # "ok" => left = 1

\* A reset marker under way is the only one, its call is draining, and the
\* server is discarding or will be when it has read the break before it.
ResetsFollow ==
  peer => \A i \in DOMAIN c2s : c2s[i].type = "reset" =>
     /\ srv = "resetting" \/ \E j \in DOMAIN c2s : j < i /\ c2s[j].type = "break"
     /\ \A j \in DOMAIN c2s : c2s[j].type = "reset" => j = i
     /\ At = "drain" /\ ~Has(s2c, {"reset"})

\* So is the server's answer to one.
AcksFollow ==
  alive => \A i \in DOMAIN s2c : s2c[i].type = "reset" =>
     At = "drain" /\ \A j \in DOMAIN s2c : s2c[j].type = "reset" => j = i

\* A break marker of the server is sent when it starts to discard.
BreaksPend ==
  peer => \A i \in DOMAIN s2c : s2c[i].type = "break" =>
     srv = "resetting" \/ \E j \in DOMAIN s2c : i < j /\ s2c[j].type = "reset"

\* A call that is about to reset has reason to: the server has sent a break
\* marker, or this call has.
Prepared ==
  alive => /\ At \in {"break", "reset"} => cur # "reset"
           /\ At = "reset" /\ peer => srv = "resetting" \/ Has(c2s, {"break"})
           /\ At = "drain" => rerr = "none"

ResetInv == PeerAlive /\ DeadIsLast /\ ResetsFollow /\ AcksFollow /\ BreaksPend /\ Prepared

---------------------------------------------------------------------------
(* Sequences, and where the holder is.                                     *)

\* Indices of a sequence with one more, with two more, or with one fewer element.
LEMMA Appended ==
  ASSUME NEW S, NEW s \in Seq(S), NEW e \in S
  PROVE  /\ Append(s, e) \in Seq(S)
         /\ DOMAIN s = 1 .. Len(s) /\ Len(s) \in Nat
         /\ DOMAIN Append(s, e) = 1 .. Len(s) + 1
         /\ \A i \in DOMAIN s : Append(s, e)[i] = s[i]
         /\ Append(s, e)[Len(s) + 1] = e
BY AppendProperties

LEMMA AppendedTwice ==
  ASSUME NEW S, NEW s \in Seq(S), NEW p \in S, NEW q \in S
  PROVE  /\ s \o <<p, q>> \in Seq(S)
         /\ DOMAIN s = 1 .. Len(s) /\ Len(s) \in Nat
         /\ DOMAIN (s \o <<p, q>>) = 1 .. Len(s) + 2
         /\ \A i \in DOMAIN s : (s \o <<p, q>>)[i] = s[i]
         /\ (s \o <<p, q>>)[Len(s) + 1] = p
         /\ (s \o <<p, q>>)[Len(s) + 2] = q
<1>1. s \o <<p, q>> = Append(Append(s, p), q)
  OBVIOUS
<1>2. /\ Append(s, p) \in Seq(S) /\ DOMAIN Append(s, p) = 1 .. Len(s) + 1
      /\ DOMAIN s = 1 .. Len(s) /\ Len(s) \in Nat /\ Len(Append(s, p)) = Len(s) + 1
      /\ \A i \in DOMAIN s : Append(s, p)[i] = s[i]
      /\ Append(s, p)[Len(s) + 1] = p
  BY AppendProperties
<1> DEFINE t == Append(s, p)
<1> HIDE DEF t
<1>3. /\ Append(t, q) \in Seq(S) /\ DOMAIN Append(t, q) = 1 .. Len(t) + 1
      /\ \A i \in DOMAIN t : Append(t, q)[i] = t[i]
      /\ Append(t, q)[Len(t) + 1] = q
  BY <1>2, Appended DEF t
<1> QED
  BY <1>1, <1>2, <1>3 DEF t

LEMMA Tailed ==
  ASSUME NEW S, NEW s \in Seq(S), s # <<>>
  PROVE  /\ DOMAIN s = 1 .. Len(s) /\ Len(s) \in Nat \ {0} /\ Head(s) = s[1]
         /\ DOMAIN Tail(s) = 1 .. Len(s) - 1
         /\ \A i \in DOMAIN Tail(s) : Tail(s)[i] = s[i + 1]
BY HeadTailProperties

\* A call inside processMessageCtx is the holder.
LEMMA Inside ==
  ASSUME IInv, NEW k \in Calls, pc[k] \notin {"ready", "done"}
  PROVE  mu = k /\ At = pc[k]
BY DEF IInv, TypeOK, Holder, At

\* It stays the holder when it moves on.
LEMMA Moves ==
  ASSUME IInv, NEW k \in Calls, NEW step \in Steps, pc[k] \notin {"ready", "done"},
         Goto(k, step), mu' = mu
  PROVE  mu = k /\ At = pc[k] /\ At' = step
BY DEF IInv, TypeOK, Holder, At, Goto, Steps

\* When nobody moves, the holder is where it was.
LEMMA Stays == UNCHANGED <<mu, pc>> => At' = At
BY DEF At

---------------------------------------------------------------------------
(* The steps, by what they do to the stream.                               *)

\* Steps that neither read nor write.
LEMMA ResetLocal ==
  ASSUME ResetInv, UNCHANGED <<c2s, s2c, peer, srv, reply, left>>,
         peer => alive', alive' => alive,
         alive' => \/ At' = At /\ cur' = cur /\ rerr' = rerr
                   \/ At # "drain" /\ At' \notin {"break", "reset", "drain"}
  PROVE  ResetInv'
BY DEF ResetInv, PeerAlive, DeadIsLast, ResetsFollow, AcksFollow, BreaksPend, Prepared, Has

\* What a write of p does to the stream, and to the transport.
LEMMA Sent ==
  ASSUME IInv, ResetInv, NEW p \in ToServer, Send(p)
  PROVE  /\ peer => alive' /\ c2s' = Append(c2s, p)
         /\ alive' => alive
BY DEF ResetInv, PeerAlive, Send

\* Writes of anything but a reset marker.
LEMMA ResetSend ==
  ASSUME IInv, ResetInv, NEW p \in ToServer, Send(p), p.type # "reset",
         UNCHANGED <<s2c, peer, srv, reply, left, cur, rerr>>,
         alive' => \/ At' = At
                   \/ At # "drain" /\ At' \notin {"break", "reset", "drain"}
                   \/ At = "break" /\ At' = "reset" /\ p.type = "break"
  PROVE  ResetInv'
<1>1. (peer => alive' /\ c2s' = Append(c2s, p)) /\ (alive' => alive)
  BY Sent
<1>2. c2s \in Seq(ToServer)
  BY DEF IInv, TypeOK
<1>3. peer => /\ DOMAIN c2s = 1 .. Len(c2s) /\ Len(c2s) \in Nat
              /\ DOMAIN c2s' = 1 .. Len(c2s) + 1
              /\ \A i \in DOMAIN c2s : c2s'[i] = c2s[i]
              /\ c2s'[Len(c2s) + 1] = p
  BY <1>1, <1>2, Appended
<1>4. PeerAlive' /\ DeadIsLast' /\ AcksFollow' /\ BreaksPend'
  BY <1>1, <1>3 DEF ResetInv, PeerAlive, DeadIsLast, ResetsFollow, AcksFollow, BreaksPend, Has
<1>5. ResetsFollow'
  BY <1>1, <1>3 DEF ResetInv, PeerAlive, ResetsFollow, Has
<1>6. Prepared'
  BY <1>1, <1>3 DEF ResetInv, PeerAlive, Prepared, Has
<1> QED
  BY <1>4, <1>5, <1>6 DEF ResetInv

\* The reset marker itself.
LEMMA ResetSendReset ==
  ASSUME IInv, ResetInv, NEW k \in Calls, SendReset(k)
  PROVE  ResetInv'
<1>1. pc[k] = "reset" /\ mu' = mu /\ rerr' = "none" /\ cur' = cur /\ Send(Mark("reset"))
      /\ UNCHANGED <<s2c, peer, srv, reply, left>>
  BY DEF SendReset, serverVars
<1>2. At = "reset" /\ At' = IF cur = "reset" THEN "skip" ELSE "drain"
  BY <1>1, Moves DEF SendReset, Steps
<1>3. (peer => alive' /\ c2s' = Append(c2s, Mark("reset"))) /\ (alive' => alive)
  BY <1>1, Sent, PacketTypes
<1>4. c2s \in Seq(ToServer) /\ Mark("reset") \in ToServer /\ Mark("reset").type = "reset"
  <2>1. Mark("reset") \in ToServer
    BY PacketTypes
  <2> QED
    BY <2>1 DEF IInv, TypeOK, Mark
<1>5. peer => /\ DOMAIN c2s = 1 .. Len(c2s) /\ Len(c2s) \in Nat
              /\ DOMAIN c2s' = 1 .. Len(c2s) + 1
              /\ \A i \in DOMAIN c2s : c2s'[i] = c2s[i]
              /\ c2s'[Len(c2s) + 1].type = "reset"
  BY <1>3, <1>4, Appended
<1>6. alive' => At' = "drain"
  BY <1>2, <1>3 DEF ResetInv, Prepared
<1>7. PeerAlive' /\ DeadIsLast' /\ BreaksPend' /\ Prepared'
  BY <1>1, <1>2, <1>3, <1>6 DEF ResetInv, PeerAlive, DeadIsLast, BreaksPend, Prepared, Has
<1>8. AcksFollow'
  BY <1>1, <1>2, <1>3, <1>6 DEF ResetInv, AcksFollow
<1>9. ResetsFollow'
  <2>1. peer => ~Has(c2s, {"reset"}) /\ ~Has(s2c, {"reset"})
    BY <1>2 DEF ResetInv, PeerAlive, ResetsFollow, AcksFollow, Has
  <2>2. peer => srv = "resetting" \/ Has(c2s, {"break"})
    BY <1>2 DEF ResetInv, PeerAlive, Prepared
  <2> QED
    BY <1>1, <1>3, <1>5, <1>6, <2>1, <2>2 DEF ResetsFollow, Has
<1> QED
  BY <1>7, <1>8, <1>9 DEF ResetInv

\* Reads by a call that is not draining: there is no reset marker to read,
\* and a break marker means that the server is discarding.
LEMMA ResetRead ==
  ASSUME IInv, ResetInv, CanRead, Consume,
         At \notin {"break", "reset", "drain"}, At' # "drain",
         At' = "reset" => IsMarker(Head(s2c)),
         alive' = alive \/ (alive' = FALSE /\ Head(s2c).type = "dead"),
         UNCHANGED <<c2s, peer, srv, reply, left>>
  PROVE  ResetInv'
<1>1. /\ s2c \in Seq(ToClient) /\ s2c # <<>> /\ alive
      /\ s2c' = Tail(s2c) /\ cur' = IF IsMarker(Head(s2c)) THEN Head(s2c).type ELSE "data"
  BY DEF IInv, TypeOK, CanRead, Consume
<1>2. /\ DOMAIN s2c = 1 .. Len(s2c) /\ Len(s2c) \in Nat \ {0} /\ Head(s2c) = s2c[1]
      /\ DOMAIN s2c' = 1 .. Len(s2c) - 1
      /\ \A i \in DOMAIN s2c' : s2c'[i] = s2c[i + 1] /\ i + 1 \in DOMAIN s2c
  BY <1>1, Tailed
<1>3. \A i \in DOMAIN s2c : s2c[i].type # "reset"
  BY <1>1 DEF ResetInv, AcksFollow
<1>4. \A i \in DOMAIN s2c' : s2c'[i].type # "reset"
  BY <1>2, <1>3
<1>5. cur' # "reset"
  BY <1>1, <1>2, <1>3
<1>6. PeerAlive' /\ DeadIsLast'
  <2>1. 1 \in DOMAIN s2c
    BY <1>2
  <2>2. Head(s2c).type = "dead" => ~peer
    BY <1>2, <2>1 DEF ResetInv, DeadIsLast, Has
  <2>3. PeerAlive'
    BY <2>2 DEF ResetInv, PeerAlive
  <2>4. DeadIsLast'
    BY <1>2 DEF ResetInv, DeadIsLast, Has
  <2> QED
    BY <2>3, <2>4
<1>7. ResetsFollow' /\ AcksFollow' /\ BreaksPend'
  BY <1>1, <1>2, <1>3, <1>4 DEF ResetInv, ResetsFollow, AcksFollow, BreaksPend, Has
<1>8. Prepared'
  <2>1. At' = "reset" /\ peer => srv = "resetting"
    <3>1. 1 \in DOMAIN s2c /\ s2c[1] = Head(s2c) /\ s2c[1].type # "reset"
      BY <1>2, <1>3
    <3> QED
      BY <1>3, <3>1 DEF ResetInv, BreaksPend, IsMarker
  <2> QED
    BY <1>5, <2>1 DEF Prepared
<1> QED
  BY <1>6, <1>7, <1>8 DEF ResetInv

\* Draining stops at the server's reset marker, the only one there is.
LEMMA ResetDrain ==
  ASSUME IInv, ResetInv, NEW k \in Calls, Drain(k)
  PROVE  ResetInv'
<1>1. /\ pc[k] = "drain" /\ CanRead /\ Consume /\ mu' = mu
      /\ UNCHANGED <<rerr, alive, c2s, peer, srv, reply, left>>
  BY DEF Drain, serverVars
<1>2. At = "drain" /\ At' = IF Head(s2c).type = "reset" THEN "skip" ELSE "drain"
  BY <1>1, Moves DEF Drain, Steps
<1>3. s2c \in Seq(ToClient) /\ s2c # <<>> /\ alive /\ s2c' = Tail(s2c) /\ rerr = "none"
  BY <1>1 DEF IInv, TypeOK, CanRead, Consume
<1>4. /\ DOMAIN s2c = 1 .. Len(s2c) /\ Len(s2c) \in Nat \ {0} /\ Head(s2c) = s2c[1]
      /\ DOMAIN s2c' = 1 .. Len(s2c) - 1
      /\ \A i \in DOMAIN s2c' : s2c'[i] = s2c[i + 1] /\ i + 1 \in DOMAIN s2c
  BY <1>3, Tailed
<1>5. PeerAlive' /\ DeadIsLast' /\ Prepared'
  BY <1>1, <1>2, <1>3, <1>4 DEF ResetInv, PeerAlive, DeadIsLast, Prepared, Has
<1>6. ResetsFollow'
  BY <1>1, <1>2, <1>4 DEF ResetInv, ResetsFollow, Has
<1>7. AcksFollow'
  BY <1>1, <1>2, <1>3, <1>4 DEF ResetInv, AcksFollow
<1>8. BreaksPend'
  <2> SUFFICES ASSUME peer', NEW i \in DOMAIN s2c', s2c'[i].type = "break"
               PROVE  srv' = "resetting" \/ \E j \in DOMAIN s2c' : i < j /\ s2c'[j].type = "reset"
    BY DEF BreaksPend
  <2>1. CASE srv = "resetting"
    BY <1>1, <2>1
  <2>2. CASE srv # "resetting"
    <3>1. PICK j \in DOMAIN s2c : i + 1 < j /\ s2c[j].type = "reset"
      BY <1>1, <1>4, <2>2 DEF ResetInv, BreaksPend
    <3>2. j - 1 \in DOMAIN s2c' /\ s2c'[j - 1] = s2c[j] /\ i < j - 1
      BY <1>4, <3>1
    <3> QED
      BY <3>1, <3>2
  <2> QED
    BY <2>1, <2>2
<1> QED
  BY <1>5, <1>6, <1>7, <1>8 DEF ResetInv

---------------------------------------------------------------------------
(* A call's steps.                                                         *)

\* Every step of a call.
LEMMA CallStepReset ==
  ASSUME IInv, ResetInv, NEW k \in Calls, CallStep(k)
  PROVE  ResetInv'
<1> USE DEF breakVars, wireVars, serverVars
<1>1. CASE LockFails(k)
  <2>1. At' \in {"out"}
    BY <1>1 DEF LockFails, Return, At
  <2>2. At = "out"
    BY <1>1 DEF LockFails, Unlocked, At
  <2> QED
    BY <1>1, <2>1, <2>2, ResetLocal DEF LockFails, ResetInv, PeerAlive
<1>2. CASE Lock(k)
  <2>1. At = "out" /\ At' = "write"
    BY <1>2 DEF Lock, Unlocked, At, Goto, IInv, TypeOK
  <2> QED
    BY <1>2, <2>1, ResetLocal DEF Lock, ResetInv, PeerAlive
<1>3. CASE WriteRequest(k)
  <2>1. At = "write" /\ At' \in {"write", "receive", "stop"}
    BY <1>3, Moves DEF WriteRequest, Leave, Steps
  <2>2. [type |-> "request", call |-> k, last |-> sent + 1 = ReqPkts] \in ToServer
    BY DEF ToServer
  <2> QED
    BY <1>3, <2>1, <2>2, ResetSend DEF WriteRequest
<1>4. CASE WriteDefers(k)
  <2>1. At = "write" /\ At' = "stop"
    BY <1>4, Moves DEF WriteDefers, Leave, Steps
  <2> QED
    BY <1>4, <2>1, ResetLocal DEF WriteDefers, ResetInv, PeerAlive
<1>5. CASE ReadFails(k)
  <2>1. pc[k] \in {"receive", "read", "drain", "skip"} /\ mu' = mu
        /\ \E step \in {"clear", "stop"} : Goto(k, step)
    BY <1>5 DEF ReadFails, Leave
  <2>2. At = pc[k] /\ At' \in {"clear", "stop"}
    BY <2>1, Moves DEF Steps
  <2>3. UNCHANGED <<c2s, s2c, peer, srv, reply, left>>
    BY <1>5 DEF ReadFails
  <2>4. rerr # "none" => alive' = alive /\ (alive => At # "drain")
    BY <1>5 DEF ReadFails, ResetInv, Prepared
  <2>5. rerr = "none" => alive' = FALSE /\ ~peer
    BY <1>5 DEF ReadFails, ResetInv, PeerAlive
  <2>6. (peer => alive') /\ (alive' => alive /\ At # "drain")
    BY <2>4, <2>5 DEF ResetInv, PeerAlive
  <2> QED
    BY <2>2, <2>3, <2>6, ResetLocal
<1>6. CASE ReceiveMarker(k)
  <2>1. At = "receive" /\ At' = "reset"
    BY <1>6, Moves DEF ReceiveMarker, Steps
  <2> QED
    BY <1>6, <2>1, ResetRead DEF ReceiveMarker
<1>7. CASE ReadMarker(k)
  <2>1. pc[k] = "read" /\ mu' = mu /\ \E step \in {"reset", "break", "stop", "clear"} : Goto(k, step)
    BY <1>7 DEF ReadMarker, Leave
  <2>2. At = "read" /\ At' \in {"reset", "break", "stop", "clear"}
    BY <2>1, Moves DEF Steps
  <2> QED
    BY <1>7, <2>2, ResetRead DEF ReadMarker
<1>8. CASE ReadData(k)
  <2>1. /\ pc[k] \in {"receive", "read"} /\ mu' = mu
        /\ \E step \in {"read", "write", "flush", "stop", "clear"} : Goto(k, step)
        /\ alive' = alive \/ (alive' = FALSE /\ Head(s2c).type = "dead")
    BY <1>8 DEF ReadData, Complete, Leave
  <2>2. At \in {"receive", "read"} /\ At' \in {"read", "write", "flush", "stop", "clear"}
    BY <2>1, Moves DEF Steps
  <2>3. CanRead /\ Consume /\ UNCHANGED <<c2s, peer, srv, reply, left>>
    BY <1>8 DEF ReadData
  <2> QED
    BY <2>1, <2>2, <2>3, ResetRead
<1>9. CASE ReadAborts(k)
  <2>1. /\ pc[k] \in {"receive", "read"} /\ mu' = mu /\ alive' = alive
        /\ \E step \in {"break", "stop", "clear"} : Goto(k, step)
    BY <1>9 DEF ReadAborts, Leave
  <2>2. At \in {"receive", "read"} /\ At' \in {"break", "stop", "clear"}
    BY <2>1, Moves DEF Steps
  <2>3. CanRead /\ Consume /\ UNCHANGED <<c2s, peer, srv, reply, left>>
    BY <1>9 DEF ReadAborts
  <2> QED
    BY <2>1, <2>2, <2>3, ResetRead
<1>10. CASE SendFlush(k)
  <2>1. pc[k] = "flush" /\ mu' = mu /\ \E step \in {"receive", "stop"} : Goto(k, step)
    BY <1>10 DEF SendFlush, Leave
  <2>2. At = "flush" /\ At' \in {"receive", "stop"}
    BY <2>1, Moves DEF Steps
  <2>3. [type |-> "flush", call |-> k, last |-> TRUE] \in ToServer
    BY DEF ToServer
  <2> QED
    BY <1>10, <2>2, <2>3, ResetSend DEF SendFlush
<1>11. CASE SendBreakMarker(k)
  <2>1. CASE alive
    <3>1. At = "break" /\ At' = "reset" /\ Mark("break").type = "break"
      BY <1>11, <2>1, Moves DEF SendBreakMarker, Steps, Mark
    <3> QED
      BY <1>11, <2>1, <3>1, PacketTypes, ResetSend DEF SendBreakMarker
  <2>2. CASE ~alive
    <3>1. At = "break" /\ At' = "stop"
      BY <1>11, <2>2, Moves DEF SendBreakMarker, Steps
    <3> QED
      BY <1>11, <2>2, <3>1, ResetLocal DEF SendBreakMarker, ResetInv, PeerAlive
  <2> QED
    BY <2>1, <2>2
<1>12. CASE SendReset(k)
  BY <1>12, ResetSendReset
<1>13. CASE Drain(k)
  BY <1>13, ResetDrain
<1>14. CASE SkipMarkers(k)
  <2>1. pc[k] = "skip" /\ mu' = mu /\ CanRead /\ UNCHANGED <<rerr, alive, c2s, peer, srv, reply, left>>
    BY <1>14 DEF SkipMarkers
  <2>2. At = "skip" /\ At' \in {"skip", "read", "stop"}
    <3>1. CASE pc' = pc
      BY <2>1, <3>1, Stays, Inside
    <3>2. CASE \E step \in {"read", "stop"} : Goto(k, step)
      BY <2>1, <3>2, Moves DEF Steps
    <3> QED
      BY <1>14, <3>1, <3>2 DEF SkipMarkers
  <2>3. CASE Consume
    BY <2>1, <2>2, <2>3, ResetRead
  <2>4. CASE UNCHANGED <<s2c, cur>>
    BY <2>1, <2>2, <2>4, ResetLocal DEF ResetInv, PeerAlive
  <2> QED
    BY <1>14, <2>3, <2>4 DEF SkipMarkers
<1>15. CASE Stop(k)
  <2>1. pc[k] = "stop" /\ At = "stop" /\ UNCHANGED <<cur, rerr, s2c, peer, srv, reply, left>>
    BY <1>15, Inside DEF Stop
  <2>2. CASE Return(k, res[k]) /\ UNCHANGED <<stage, c2s, alive>>
    <3>1. At' = "out"
      BY <2>2 DEF Return, At
    <3> QED
      BY <2>1, <2>2, <3>1, ResetLocal DEF ResetInv, PeerAlive
  <2>3. CASE /\ PairUrgent(k) /\ UNCHANGED mu
             /\ \E step \in {"receive", "clear"} : Goto(k, step)
    <3>1. At' \in {"receive", "clear"}
      BY <2>1, <2>3, Moves DEF Steps
    <3>2. CASE Send(Mark("interrupt"))
      <4>1. Mark("interrupt") \in ToServer /\ Mark("interrupt").type # "reset"
        <5>1. Mark("interrupt") \in ToServer
          BY PacketTypes
        <5> QED
          BY <5>1 DEF Mark
      <4> QED
        BY <2>1, <3>1, <3>2, <4>1, ResetSend
    <3>3. CASE UNCHANGED <<c2s, alive>>
      BY <2>1, <3>1, <3>3, ResetLocal DEF ResetInv, PeerAlive
    <3> QED
      BY <2>3, <3>2, <3>3 DEF PairUrgent
  <2> QED
    BY <1>15, <2>2, <2>3 DEF Stop
<1>16. CASE Clear(k)
  <2>1. At = "clear" /\ At' = "out"
    <3>1. pc[k] = "clear" /\ mu' = NoCall
      BY <1>16 DEF Clear, Return
    <3> QED
      BY <3>1, Inside DEF At
  <2>2. UNCHANGED <<cur, rerr, alive, c2s, s2c, peer, srv, reply, left>>
    BY <1>16 DEF Clear
  <2> QED
    BY <2>1, <2>2, ResetLocal DEF ResetInv, PeerAlive
<1> QED
  BY <1>1, <1>2, <1>3, <1>4, <1>5, <1>6, <1>7, <1>8, <1>9, <1>10, <1>11, <1>12, <1>13, <1>14, <1>15, <1>16
     DEF CallStep

---------------------------------------------------------------------------
(* The steps of the others.                                                *)

\* A break may come between any two steps of a reset.
LEMMA BreakStepReset ==
  ASSUME IInv, ResetInv, NEW b \in Breakers, BreakStep(b)
  PROVE  ResetInv'
<1>1. At' = At /\ UNCHANGED <<cur, rerr, s2c, peer, srv, reply, left>>
  BY Stays DEF BreakStep, SwapBreakSent, SendBreak, WatcherExits, clientVars, wireVars, serverVars
<1>2. CASE UNCHANGED <<c2s, alive>>
  BY <1>1, <1>2, ResetLocal DEF ResetInv, PeerAlive
<1>3. CASE Send(Mark("interrupt"))
  <2>1. Mark("interrupt") \in ToServer /\ Mark("interrupt").type # "reset"
    <3>1. Mark("interrupt") \in ToServer
      BY PacketTypes
    <3> QED
      BY <3>1 DEF Mark
  <2> QED
    BY <1>1, <1>3, <2>1, ResetSend
<1> QED
  BY <1>2, <1>3 DEF BreakStep, SwapBreakSent, SendBreak, WatcherExits, clientVars, wireVars

\* The server reads a packet that is not a reset marker, and is discarding
\* from then on if it was a break.
LEMMA ResetTaken ==
  ASSUME IInv, ResetInv, peer, c2s # <<>>, c2s' = Tail(c2s), Head(c2s).type # "reset",
         UNCHANGED <<mu, pc, cur, rerr, alive, s2c, peer, reply, left>>,
         srv' = "resetting" \/ (srv # "resetting" /\ srv' # "replying" /\ Head(c2s).type # "break")
  PROVE  ResetInv'
<1>1. At' = At
  BY Stays
<1>2. /\ DOMAIN c2s = 1 .. Len(c2s) /\ Len(c2s) \in Nat \ {0} /\ Head(c2s) = c2s[1]
      /\ DOMAIN c2s' = 1 .. Len(c2s) - 1
      /\ \A i \in DOMAIN c2s' : c2s'[i] = c2s[i + 1] /\ i + 1 \in DOMAIN c2s
      /\ \A i \in DOMAIN c2s : i # 1 => i - 1 \in DOMAIN c2s' /\ c2s'[i - 1] = c2s[i]
  BY Tailed DEF IInv, TypeOK
<1>3. PeerAlive' /\ DeadIsLast' /\ AcksFollow' /\ BreaksPend'
  BY <1>1 DEF ResetInv, PeerAlive, DeadIsLast, AcksFollow, BreaksPend, Has
<1>4. Prepared'
  <2>1. Has(c2s, {"break"}) /\ srv' # "resetting" => Has(c2s', {"break"})
    BY <1>2 DEF Has
  <2> QED
    BY <1>1, <2>1 DEF ResetInv, Prepared
<1>5. ResetsFollow'
  <2> SUFFICES ASSUME NEW i \in DOMAIN c2s', c2s'[i].type = "reset"
               PROVE  /\ srv' = "resetting" \/ \E j \in DOMAIN c2s' : j < i /\ c2s'[j].type = "break"
                      /\ \A j \in DOMAIN c2s' : c2s'[j].type = "reset" => j = i
                      /\ At' = "drain" /\ ~Has(s2c', {"reset"})
    BY DEF ResetsFollow
  <2>1. /\ srv = "resetting" \/ \E j \in DOMAIN c2s : j < i + 1 /\ c2s[j].type = "break"
        /\ \A j \in DOMAIN c2s : c2s[j].type = "reset" => j = i + 1
        /\ At = "drain" /\ ~Has(s2c, {"reset"})
    BY <1>2 DEF ResetInv, ResetsFollow
  <2>2. ASSUME srv' # "resetting" PROVE \E j \in DOMAIN c2s' : j < i /\ c2s'[j].type = "break"
    <3>1. PICK j \in DOMAIN c2s : j < i + 1 /\ c2s[j].type = "break"
      BY <2>1, <2>2
    <3>2. j # 1
      BY <1>2, <2>2, <3>1
    <3>3. j - 1 \in DOMAIN c2s' /\ c2s'[j - 1] = c2s[j] /\ j - 1 < i
      BY <1>2, <3>1, <3>2
    <3> QED
      BY <3>1, <3>3
  <2>3. \A j \in DOMAIN c2s' : c2s'[j].type = "reset" => j = i
    BY <1>2, <2>1
  <2> QED
    BY <1>1, <2>1, <2>2, <2>3 DEF Has
<1> QED
  BY <1>3, <1>4, <1>5 DEF ResetInv

\* The server answers a break with a marker, and discards from then on.
LEMMA ResetAnswered ==
  ASSUME IInv, ResetInv, peer, s2c' = Append(s2c, Ack("break")), srv' = "resetting",
         c2s' = c2s \/ (c2s # <<>> /\ c2s' = Tail(c2s)),
         UNCHANGED <<mu, pc, cur, rerr, alive, peer, reply, left>>
  PROVE  ResetInv'
<1>1. At' = At
  BY Stays
<1>2. s2c \in Seq(ToClient) /\ Ack("break") \in ToClient /\ Ack("break").type = "break"
  <2>1. Ack("break") \in ToClient
    BY PacketTypes
  <2> QED
    BY <2>1 DEF IInv, TypeOK, Ack
<1>3. /\ DOMAIN s2c = 1 .. Len(s2c) /\ Len(s2c) \in Nat
      /\ DOMAIN s2c' = 1 .. Len(s2c) + 1
      /\ \A i \in DOMAIN s2c : s2c'[i] = s2c[i]
      /\ s2c'[Len(s2c) + 1].type = "break"
  BY <1>2, Appended
<1>4. \A i \in DOMAIN c2s' : \E j \in DOMAIN c2s : c2s'[i] = c2s[j]
  <2>1. CASE c2s # <<>> /\ c2s' = Tail(c2s)
    <3>1. \A i \in DOMAIN c2s' : c2s'[i] = c2s[i + 1] /\ i + 1 \in DOMAIN c2s
      BY <2>1, Tailed DEF IInv, TypeOK
    <3> QED
      BY <3>1
  <2> QED
    BY <2>1
<1>5. PeerAlive' /\ DeadIsLast' /\ BreaksPend' /\ Prepared'
  BY <1>1, <1>3 DEF ResetInv, PeerAlive, DeadIsLast, BreaksPend, Prepared, Has
<1>6. AcksFollow'
  BY <1>1, <1>3 DEF ResetInv, AcksFollow
<1>7. ResetsFollow'
  <2>1. ~Has(s2c, {"reset"}) => ~Has(s2c', {"reset"})
    BY <1>3 DEF Has
  <2>2. Has(c2s', {"reset"}) => At = "drain" /\ ~Has(s2c, {"reset"})
    BY <1>4 DEF ResetInv, ResetsFollow, Has
  <2>3. \A i, j \in DOMAIN c2s' : c2s'[i].type = "reset" /\ c2s'[j].type = "reset" => i = j
    <3>1. CASE c2s' = c2s
      BY <3>1 DEF ResetInv, ResetsFollow
    <3>2. CASE c2s # <<>> /\ c2s' = Tail(c2s)
      <4>1. /\ DOMAIN c2s = 1 .. Len(c2s) /\ Len(c2s) \in Nat \ {0}
            /\ DOMAIN c2s' = 1 .. Len(c2s) - 1
            /\ \A i \in DOMAIN c2s' : c2s'[i] = c2s[i + 1] /\ i + 1 \in DOMAIN c2s
        BY <3>2, Tailed DEF IInv, TypeOK
      <4>2. \A i, j \in DOMAIN c2s : c2s[i].type = "reset" /\ c2s[j].type = "reset" => i = j
        BY DEF ResetInv, ResetsFollow
      <4> QED
        BY <4>1, <4>2
    <3> QED
      BY <3>1, <3>2
  <2> QED
    BY <1>1, <2>1, <2>2, <2>3 DEF ResetsFollow, Has
<1> QED
  BY <1>5, <1>6, <1>7 DEF ResetInv

\* A packet of a response, which ends with the session if it says so.
LEMMA ServerRepliesReset ==
  ASSUME IInv, ResetInv, ServerReplies
  PROVE  ResetInv'
<1>1. /\ peer /\ srv = "replying" /\ left' = left - 1 /\ left \in Nat
      /\ s2c' = Append(s2c, [type |-> reply, from |-> req, last |-> left = 1])
      /\ UNCHANGED <<mu, pc, cur, rerr, alive, c2s, reply>>
      /\ srv' = IF left = 1 THEN "idle" ELSE srv
      /\ peer' = IF left = 1 THEN reply # "dead" ELSE peer
  <2>1. left \in Nat
    BY DEF IInv, TypeOK
  <2> QED
    BY <2>1, Zenon DEF ServerReplies, clientVars, breakVars, history
<1>2. At' = At
  BY <1>1, Stays
<1>3. s2c \in Seq(ToClient) /\ reply \in Reply /\ [type |-> reply, from |-> req, last |-> left = 1] \in ToClient
  BY DEF IInv, TypeOK, ToClient
<1>4. /\ DOMAIN s2c = 1 .. Len(s2c) /\ Len(s2c) \in Nat
      /\ DOMAIN s2c' = 1 .. Len(s2c) + 1
      /\ \A i \in DOMAIN s2c : s2c'[i] = s2c[i]
      /\ s2c'[Len(s2c) + 1].type = reply
  BY <1>1, <1>3, Appended
<1>5. reply \notin {"reset", "break"} /\ (peer' => reply # "dead")
  <2>1. reply = "dead" => left = 1
    BY <1>1 DEF ResetInv, DeadIsLast
  <2> QED
    BY <1>1, <1>3, <2>1
<1>6. PeerAlive'
  BY <1>1 DEF ResetInv, PeerAlive
<1>7. DeadIsLast'
  <2>1. srv' = "replying" /\ reply' # "ok" => FALSE
    BY <1>1 DEF ResetInv, DeadIsLast
  <2>2. peer' => ~Has(s2c', {"dead"})
    <3> SUFFICES ASSUME peer', NEW i \in DOMAIN s2c' PROVE s2c'[i].type # "dead"
      BY DEF Has
    <3>1. CASE i \in DOMAIN s2c
      BY <1>1, <1>4, <3>1 DEF ResetInv, DeadIsLast, Has
    <3>2. CASE i = Len(s2c) + 1
      BY <1>4, <1>5, <3>2
    <3> QED
      BY <1>4, <3>1, <3>2
  <2> QED
    BY <2>1, <2>2 DEF DeadIsLast
<1>8. AcksFollow' /\ Prepared'
  BY <1>1, <1>2, <1>4, <1>5 DEF ResetInv, AcksFollow, Prepared
<1>9. ResetsFollow'
  BY <1>1, <1>2, <1>4, <1>5 DEF ResetInv, ResetsFollow, Has
<1>10. BreaksPend'
  BY <1>1, <1>4, <1>5 DEF ResetInv, BreaksPend
<1> QED
  BY <1>6, <1>7, <1>8, <1>9, <1>10 DEF ResetInv

\* The reset marker arrives: answered, and the handshake is over.
LEMMA ServerResetsReset ==
  ASSUME IInv, ResetInv, ServerResets
  PROVE  ResetInv'
<1>1. /\ peer /\ srv = "resetting" /\ srv' = "idle" /\ c2s # <<>> /\ Head(c2s).type = "reset"
      /\ c2s' = Tail(c2s)
      /\ s2c' = s2c \o <<Ack("reset"), [type |-> "cancelled", from |-> req, last |-> TRUE]>>
      /\ UNCHANGED <<mu, pc, cur, rerr, alive, peer, reply, left>>
  BY DEF ServerResets, Arrived, clientVars, breakVars, history
<1>2. At' = At
  BY <1>1, Stays
<1>3. /\ DOMAIN c2s = 1 .. Len(c2s) /\ Len(c2s) \in Nat \ {0} /\ Head(c2s) = c2s[1]
      /\ DOMAIN c2s' = 1 .. Len(c2s) - 1
      /\ \A i \in DOMAIN c2s' : c2s'[i] = c2s[i + 1] /\ i + 1 \in DOMAIN c2s
  BY <1>1, Tailed DEF IInv, TypeOK
<1>4. /\ DOMAIN s2c = 1 .. Len(s2c) /\ Len(s2c) \in Nat
      /\ DOMAIN s2c' = 1 .. Len(s2c) + 2
      /\ \A i \in DOMAIN s2c : s2c'[i] = s2c[i]
      /\ s2c'[Len(s2c) + 1].type = "reset" /\ s2c'[Len(s2c) + 2].type = "cancelled"
  <2> DEFINE p == Ack("reset")
             q == [type |-> "cancelled", from |-> req, last |-> TRUE]
  <2>1. s2c \in Seq(ToClient) /\ q \in ToClient
    BY DEF IInv, TypeOK, ToClient
  <2>2. p \in ToClient
    BY PacketTypes
  <2>3. p.type = "reset" /\ q.type = "cancelled"
    BY DEF Ack
  <2>4. s2c' = s2c \o <<p, q>>
    BY <1>1
  <2> HIDE DEF p, q
  <2> QED
    BY <2>1, <2>2, <2>3, <2>4, AppendedTwice
<1>5. At = "drain" /\ ~Has(s2c, {"reset"}) /\ \A j \in DOMAIN c2s : c2s[j].type = "reset" => j = 1
  <2>1. 1 \in DOMAIN c2s /\ c2s[1].type = "reset"
    BY <1>1, <1>3
  <2> QED
    BY <1>1, <2>1 DEF ResetInv, ResetsFollow
<1>6. \A i \in DOMAIN c2s' : c2s'[i].type # "reset"
  BY <1>3, <1>5
<1>7. PeerAlive' /\ DeadIsLast' /\ ResetsFollow' /\ Prepared'
  BY <1>1, <1>2, <1>4, <1>5, <1>6 DEF ResetInv, PeerAlive, DeadIsLast, ResetsFollow, Prepared, Has
<1>8. AcksFollow'
  BY <1>2, <1>4, <1>5 DEF AcksFollow, Has
<1>9. BreaksPend'
  BY <1>4 DEF BreaksPend
<1> QED
  BY <1>7, <1>8, <1>9 DEF ResetInv

\* Every step of the server.
LEMMA ServerStepReset ==
  ASSUME IInv, ResetInv, ServerStep
  PROVE  ResetInv'
<1> USE DEF clientVars, breakVars, wireVars, serverVars, history
<1>1. CASE ServerReceives
  BY <1>1, ResetTaken DEF ServerReceives, Arrived
<1>2. CASE ServerExecutes
  <2>1. /\ \E r \in Replies : reply' = r /\ left' = IF r = "ok" THEN RespPkts ELSE 1
        /\ srv = "executing" /\ srv' = "replying"
        /\ UNCHANGED <<mu, pc, cur, rerr, alive, c2s, s2c, peer>>
    BY <1>2 DEF ServerExecutes
  <2>2. At' = At
    BY <2>1, Stays
  <2> QED
    BY <2>1, <2>2
       DEF ResetInv, PeerAlive, DeadIsLast, ResetsFollow, AcksFollow, BreaksPend, Prepared, Has
<1>3. CASE ServerReplies
  BY <1>3, ServerRepliesReset
<1>4. CASE ServerBreaks
  BY <1>4, ResetAnswered DEF ServerBreaks, Arrived
<1>5. CASE ServerIdleMarker
  <2>1. CASE owed /\ Head(c2s).type = "interrupt"
    BY <1>5, <2>1, ResetTaken DEF ServerIdleMarker, Arrived
  <2>2. CASE ~(owed /\ Head(c2s).type = "interrupt")
    BY <1>5, <2>2, ResetAnswered DEF ServerIdleMarker, Arrived
  <2> QED
    BY <2>1, <2>2
<1>6. CASE ServerDiscards
  BY <1>6, ResetTaken DEF ServerDiscards, Arrived
<1>7. CASE ServerResets
  BY <1>7, ServerResetsReset
<1> QED
  BY <1>1, <1>2, <1>3, <1>4, <1>5, <1>6, <1>7 DEF ServerStep

\* A lost connection has no markers for the server.
LEMMA LoseReset ==
  ASSUME IInv, ResetInv, Lose
  PROVE  ResetInv'
<1>1. ~peer' /\ (s2c' = s2c \/ s2c' = <<>>) /\ UNCHANGED <<mu, pc, cur, rerr, alive>>
  BY DEF Lose, clientVars
<1>2. At' = At
  BY <1>1, Stays
<1> QED
  BY <1>1, <1>2 DEF ResetInv, PeerAlive, DeadIsLast, ResetsFollow, AcksFollow, BreaksPend, Prepared

---------------------------------------------------------------------------
(* The theorem.                                                            *)

\* A new session is not resetting.
LEMMA InitReset == Init => ResetInv
BY DEF Init, ResetInv, PeerAlive, DeadIsLast, ResetsFollow, AcksFollow, BreaksPend, Prepared, Has, At

\* Every step of the session.
LEMMA NextReset == IInv /\ ResetInv /\ [Next]_vars => ResetInv'
<1> SUFFICES ASSUME IInv, ResetInv, [Next]_vars PROVE ResetInv'
  OBVIOUS
<1>1. CASE \E k \in Calls : CallStep(k)
  BY <1>1, CallStepReset
<1>2. CASE (\E k \in Calls : CancelCtx(k)) \/ UNCHANGED vars
  <2>1. UNCHANGED <<mu, pc, cur, rerr, alive, c2s, s2c, peer, srv, reply, left>>
    BY <1>2 DEF CancelCtx, vars, clientVars, wireVars, serverVars
  <2> QED
    BY <2>1, Stays, ResetLocal DEF ResetInv, PeerAlive
<1>3. CASE \E b \in Breakers : BreakStep(b)
  BY <1>3, BreakStepReset
<1>4. CASE ServerStep
  BY <1>4, ServerStepReset
<1>5. CASE Lose
  BY <1>5, LoseReset
<1> QED
  BY <1>1, <1>2, <1>3, <1>4, <1>5 DEF Next, Finished

\* The invariant of the handshake holds of every behaviour of the session.
THEOREM ResetInvariance == Spec => []ResetInv
BY Invariance, InitReset, NextReset, PTL DEF Spec

\* reset() and sendBreak never get out of step with the server: a reset
\* marker reaches it only while it is discarding up to one, however many
\* breaks of whatever kind were sent before.
THEOREM ResetsAreExpected == Spec => []ResetExpected
<1>1. IInv /\ ResetInv => ResetExpected
  <2> SUFFICES ASSUME IInv, ResetInv, Arrived({"reset"}) PROVE srv = "resetting"
    BY DEF ResetExpected
  <2>1. 1 \in DOMAIN c2s /\ DOMAIN c2s = 1 .. Len(c2s) /\ c2s[1].type = "reset" /\ peer
    BY Tailed DEF IInv, TypeOK, Arrived
  <2> QED
    BY <2>1 DEF ResetInv, ResetsFollow
<1> QED
  BY <1>1, Invariance, ResetInvariance, PTL

---------------------------------------------------------------------------
(* The keystreams of SecureSession stay in step if no response fails to be *)
(* processed (Abortable = {}): a call then resets only after a marker of   *)
(* the server, with nothing behind it until the server resets as well.     *)

\* A call that resets, or has, has the server discarding.
Resetting == peer /\ (At \in {"break", "reset"} \/ Has(c2s, {"reset"})) => srv = "resetting"

\* Nothing is left of a response that a marker of the server broke off.
Drained == alive /\ At \in {"break", "reset"} => ~Has(s2c, Data)

\* Behind a break marker the server sends nothing before its reset marker.
BreaksLast ==
  alive => \A i, j \in DOMAIN s2c : s2c[i].type = "break" /\ s2c[j].type \in Data /\ i < j =>
    \E m \in DOMAIN s2c : i < m /\ m < j /\ s2c[m].type = "reset"

BreakInv == Resetting /\ Drained /\ BreaksLast

\* A step of a call or a break that reads nothing and writes at most a packet.
Writes ==
  /\ UNCHANGED <<s2c, peer, srv>> /\ (peer => alive') /\ (alive' => alive)
  /\ alive' /\ At' \in {"break", "reset"} => At \in {"break", "reset"}
  /\ \/ ~ClientResets /\ c2s' = c2s
     \/ ~ClientResets /\ peer /\ \E p \in ToServer : p.type # "reset" /\ c2s' = Append(c2s, p)
     \/ ClientResets /\ At = "reset" /\ (alive' => At' # "reset")
          /\ c2s' = IF peer THEN Append(c2s, Mark("reset")) ELSE c2s

\* A step of a call that takes a packet of the server.
Reads ==
  /\ UNCHANGED <<c2s, peer, srv>> /\ ~ClientResets
  /\ alive /\ s2c # <<>> /\ s2c' = Tail(s2c)
  /\ At' \in {"break", "reset"} => At # "drain" /\ Head(s2c).type = "break"

\* A call that moves elsewhere than from its reset() restarts no keystream.
LEMMA NoReset ==
  ASSUME IInv, NEW k \in Calls, NEW step \in Steps, Goto(k, step), pc[k] # "reset"
  PROVE  ~ClientResets
BY DEF IInv, TypeOK, Goto, ClientResets

\* A packet written other than a reset marker.
LEMMA WritesOne ==
  ASSUME IInv, ResetInv, NEW p \in ToServer, Send(p), p.type # "reset", ~ClientResets,
         UNCHANGED <<s2c, peer, srv>>,
         At' \in {"break", "reset"} => At \in {"break", "reset"}
  PROVE  Writes
<1>1. (peer => alive' /\ c2s' = Append(c2s, p)) /\ (alive' => alive)
  BY Sent
<1>2. CASE peer
  BY <1>1, <1>2 DEF Writes
<1>3. CASE ~peer
  BY <1>1, <1>3 DEF Writes, Send
<1> QED
  BY <1>2, <1>3

\* A step that neither reads nor writes.
LEMMA WritesNone ==
  ASSUME ResetInv, UNCHANGED <<s2c, c2s, peer, srv>>, ~ClientResets, peer => alive', alive' => alive,
         At' \in {"break", "reset"} => At \in {"break", "reset"}
  PROVE  Writes
BY DEF Writes

\* A marker that a call not draining reads is a break marker.
LEMMA MarkerRead ==
  ASSUME IInv, ResetInv, alive, s2c # <<>>, IsMarker(Head(s2c)), At # "drain"
  PROVE  Head(s2c).type = "break"
<1>1. 1 \in DOMAIN s2c /\ s2c[1] = Head(s2c)
  BY Tailed DEF IInv, TypeOK
<1> QED
  BY <1>1 DEF ResetInv, AcksFollow, IsMarker

\* Every step of a call is of one of the two kinds.
LEMMA CallStepKind ==
  ASSUME Abortable = {}, IInv, ResetInv, NEW k \in Calls, CallStep(k)
  PROVE  Writes \/ Reads
<1> USE DEF breakVars, wireVars, serverVars
<1>0. peer => alive
  BY DEF ResetInv, PeerAlive
<1>1. CASE LockFails(k)
  <2>1. At' = "out" /\ pc[k] = "ready" /\ Goto(k, "done")
    BY <1>1 DEF LockFails, Return, At
  <2>2. ~ClientResets
    BY <2>1, NoReset DEF Steps
  <2> QED
    BY <1>0, <1>1, <2>1, <2>2, WritesNone DEF LockFails
<1>2. CASE Lock(k)
  <2>1. At' = "write"
    BY <1>2 DEF Lock, At, Goto, IInv, TypeOK
  <2>2. ~ClientResets
    BY <1>2, NoReset DEF Lock, Steps
  <2> QED
    BY <1>0, <1>2, <2>1, <2>2, WritesNone DEF Lock
<1>3. CASE WriteRequest(k)
  <2>1. pc[k] = "write" /\ mu' = mu /\ \E step \in {"write", "receive", "stop"} : Goto(k, step)
    BY <1>3 DEF WriteRequest, Leave
  <2>2. At' \in {"write", "receive", "stop"} /\ ~ClientResets
    BY <2>1, Moves, NoReset DEF Steps
  <2>3. [type |-> "request", call |-> k, last |-> sent + 1 = ReqPkts] \in ToServer
    BY DEF ToServer
  <2> QED
    BY <1>3, <2>2, <2>3, WritesOne DEF WriteRequest
<1>4. CASE WriteDefers(k)
  <2>1. At' = "stop" /\ ~ClientResets
    BY <1>4, Moves, NoReset DEF WriteDefers, Leave, Steps
  <2> QED
    BY <1>0, <1>4, <2>1, WritesNone DEF WriteDefers
<1>5. CASE ReadFails(k)
  <2>1. pc[k] \in {"receive", "read", "drain", "skip"} /\ mu' = mu
        /\ \E step \in {"clear", "stop"} : Goto(k, step)
    BY <1>5 DEF ReadFails, Leave
  <2>2. At' \in {"clear", "stop"} /\ ~ClientResets
    BY <2>1, Moves, NoReset DEF Steps
  <2>3. UNCHANGED <<c2s, s2c, peer, srv>>
    BY <1>5 DEF ReadFails
  <2>4. rerr # "none" => alive' = alive
    BY <1>5 DEF ReadFails
  <2>5. rerr = "none" => alive' = FALSE /\ ~peer
    BY <1>0, <1>5 DEF ReadFails
  <2> QED
    BY <1>0, <2>2, <2>3, <2>4, <2>5, WritesNone
<1>6. CASE ReceiveMarker(k)
  <2>1. At = "receive" /\ ~ClientResets
    BY <1>6, Moves, NoReset DEF ReceiveMarker, Steps
  <2>2. alive /\ s2c # <<>> /\ IsMarker(Head(s2c)) /\ s2c' = Tail(s2c) /\ UNCHANGED <<c2s, peer, srv>>
    BY <1>6 DEF ReceiveMarker, CanRead, Consume
  <2> QED
    BY <2>1, <2>2, MarkerRead DEF Reads
<1>7. CASE ReadMarker(k)
  <2>1. pc[k] = "read" /\ mu' = mu /\ \E step \in {"reset", "break", "stop", "clear"} : Goto(k, step)
    BY <1>7 DEF ReadMarker, Leave
  <2>2. At = "read" /\ ~ClientResets
    BY <2>1, Moves, NoReset DEF Steps
  <2>3. alive /\ s2c # <<>> /\ IsMarker(Head(s2c)) /\ s2c' = Tail(s2c) /\ UNCHANGED <<c2s, peer, srv>>
    BY <1>7 DEF ReadMarker, CanRead, Consume
  <2> QED
    BY <2>2, <2>3, MarkerRead DEF Reads
<1>8. CASE ReadData(k)
  <2>1. /\ pc[k] \in {"receive", "read"} /\ mu' = mu
        /\ \E step \in {"read", "write", "flush", "stop", "clear"} : Goto(k, step)
    BY <1>8 DEF ReadData, Complete, Leave
  <2>2. At' \in {"read", "write", "flush", "stop", "clear"} /\ ~ClientResets
    BY <2>1, Moves, NoReset DEF Steps
  <2>3. alive /\ s2c # <<>> /\ s2c' = Tail(s2c) /\ UNCHANGED <<c2s, peer, srv>>
    BY <1>8 DEF ReadData, CanRead, Consume
  <2> QED
    BY <2>2, <2>3 DEF Reads
<1>9. CASE ReadAborts(k)
  BY <1>9 DEF ReadAborts
<1>10. CASE SendFlush(k)
  <2>1. pc[k] = "flush" /\ mu' = mu /\ \E step \in {"receive", "stop"} : Goto(k, step)
    BY <1>10 DEF SendFlush, Leave
  <2>2. At' \in {"receive", "stop"} /\ ~ClientResets
    BY <2>1, Moves, NoReset DEF Steps
  <2>3. [type |-> "flush", call |-> k, last |-> TRUE] \in ToServer
    BY DEF ToServer
  <2> QED
    BY <1>10, <2>2, <2>3, WritesOne DEF SendFlush
<1>11. CASE SendBreakMarker(k)
  <2>1. pc[k] = "break" /\ mu' = mu /\ \E step \in {"reset", "stop"} : Goto(k, step)
    BY <1>11 DEF SendBreakMarker
  <2>2. At = "break" /\ ~ClientResets
    BY <2>1, Moves, NoReset DEF Steps
  <2>3. CASE alive
    <3>1. Mark("break").type = "break" /\ Mark("break") \in ToServer
      <4>1. Mark("break") \in ToServer
        BY PacketTypes
      <4> QED
        BY <4>1 DEF Mark
    <3> QED
      BY <1>11, <2>2, <2>3, <3>1, WritesOne DEF SendBreakMarker
  <2>4. CASE ~alive
    BY <1>0, <1>11, <2>2, <2>4, WritesNone DEF SendBreakMarker
  <2> QED
    BY <2>3, <2>4
<1>12. CASE SendReset(k)
  <2>1. /\ pc[k] = "reset" /\ mu' = mu /\ Send(Mark("reset")) /\ UNCHANGED <<s2c, peer, srv>>
        /\ \E step \in {"skip", "drain"} : Goto(k, step)
    BY <1>12 DEF SendReset
  <2>2. At = "reset" /\ At' \in {"skip", "drain"}
    BY <2>1, Moves DEF Steps
  <2>3. ClientResets
    BY <2>1 DEF IInv, TypeOK, Goto, ClientResets
  <2>4. (peer => alive' /\ c2s' = Append(c2s, Mark("reset"))) /\ (alive' => alive)
    BY <2>1, Sent, PacketTypes
  <2>5. ~peer => c2s' = c2s
    BY <2>1 DEF Send
  <2> QED
    BY <2>1, <2>2, <2>3, <2>4, <2>5 DEF Writes
<1>13. CASE Drain(k)
  <2>1. /\ pc[k] = "drain" /\ mu' = mu /\ \E step \in {"skip", "drain"} : Goto(k, step)
        /\ alive /\ s2c # <<>> /\ s2c' = Tail(s2c) /\ UNCHANGED <<c2s, peer, srv>>
    BY <1>13 DEF Drain, CanRead, Consume
  <2>2. At' \in {"skip", "drain"} /\ ~ClientResets
    BY <2>1, Moves, NoReset DEF Steps
  <2> QED
    BY <2>1, <2>2 DEF Reads
<1>14. CASE SkipMarkers(k)
  <2>1. pc[k] = "skip" /\ mu' = mu /\ CanRead /\ UNCHANGED <<alive, c2s, peer, srv>>
    BY <1>14 DEF SkipMarkers
  <2>2. At' \in {"skip", "read", "stop"} /\ ~ClientResets
    <3>1. CASE pc' = pc
      BY <2>1, <3>1, Stays, Inside DEF ClientResets
    <3>2. CASE \E step \in {"read", "stop"} : Goto(k, step)
      BY <2>1, <3>2, Moves, NoReset DEF Steps
    <3> QED
      BY <1>14, <3>1, <3>2 DEF SkipMarkers
  <2>3. CASE Consume
    BY <2>1, <2>2, <2>3 DEF Reads, CanRead, Consume
  <2>4. CASE UNCHANGED <<s2c, cur>>
    BY <1>0, <2>1, <2>2, <2>4, WritesNone
  <2> QED
    BY <1>14, <2>3, <2>4 DEF SkipMarkers
<1>15. CASE Stop(k)
  <2>1. pc[k] = "stop" /\ UNCHANGED <<s2c, peer, srv>>
    BY <1>15 DEF Stop
  <2>2. CASE Return(k, res[k]) /\ UNCHANGED <<stage, c2s, alive>>
    <3>1. At' = "out" /\ Goto(k, "done")
      BY <2>2 DEF Return, At
    <3> QED
      BY <1>0, <2>1, <2>2, <3>1, WritesNone, NoReset DEF Steps
  <2>3. CASE /\ PairUrgent(k) /\ UNCHANGED mu
             /\ \E step \in {"receive", "clear"} : Goto(k, step)
    <3>1. At' \in {"receive", "clear"} /\ ~ClientResets
      BY <2>1, <2>3, Moves, NoReset DEF Steps
    <3>2. CASE Send(Mark("interrupt"))
      <4>1. Mark("interrupt") \in ToServer
        BY PacketTypes
      <4>2. Mark("interrupt").type # "reset"
        BY DEF Mark
      <4> QED
        BY <2>1, <3>1, <3>2, <4>1, <4>2, WritesOne
    <3>3. CASE UNCHANGED <<c2s, alive>>
      BY <1>0, <2>1, <3>1, <3>3, WritesNone
    <3> QED
      BY <2>3, <3>2, <3>3 DEF PairUrgent
  <2> QED
    BY <1>15, <2>2, <2>3 DEF Stop
<1>16. CASE Clear(k)
  <2>1. pc[k] = "clear" /\ At' = "out" /\ Goto(k, "done") /\ UNCHANGED <<alive, c2s, s2c, peer, srv>>
    BY <1>16 DEF Clear, Return, At
  <2> QED
    BY <1>0, <2>1, WritesNone, NoReset DEF Steps
<1> QED
  BY <1>1, <1>2, <1>3, <1>4, <1>5, <1>6, <1>7, <1>8, <1>9, <1>10, <1>11, <1>12, <1>13, <1>14, <1>15, <1>16
     DEF CallStep

\* So is every step of a break.
LEMMA BreakStepKind ==
  ASSUME IInv, ResetInv, NEW b \in Breakers, BreakStep(b)
  PROVE  Writes
<1>1. At' = At /\ pc' = pc /\ UNCHANGED <<s2c, peer, srv>>
  BY Stays DEF BreakStep, SwapBreakSent, SendBreak, WatcherExits, clientVars, wireVars, serverVars
<1>2. ~ClientResets
  BY <1>1 DEF ClientResets
<1>3. CASE UNCHANGED <<c2s, alive>>
  BY <1>1, <1>2, <1>3, WritesNone DEF ResetInv, PeerAlive
<1>4. CASE Send(Mark("interrupt"))
  <2>1. Mark("interrupt") \in ToServer
    BY PacketTypes
  <2>2. Mark("interrupt").type # "reset"
    BY DEF Mark
  <2> QED
    BY <1>1, <1>2, <1>4, <2>1, <2>2, WritesOne
<1> QED
  BY <1>3, <1>4 DEF BreakStep, SwapBreakSent, SendBreak, WatcherExits, clientVars, wireVars

\* The indices of a stream behind its first packet.
LEMMA Shifted ==
  ASSUME NEW S, NEW s \in Seq(S), s # <<>>
  PROVE  /\ 1 \in DOMAIN s /\ Head(s) = s[1] /\ DOMAIN s = 1 .. Len(s) /\ Len(s) \in Nat \ {0}
         /\ DOMAIN Tail(s) = 1 .. Len(s) - 1
         /\ \A i \in DOMAIN Tail(s) : Tail(s)[i] = s[i + 1] /\ i + 1 \in DOMAIN s
         /\ \A i \in DOMAIN s : i # 1 => i - 1 \in DOMAIN Tail(s) /\ Tail(s)[i - 1] = s[i]
BY Tailed

\* A write disturbs neither a response nor the server.
LEMMA BreakWrites ==
  ASSUME IInv, ResetInv, BreakInv, Writes
  PROVE  BreakInv'
<1>1. /\ UNCHANGED <<s2c, peer, srv>> /\ (peer => alive') /\ (alive' => alive)
      /\ alive' /\ At' \in {"break", "reset"} => At \in {"break", "reset"}
  BY DEF Writes
<1>2. peer /\ Has(c2s', {"reset"}) => Has(c2s, {"reset"}) \/ At = "reset"
  <2>1. CASE c2s' = c2s
    BY <2>1
  <2>2. CASE \E p \in ToServer : p.type # "reset" /\ c2s' = Append(c2s, p)
    BY <2>2, Appended DEF IInv, TypeOK, Has
  <2> QED
    BY <2>1, <2>2 DEF Writes
<1>3. Resetting'
  BY <1>1, <1>2 DEF BreakInv, Resetting
<1>4. Drained' /\ BreaksLast'
  BY <1>1 DEF BreakInv, Drained, BreaksLast, Has
<1> QED
  BY <1>3, <1>4 DEF BreakInv

\* A break marker that is read has the server discarding and nothing of the
\* response behind it.
LEMMA BreakReads ==
  ASSUME IInv, ResetInv, BreakInv, Reads
  PROVE  BreakInv'
<1>1. /\ UNCHANGED <<c2s, peer, srv>> /\ alive /\ s2c # <<>> /\ s2c' = Tail(s2c)
      /\ At' \in {"break", "reset"} => At # "drain" /\ Head(s2c).type = "break"
  BY DEF Reads
<1>2. /\ 1 \in DOMAIN s2c /\ Head(s2c) = s2c[1] /\ DOMAIN s2c = 1 .. Len(s2c) /\ Len(s2c) \in Nat \ {0}
      /\ DOMAIN s2c' = 1 .. Len(s2c) - 1
      /\ \A i \in DOMAIN s2c' : s2c'[i] = s2c[i + 1] /\ i + 1 \in DOMAIN s2c
      /\ \A i \in DOMAIN s2c : i # 1 => i - 1 \in DOMAIN s2c' /\ s2c'[i - 1] = s2c[i]
  BY <1>1, Shifted DEF IInv, TypeOK
<1>3. At' \in {"break", "reset"} => \A i \in DOMAIN s2c : s2c[i].type # "reset"
  BY <1>1 DEF ResetInv, AcksFollow
<1>4. Resetting'
  <2>1. peer /\ At' \in {"break", "reset"} => srv = "resetting"
    BY <1>1, <1>2, <1>3 DEF ResetInv, BreaksPend
  <2> QED
    BY <1>1, <2>1 DEF BreakInv, Resetting
<1>5. Drained'
  <2> SUFFICES ASSUME At' \in {"break", "reset"}, NEW i \in DOMAIN s2c', s2c'[i].type \in Data PROVE FALSE
    BY DEF Drained, Has
  <2>1. i + 1 \in DOMAIN s2c /\ 1 < i + 1 /\ s2c[i + 1].type \in Data /\ s2c[1].type = "break"
    BY <1>1, <1>2
  <2> QED
    BY <1>1, <1>2, <1>3, <2>1 DEF BreakInv, BreaksLast
<1>6. BreaksLast'
  <2> SUFFICES ASSUME NEW i \in DOMAIN s2c', NEW j \in DOMAIN s2c',
                      s2c'[i].type = "break", s2c'[j].type \in Data, i < j
               PROVE  \E m \in DOMAIN s2c' : i < m /\ m < j /\ s2c'[m].type = "reset"
    BY DEF BreaksLast
  <2>1. PICK m \in DOMAIN s2c : i + 1 < m /\ m < j + 1 /\ s2c[m].type = "reset"
    BY <1>1, <1>2 DEF BreakInv, BreaksLast
  <2>2. m - 1 \in DOMAIN s2c' /\ s2c'[m - 1] = s2c[m] /\ i < m - 1 /\ m - 1 < j
    BY <1>2, <2>1
  <2> QED
    BY <2>1, <2>2
<1> QED
  BY <1>4, <1>5, <1>6 DEF BreakInv

\* The steps of the server that send nothing and see no reset marker.
LEMMA BreakTakes ==
  ASSUME IInv, BreakInv, UNCHANGED <<mu, pc, alive, s2c>>,
         c2s' = c2s \/ (c2s # <<>> /\ c2s' = Tail(c2s)),
         peer, srv' = "resetting" \/ srv # "resetting"
  PROVE  BreakInv'
<1>1. Has(c2s', {"reset"}) => Has(c2s, {"reset"})
  <2>1. CASE c2s' = c2s
    BY <2>1
  <2>2. CASE c2s # <<>> /\ c2s' = Tail(c2s)
    <3>1. \A i \in DOMAIN c2s' : c2s'[i] = c2s[i + 1] /\ i + 1 \in DOMAIN c2s
      BY <2>2, Shifted DEF IInv, TypeOK
    <3> QED
      BY <3>1 DEF Has
  <2> QED
    BY <2>1, <2>2
<1>2. At' = At
  BY Stays
<1> QED
  BY <1>1, <1>2 DEF BreakInv, Resetting, Drained, BreaksLast

\* The server's break marker follows all it has sent.
LEMMA BreakAnswered ==
  ASSUME IInv, BreakInv, UNCHANGED <<mu, pc, alive>>, s2c' = Append(s2c, Ack("break")), srv' = "resetting"
  PROVE  BreakInv'
<1>1. At' = At
  BY Stays
<1>2. s2c \in Seq(ToClient) /\ Ack("break") \in ToClient /\ Ack("break").type = "break"
  <2>1. Ack("break") \in ToClient
    BY PacketTypes
  <2> QED
    BY <2>1 DEF IInv, TypeOK, Ack
<1>3. /\ DOMAIN s2c = 1 .. Len(s2c) /\ Len(s2c) \in Nat
      /\ DOMAIN s2c' = 1 .. Len(s2c) + 1
      /\ \A i \in DOMAIN s2c : s2c'[i] = s2c[i]
      /\ s2c'[Len(s2c) + 1].type = "break"
  BY <1>2, Appended
<1>4. Resetting' /\ Drained'
  BY <1>1, <1>3 DEF BreakInv, Resetting, Drained, Has
<1>5. BreaksLast'
  BY <1>3 DEF BreakInv, BreaksLast
<1> QED
  BY <1>4, <1>5 DEF BreakInv

\* A server that replies has broken nothing off.
LEMMA BreakReplies ==
  ASSUME IInv, ResetInv, BreakInv, ServerReplies
  PROVE  BreakInv'
<1>1. /\ peer /\ srv = "replying" /\ UNCHANGED <<mu, pc, alive, c2s>>
      /\ s2c' = Append(s2c, [type |-> reply, from |-> req, last |-> left = 1])
  BY DEF ServerReplies, clientVars
<1>2. At' = At
  BY <1>1, Stays
<1>3. s2c \in Seq(ToClient) /\ reply \in Reply /\ [type |-> reply, from |-> req, last |-> left = 1] \in ToClient
  BY DEF IInv, TypeOK, ToClient
<1>4. /\ DOMAIN s2c = 1 .. Len(s2c) /\ Len(s2c) \in Nat
      /\ DOMAIN s2c' = 1 .. Len(s2c) + 1
      /\ \A i \in DOMAIN s2c : s2c'[i] = s2c[i]
      /\ s2c'[Len(s2c) + 1].type = reply
  BY <1>1, <1>3, Appended
<1>5. At \notin {"break", "reset"} /\ ~Has(c2s, {"reset"})
  BY <1>1 DEF BreakInv, Resetting
<1>6. Resetting' /\ Drained'
  BY <1>1, <1>2, <1>5 DEF Resetting, Drained
<1>7. BreaksLast'
  <2> SUFFICES ASSUME alive', NEW i \in DOMAIN s2c', NEW j \in DOMAIN s2c',
                      s2c'[i].type = "break", s2c'[j].type \in Data, i < j
               PROVE  \E m \in DOMAIN s2c' : i < m /\ m < j /\ s2c'[m].type = "reset"
    BY DEF BreaksLast
  <2>1. i \in DOMAIN s2c /\ s2c[i].type = "break"
    BY <1>4
  <2>2. CASE j \in DOMAIN s2c
    <3>1. PICK m \in DOMAIN s2c : i < m /\ m < j /\ s2c[m].type = "reset"
      BY <1>1, <1>4, <2>1, <2>2 DEF BreakInv, BreaksLast
    <3> QED
      BY <1>4, <3>1
  <2>3. CASE j = Len(s2c) + 1
    <3>1. PICK m \in DOMAIN s2c : i < m /\ s2c[m].type = "reset"
      BY <1>1, <2>1 DEF ResetInv, BreaksPend
    <3> QED
      BY <1>4, <2>3, <3>1
  <2> QED
    BY <1>4, <2>2, <2>3
<1> QED
  BY <1>6, <1>7 DEF BreakInv

\* The server's reset marker comes before its error response.
LEMMA BreakResets ==
  ASSUME IInv, ResetInv, BreakInv, ServerResets
  PROVE  BreakInv'
<1>1. /\ peer /\ c2s # <<>> /\ Head(c2s).type = "reset" /\ c2s' = Tail(c2s)
      /\ s2c' = s2c \o <<Ack("reset"), [type |-> "cancelled", from |-> req, last |-> TRUE]>>
      /\ UNCHANGED <<mu, pc, alive, peer>>
  BY DEF ServerResets, Arrived, clientVars
<1>2. At' = At
  BY <1>1, Stays
<1>3. /\ DOMAIN s2c = 1 .. Len(s2c) /\ Len(s2c) \in Nat
      /\ DOMAIN s2c' = 1 .. Len(s2c) + 2
      /\ \A i \in DOMAIN s2c : s2c'[i] = s2c[i]
      /\ s2c'[Len(s2c) + 1].type = "reset" /\ s2c'[Len(s2c) + 2].type = "cancelled"
  <2> DEFINE p == Ack("reset")
             q == [type |-> "cancelled", from |-> req, last |-> TRUE]
  <2>1. s2c \in Seq(ToClient) /\ q \in ToClient
    BY DEF IInv, TypeOK, ToClient
  <2>2. p \in ToClient
    BY PacketTypes
  <2>3. p.type = "reset" /\ q.type = "cancelled"
    BY DEF Ack
  <2>4. s2c' = s2c \o <<p, q>>
    BY <1>1
  <2> HIDE DEF p, q
  <2> QED
    BY <2>1, <2>2, <2>3, <2>4, AppendedTwice
<1>4. /\ 1 \in DOMAIN c2s /\ c2s[1].type = "reset"
      /\ \A i \in DOMAIN c2s' : c2s'[i] = c2s[i + 1] /\ i + 1 \in DOMAIN c2s /\ i + 1 # 1
  BY <1>1, Shifted DEF IInv, TypeOK
<1>5. At = "drain" /\ \A j \in DOMAIN c2s : c2s[j].type = "reset" => j = 1
  BY <1>1, <1>4 DEF ResetInv, ResetsFollow
<1>6. ~Has(c2s', {"reset"})
  BY <1>4, <1>5 DEF Has
<1>7. Resetting' /\ Drained'
  BY <1>2, <1>5, <1>6 DEF Resetting, Drained
<1>8. BreaksLast'
  <2> SUFFICES ASSUME alive', NEW i \in DOMAIN s2c', NEW j \in DOMAIN s2c',
                      s2c'[i].type = "break", s2c'[j].type \in Data, i < j
               PROVE  \E m \in DOMAIN s2c' : i < m /\ m < j /\ s2c'[m].type = "reset"
    BY DEF BreaksLast
  <2>1. i \in DOMAIN s2c /\ s2c[i].type = "break"
    BY <1>3
  <2>2. CASE j \in DOMAIN s2c
    <3>1. PICK m \in DOMAIN s2c : i < m /\ m < j /\ s2c[m].type = "reset"
      BY <1>1, <1>3, <2>1, <2>2 DEF BreakInv, BreaksLast
    <3> QED
      BY <1>3, <3>1
  <2>3. CASE j = Len(s2c) + 2
    BY <1>3, <2>1, <2>3
  <2> QED
    BY <1>3, <2>2, <2>3
<1> QED
  BY <1>7, <1>8 DEF BreakInv

\* Every step of the server.
LEMMA ServerStepBreak ==
  ASSUME IInv, ResetInv, BreakInv, ServerStep
  PROVE  BreakInv'
<1> USE DEF clientVars, breakVars, wireVars, serverVars, history
<1>1. CASE ServerReceives
  BY <1>1, BreakTakes DEF ServerReceives, Arrived
<1>2. CASE ServerExecutes
  BY <1>2, BreakTakes DEF ServerExecutes
<1>3. CASE ServerReplies
  BY <1>3, BreakReplies
<1>4. CASE ServerBreaks
  BY <1>4, BreakAnswered DEF ServerBreaks
<1>5. CASE ServerIdleMarker
  <2>1. CASE owed /\ Head(c2s).type = "interrupt"
    BY <1>5, <2>1, BreakTakes DEF ServerIdleMarker, Arrived
  <2>2. CASE ~(owed /\ Head(c2s).type = "interrupt")
    BY <1>5, <2>2, BreakAnswered DEF ServerIdleMarker
  <2> QED
    BY <2>1, <2>2
<1>6. CASE ServerDiscards
  BY <1>6, BreakTakes DEF ServerDiscards, Arrived
<1>7. CASE ServerResets
  BY <1>7, BreakResets
<1> QED
  BY <1>1, <1>2, <1>3, <1>4, <1>5, <1>6, <1>7 DEF ServerStep

LEMMA InitBreak == Init => BreakInv
BY DEF Init, BreakInv, Resetting, Drained, BreaksLast, Has, At

\* Every step of the session.
LEMMA NextBreak == Abortable = {} => (IInv /\ ResetInv /\ BreakInv /\ [Next]_vars => BreakInv')
<1> SUFFICES ASSUME Abortable = {}, IInv, ResetInv, BreakInv, [Next]_vars PROVE BreakInv'
  OBVIOUS
<1>1. CASE \E k \in Calls : CallStep(k)
  BY <1>1, CallStepKind, BreakWrites, BreakReads
<1>2. CASE (\E k \in Calls : CancelCtx(k)) \/ UNCHANGED vars
  <2>1. UNCHANGED <<mu, pc, alive, c2s, s2c, peer, srv>>
    BY <1>2 DEF CancelCtx, vars, clientVars, wireVars, serverVars
  <2> QED
    BY <2>1, Stays DEF BreakInv, Resetting, Drained, BreaksLast
<1>3. CASE \E b \in Breakers : BreakStep(b)
  BY <1>3, BreakStepKind, BreakWrites
<1>4. CASE ServerStep
  BY <1>4, ServerStepBreak
<1>5. CASE Lose
  <2>1. ~peer' /\ (s2c' = s2c \/ s2c' = <<>>) /\ UNCHANGED <<mu, pc, alive>>
    BY <1>5 DEF Lose, clientVars
  <2> QED
    BY <2>1, Stays DEF BreakInv, Resetting, Drained, BreaksLast, Has
<1> QED
  BY <1>1, <1>2, <1>3, <1>4, <1>5 DEF Next, Finished

---------------------------------------------------------------------------
(* The keystreams: the two ends are one epoch apart exactly while a reset  *)
(* marker is under way to the server.                                      *)

StampTypes ==
  /\ clientEpoch \in Nat /\ serverEpoch \in Nat
  /\ c2sStamps \in Seq(Nat) /\ Len(c2sStamps) = Len(c2s)
  /\ s2cStamps \in Seq(Nat) /\ Len(s2cStamps) = Len(s2c)

Epochs == peer => clientEpoch = IF Has(c2s, {"reset"}) THEN serverEpoch + 1 ELSE serverEpoch

\* A packet for the server was wrapped in the epoch the server is in when it
\* gets there: the client's own, behind a reset marker.
Written ==
  peer => \A i \in DOMAIN c2s :
    c2sStamps[i] = IF \E j \in DOMAIN c2s : j < i /\ c2s[j].type = "reset" THEN clientEpoch ELSE serverEpoch

\* All of a response under way was wrapped in the epoch the client is in.
Answered == alive => \A i \in DOMAIN s2c : s2c[i].type \in Data => s2cStamps[i] = clientEpoch

StampInv == StampTypes /\ Epochs /\ Written /\ Answered

\* The stamps of a stream that stays as it is,
LEMMA StampedSame ==
  ASSUME NEW S, NEW packets \in Seq(S), NEW stamps \in Seq(Nat), Len(stamps) = Len(packets), NEW epoch
  PROVE  Stamped(stamps, packets, packets, epoch) = stamps
<1>1. Len(packets) \in Nat
  BY LenProperties
<1>2. [i \in 1 .. Len(packets) - Len(packets) |-> epoch] = << >>
  BY <1>1
<1> QED
  BY <1>1, <1>2, ConcatEmptySeq DEF Stamped

\* of one that loses its first packet,
LEMMA StampedTaken ==
  ASSUME NEW S, NEW packets \in Seq(S), packets # <<>>,
         NEW stamps \in Seq(Nat), Len(stamps) = Len(packets), NEW epoch,
         NEW next, next = Stamped(stamps, packets, Tail(packets), epoch)
  PROVE  /\ next \in Seq(Nat) /\ Len(next) = Len(packets) - 1
         /\ \A i \in 1 .. Len(packets) - 1 : next[i] = stamps[i + 1]
<1>1. Len(packets) \in Nat \ {0} /\ Len(Tail(packets)) = Len(packets) - 1
  BY HeadTailProperties, LenProperties, EmptySeq
<1>2. Stamped(stamps, packets, Tail(packets), epoch) = SubSeq(stamps, 2, Len(stamps))
  BY <1>1 DEF Stamped
<1>3. stamps # <<>>
  BY <1>1
<1>4. Stamped(stamps, packets, Tail(packets), epoch) = Tail(stamps)
  BY <1>2, <1>3, TailIsSubSeq
<1> QED
  BY <1>1, <1>3, <1>4, HeadTailProperties

\* of one that gains a packet or two,
LEMMA StampedAdded ==
  ASSUME NEW S, NEW packets \in Seq(S), NEW p \in S, NEW stamps, NEW epoch
  PROVE  Stamped(stamps, packets, Append(packets, p), epoch) = Append(stamps, epoch)
<1>1. Len(packets) \in Nat /\ Len(Append(packets, p)) = Len(packets) + 1
  BY LenProperties, AppendProperties
<1>2. [i \in 1 .. Len(Append(packets, p)) - Len(packets) |-> epoch] = <<epoch>>
  BY <1>1
<1> QED
  BY <1>1, <1>2 DEF Stamped

LEMMA StampedTwice ==
  ASSUME NEW S, NEW packets \in Seq(S), NEW p \in S, NEW q \in S, NEW stamps, NEW epoch
  PROVE  Stamped(stamps, packets, packets \o <<p, q>>, epoch) = Append(Append(stamps, epoch), epoch)
<1>1. Len(packets) \in Nat /\ Len(packets \o <<p, q>>) = Len(packets) + 2
  <2>1. <<p, q>> \in Seq(S) /\ Len(<<p, q>>) = 2
    OBVIOUS
  <2> QED
    BY <2>1, LenProperties, ConcatProperties
<1>2. [i \in 1 .. Len(packets \o <<p, q>>) - Len(packets) |-> epoch] = <<epoch, epoch>>
  BY <1>1
<1>3. stamps \o <<epoch, epoch>> = Append(Append(stamps, epoch), epoch)
  OBVIOUS
<1> QED
  BY <1>1, <1>2, <1>3 DEF Stamped

\* A sequence of numbers with two more.
LEMMA AddedTwice ==
  ASSUME NEW stamps \in Seq(Nat), NEW epoch \in Nat, NEW n, Len(stamps) = n,
         NEW next, next = Append(Append(stamps, epoch), epoch)
  PROVE  /\ next \in Seq(Nat) /\ Len(next) = n + 2
         /\ \A i \in 1 .. n : next[i] = stamps[i]
         /\ \A i \in n + 1 .. n + 2 : next[i] = epoch
<1>1. n \in Nat
  BY LenProperties
<1> DEFINE t == Append(stamps, epoch)
<1>2. /\ t \in Seq(Nat) /\ Len(t) = n + 1 /\ t[n + 1] = epoch
      /\ \A i \in 1 .. n : t[i] = stamps[i]
  BY <1>1, AppendProperties
<1>3. next = Append(t, epoch)
  OBVIOUS
<1> HIDE DEF t
<1>4. /\ next \in Seq(Nat) /\ Len(next) = n + 2 /\ next[n + 2] = epoch
      /\ \A i \in 1 .. n + 1 : next[i] = t[i]
  BY <1>1, <1>2, <1>3, AppendProperties
<1>5. \A i \in 1 .. n : next[i] = stamps[i]
  BY <1>1, <1>2, <1>4
<1>6. \A i \in n + 1 .. n + 2 : next[i] = epoch
  <2> SUFFICES ASSUME NEW i \in n + 1 .. n + 2 PROVE next[i] = epoch
    OBVIOUS
  <2>1. (i = n + 1 \/ i = n + 2) /\ n + 1 \in 1 .. n + 1
    BY <1>1
  <2> QED
    BY <1>2, <1>4, <2>1
<1> QED
  BY <1>4, <1>5, <1>6

\* The stamps of a stream that is lost.
LEMMA StampedLost ==
  ASSUME NEW S, NEW packets \in Seq(S),
         NEW stamps \in Seq(Nat), Len(stamps) = Len(packets), NEW epoch
  PROVE  Stamped(stamps, packets, <<>>, epoch) = <<>>
<1>1. Len(packets) \in Nat /\ Len(<<>>) = 0
  BY LenProperties
<1>2. CASE Len(packets) = 0
  <2>1. stamps = <<>> /\ packets = <<>>
    BY <1>2, EmptySeq
  <2> QED
    BY <2>1, StampedSame
<1>3. CASE Len(packets) # 0
  <2>1. Stamped(stamps, packets, <<>>, epoch) = SubSeq(stamps, Len(packets) + 1, Len(packets))
    BY <1>1, <1>3 DEF Stamped
  <2> QED
    BY <1>1, <2>1, SubSeqEmpty
<1> QED
  BY <1>2, <1>3

\* The stamps of the two directions, step by step.
LEMMA ToServerStamps ==
  ASSUME IInv, StampTypes, Stamps
  PROVE  /\ c2s' = c2s => c2sStamps' = c2sStamps
         /\ c2s # <<>> /\ c2s' = Tail(c2s) =>
              /\ c2sStamps' \in Seq(Nat) /\ Len(c2sStamps') = Len(c2s) - 1
              /\ \A i \in 1 .. Len(c2s) - 1 : c2sStamps'[i] = c2sStamps[i + 1]
         /\ \A p \in ToServer : c2s' = Append(c2s, p) =>
              /\ c2sStamps' \in Seq(Nat) /\ Len(c2sStamps') = Len(c2s) + 1
              /\ \A i \in 1 .. Len(c2s) : c2sStamps'[i] = c2sStamps[i]
              /\ c2sStamps'[Len(c2s) + 1] = clientEpoch
         /\ c2s' = <<>> => c2sStamps' = <<>>
<1>1. c2s \in Seq(ToServer) /\ c2sStamps \in Seq(Nat) /\ Len(c2sStamps) = Len(c2s) /\ clientEpoch \in Nat
  BY DEF IInv, TypeOK, StampTypes
<1>2. c2sStamps' = Stamped(c2sStamps, c2s, c2s', clientEpoch)
  BY DEF Stamps
<1>3. c2s' = c2s => c2sStamps' = c2sStamps
  BY <1>1, <1>2, StampedSame
<1>4. c2s # <<>> /\ c2s' = Tail(c2s) =>
        /\ c2sStamps' \in Seq(Nat) /\ Len(c2sStamps') = Len(c2s) - 1
        /\ \A i \in 1 .. Len(c2s) - 1 : c2sStamps'[i] = c2sStamps[i + 1]
  BY <1>1, <1>2, StampedTaken
<1>5. \A p \in ToServer : c2s' = Append(c2s, p) =>
        /\ c2sStamps' \in Seq(Nat) /\ Len(c2sStamps') = Len(c2s) + 1
        /\ \A i \in 1 .. Len(c2s) : c2sStamps'[i] = c2sStamps[i]
        /\ c2sStamps'[Len(c2s) + 1] = clientEpoch
  <2> SUFFICES ASSUME NEW p \in ToServer, c2s' = Append(c2s, p)
               PROVE  /\ c2sStamps' \in Seq(Nat) /\ Len(c2sStamps') = Len(c2s) + 1
                      /\ \A i \in 1 .. Len(c2s) : c2sStamps'[i] = c2sStamps[i]
                      /\ c2sStamps'[Len(c2s) + 1] = clientEpoch
    OBVIOUS
  <2>1. c2sStamps' = Append(c2sStamps, clientEpoch)
    BY <1>1, <1>2, StampedAdded
  <2> QED
    BY <1>1, <2>1, AppendProperties
<1>6. c2s' = <<>> => c2sStamps' = <<>>
  BY <1>1, <1>2, StampedLost
<1> QED
  BY <1>3, <1>4, <1>5, <1>6

LEMMA ToClientStamps ==
  ASSUME IInv, StampTypes, Stamps, serverEpoch' \in Nat
  PROVE  /\ s2c' = s2c => s2cStamps' = s2cStamps
         /\ s2c # <<>> /\ s2c' = Tail(s2c) =>
              /\ s2cStamps' \in Seq(Nat) /\ Len(s2cStamps') = Len(s2c) - 1
              /\ \A i \in 1 .. Len(s2c) - 1 : s2cStamps'[i] = s2cStamps[i + 1]
         /\ \A p \in ToClient : s2c' = Append(s2c, p) =>
              /\ s2cStamps' \in Seq(Nat) /\ Len(s2cStamps') = Len(s2c) + 1
              /\ \A i \in 1 .. Len(s2c) : s2cStamps'[i] = s2cStamps[i]
              /\ s2cStamps'[Len(s2c) + 1] = serverEpoch'
         /\ \A p, q \in ToClient : s2c' = s2c \o <<p, q>> =>
              /\ s2cStamps' \in Seq(Nat) /\ Len(s2cStamps') = Len(s2c) + 2
              /\ \A i \in 1 .. Len(s2c) : s2cStamps'[i] = s2cStamps[i]
              /\ \A i \in Len(s2c) + 1 .. Len(s2c) + 2 : s2cStamps'[i] = serverEpoch'
         /\ s2c' = <<>> => s2cStamps' = <<>>
<1>1. s2c \in Seq(ToClient) /\ s2cStamps \in Seq(Nat) /\ Len(s2cStamps) = Len(s2c)
  BY DEF IInv, TypeOK, StampTypes
<1>2. s2cStamps' = Stamped(s2cStamps, s2c, s2c', serverEpoch')
  BY DEF Stamps
<1>3. s2c' = s2c => s2cStamps' = s2cStamps
  BY <1>1, <1>2, StampedSame
<1>4. s2c # <<>> /\ s2c' = Tail(s2c) =>
        /\ s2cStamps' \in Seq(Nat) /\ Len(s2cStamps') = Len(s2c) - 1
        /\ \A i \in 1 .. Len(s2c) - 1 : s2cStamps'[i] = s2cStamps[i + 1]
  BY <1>1, <1>2, StampedTaken
<1>5. \A p \in ToClient : s2c' = Append(s2c, p) =>
        /\ s2cStamps' \in Seq(Nat) /\ Len(s2cStamps') = Len(s2c) + 1
        /\ \A i \in 1 .. Len(s2c) : s2cStamps'[i] = s2cStamps[i]
        /\ s2cStamps'[Len(s2c) + 1] = serverEpoch'
  <2> SUFFICES ASSUME NEW p \in ToClient, s2c' = Append(s2c, p)
               PROVE  /\ s2cStamps' \in Seq(Nat) /\ Len(s2cStamps') = Len(s2c) + 1
                      /\ \A i \in 1 .. Len(s2c) : s2cStamps'[i] = s2cStamps[i]
                      /\ s2cStamps'[Len(s2c) + 1] = serverEpoch'
    OBVIOUS
  <2>1. s2cStamps' = Append(s2cStamps, serverEpoch')
    BY <1>1, <1>2, StampedAdded
  <2> QED
    BY <1>1, <2>1, AppendProperties
<1>6. \A p, q \in ToClient : s2c' = s2c \o <<p, q>> =>
        /\ s2cStamps' \in Seq(Nat) /\ Len(s2cStamps') = Len(s2c) + 2
        /\ \A i \in 1 .. Len(s2c) : s2cStamps'[i] = s2cStamps[i]
        /\ \A i \in Len(s2c) + 1 .. Len(s2c) + 2 : s2cStamps'[i] = serverEpoch'
  <2> SUFFICES ASSUME NEW p \in ToClient, NEW q \in ToClient, s2c' = s2c \o <<p, q>>
               PROVE  /\ s2cStamps' \in Seq(Nat) /\ Len(s2cStamps') = Len(s2c) + 2
                      /\ \A i \in 1 .. Len(s2c) : s2cStamps'[i] = s2cStamps[i]
                      /\ \A i \in Len(s2c) + 1 .. Len(s2c) + 2 : s2cStamps'[i] = serverEpoch'
    OBVIOUS
  <2>1. s2cStamps' = Append(Append(s2cStamps, serverEpoch'), serverEpoch')
    BY <1>1, <1>2, StampedTwice
  <2> QED
    BY <1>1, <2>1, AddedTwice
<1>7. s2c' = <<>> => s2cStamps' = <<>>
  BY <1>1, <1>2, StampedLost
<1> QED
  BY <1>3, <1>4, <1>5, <1>6, <1>7

\* A write is wrapped in the epoch the client is in before it resets, and it
\* resets when nothing of a response is left to unwrap.
LEMMA StampWrites ==
  ASSUME IInv, ResetInv, BreakInv, StampInv, Writes, ClientEpoch, ServerEpoch, Stamps
  PROVE  StampInv'
<1>1. UNCHANGED <<s2c, peer, srv>> /\ (peer => alive') /\ (alive' => alive)
  BY DEF Writes
<1>2. serverEpoch' = serverEpoch /\ StampTypes
  BY <1>1 DEF ServerEpoch, StampInv
<1>3. serverEpoch \in Nat /\ clientEpoch \in Nat /\ s2cStamps \in Seq(Nat) /\ Len(s2cStamps) = Len(s2c)
      /\ c2sStamps \in Seq(Nat) /\ Len(c2sStamps) = Len(c2s)
  BY <1>2 DEF StampTypes
<1>4. s2cStamps' = s2cStamps
  BY <1>1, <1>2, <1>3, ToClientStamps
<1>5. CASE ~ClientResets /\ c2s' = c2s
  <2>1. clientEpoch' = clientEpoch /\ c2sStamps' = c2sStamps
    BY <1>2, <1>5, ToServerStamps DEF ClientEpoch
  <2> QED
    BY <1>1, <1>2, <1>4, <1>5, <2>1 DEF StampInv, StampTypes, Epochs, Written, Answered, Has
<1> DEFINE Adds(p) ==
      /\ c2s' = Append(c2s, p)
      /\ DOMAIN c2s = 1 .. Len(c2s) /\ Len(c2s) \in Nat
      /\ DOMAIN c2s' = 1 .. Len(c2s) + 1 /\ Len(c2s') = Len(c2s) + 1
      /\ \A i \in DOMAIN c2s : c2s'[i] = c2s[i]
      /\ c2s'[Len(c2s) + 1] = p
      /\ c2sStamps' \in Seq(Nat) /\ Len(c2sStamps') = Len(c2s) + 1
      /\ \A i \in DOMAIN c2s : c2sStamps'[i] = c2sStamps[i]
      /\ c2sStamps'[Len(c2s) + 1] = clientEpoch
<1>6. ASSUME NEW p \in ToServer, c2s' = Append(c2s, p) PROVE Adds(p)
  <2>1. c2s \in Seq(ToServer)
    BY DEF IInv, TypeOK
  <2>2. /\ DOMAIN c2s = 1 .. Len(c2s) /\ Len(c2s) \in Nat
        /\ DOMAIN c2s' = 1 .. Len(c2s) + 1 /\ Len(c2s') = Len(c2s) + 1
        /\ \A i \in DOMAIN c2s : c2s'[i] = c2s[i]
        /\ c2s'[Len(c2s) + 1] = p
    BY <1>6, <2>1, AppendProperties
  <2>3. /\ c2sStamps' \in Seq(Nat) /\ Len(c2sStamps') = Len(c2s) + 1
        /\ \A i \in 1 .. Len(c2s) : c2sStamps'[i] = c2sStamps[i]
        /\ c2sStamps'[Len(c2s) + 1] = clientEpoch
    BY <1>2, <1>6, ToServerStamps
  <2> QED
    BY <1>6, <2>2, <2>3
<1>7. CASE ~ClientResets /\ peer /\ \E p \in ToServer : p.type # "reset" /\ c2s' = Append(c2s, p)
  <2>1. PICK p \in ToServer : p.type # "reset" /\ c2s' = Append(c2s, p)
    BY <1>7
  <2>2. Adds(p)
    BY <1>6, <2>1
  <2> HIDE DEF Adds
  <2>3. clientEpoch' = clientEpoch /\ peer'
    BY <1>1, <1>7 DEF ClientEpoch
  <2>4. Has(c2s', {"reset"}) <=> Has(c2s, {"reset"})
    BY <2>1, <2>2 DEF Has, Adds
  <2>5. StampTypes' /\ Epochs' /\ Answered'
    BY <1>1, <1>2, <1>3, <1>4, <2>2, <2>3, <2>4 DEF StampInv, StampTypes, Epochs, Answered, Adds
  <2>6. Written'
    <3> SUFFICES ASSUME NEW i \in DOMAIN c2s'
                 PROVE  c2sStamps'[i] = IF \E j \in DOMAIN c2s' : j < i /\ c2s'[j].type = "reset"
                                        THEN clientEpoch' ELSE serverEpoch'
      BY DEF Written
    <3>1. CASE i \in DOMAIN c2s
      <4>1. (\E j \in DOMAIN c2s' : j < i /\ c2s'[j].type = "reset")
              <=> (\E j \in DOMAIN c2s : j < i /\ c2s[j].type = "reset")
        BY <2>2, <3>1 DEF Adds
      <4>2. c2sStamps[i] = IF \E j \in DOMAIN c2s : j < i /\ c2s[j].type = "reset" THEN clientEpoch ELSE serverEpoch
        BY <1>7, <3>1 DEF StampInv, Written
      <4>3. c2sStamps'[i] = c2sStamps[i]
        BY <2>2, <3>1 DEF Adds
      <4> QED
        BY <1>2, <2>3, <4>1, <4>2, <4>3
    <3>2. CASE i = Len(c2s) + 1
      <4>1. (\E j \in DOMAIN c2s' : j < i /\ c2s'[j].type = "reset") <=> Has(c2s, {"reset"})
        BY <2>2, <3>2 DEF Adds, Has
      <4>2. clientEpoch = IF Has(c2s, {"reset"}) THEN serverEpoch + 1 ELSE serverEpoch
        BY <1>7 DEF StampInv, Epochs
      <4>3. c2sStamps'[i] = clientEpoch
        BY <2>2, <3>2 DEF Adds
      <4> QED
        BY <1>2, <2>3, <4>1, <4>2, <4>3
    <3> QED
      BY <2>2, <3>1, <3>2 DEF Adds
  <2> QED
    BY <2>5, <2>6 DEF StampInv
<1>8. CASE /\ ClientResets /\ At = "reset"
           /\ c2s' = IF peer THEN Append(c2s, Mark("reset")) ELSE c2s
  <2>1. clientEpoch' = clientEpoch + 1
    BY <1>8 DEF ClientEpoch
  <2>2. Answered'
    BY <1>1, <1>8 DEF BreakInv, Drained, Answered, Has
  <2>3. CASE ~peer
    <3>1. c2sStamps' = c2sStamps /\ c2s' = c2s
      BY <1>2, <1>8, <2>3, ToServerStamps
    <3> QED
      BY <1>1, <1>2, <1>3, <1>4, <2>1, <2>2, <2>3, <3>1 DEF StampInv, StampTypes, Epochs, Written
  <2>4. CASE peer
    <3>1. Mark("reset") \in ToServer
      BY PacketTypes
    <3>2. Adds(Mark("reset"))
      BY <1>6, <1>8, <2>4, <3>1
    <3> HIDE DEF Adds
    <3>3. Mark("reset").type = "reset"
      BY DEF Mark
    <3>4. \A i \in DOMAIN c2s : c2s[i].type # "reset"
      BY <1>8, <2>4 DEF ResetInv, ResetsFollow
    <3>5. clientEpoch = serverEpoch
      BY <2>4, <3>4 DEF StampInv, Epochs, Has
    <3>6. StampTypes' /\ Epochs'
      <4>1. Has(c2s', {"reset"})
        BY <3>2, <3>3 DEF Adds, Has
      <4> QED
        BY <1>1, <1>2, <1>3, <1>4, <2>1, <3>2, <3>5, <4>1 DEF StampTypes, Epochs, Adds
    <3>7. Written'
      <4> SUFFICES ASSUME NEW i \in DOMAIN c2s'
                   PROVE  c2sStamps'[i] = IF \E j \in DOMAIN c2s' : j < i /\ c2s'[j].type = "reset"
                                          THEN clientEpoch' ELSE serverEpoch'
        BY DEF Written
      <4>1. ~\E j \in DOMAIN c2s' : j < i /\ c2s'[j].type = "reset"
        BY <3>2, <3>4 DEF Adds
      <4>2. c2sStamps'[i] = serverEpoch
        <5>1. CASE i \in DOMAIN c2s
          BY <2>4, <3>2, <3>4, <5>1 DEF StampInv, Written, Adds
        <5>2. CASE i = Len(c2s) + 1
          BY <3>2, <3>5, <5>2 DEF Adds
        <5> QED
          BY <3>2, <5>1, <5>2 DEF Adds
      <4> QED
        BY <1>2, <4>1, <4>2
    <3> QED
      BY <2>2, <3>6, <3>7 DEF StampInv
  <2> QED
    BY <2>3, <2>4
<1> QED
  BY <1>5, <1>7, <1>8 DEF Writes

\* A read takes a packet and its stamp.
LEMMA StampReads ==
  ASSUME IInv, StampInv, Reads, ClientEpoch, ServerEpoch, Stamps
  PROVE  StampInv'
<1>1. UNCHANGED <<c2s, peer, srv>> /\ ~ClientResets /\ alive /\ s2c # <<>> /\ s2c' = Tail(s2c)
  BY DEF Reads
<1>2. UNCHANGED <<clientEpoch, serverEpoch>> /\ StampTypes /\ serverEpoch \in Nat
  BY <1>1 DEF ClientEpoch, ServerEpoch, StampInv, StampTypes
<1>3. c2sStamps' = c2sStamps
  BY <1>1, <1>2, ToServerStamps
<1>4. /\ s2cStamps' \in Seq(Nat) /\ Len(s2cStamps') = Len(s2c) - 1
      /\ \A i \in 1 .. Len(s2c) - 1 : s2cStamps'[i] = s2cStamps[i + 1]
  BY <1>1, <1>2, ToClientStamps
<1>5. /\ DOMAIN s2c' = 1 .. Len(s2c) - 1 /\ Len(s2c') = Len(s2c) - 1
      /\ \A i \in DOMAIN s2c' : s2c'[i] = s2c[i + 1] /\ i + 1 \in DOMAIN s2c
  BY <1>1, Shifted, HeadTailProperties DEF IInv, TypeOK
<1>6. StampTypes'
  BY <1>1, <1>2, <1>3, <1>4, <1>5 DEF StampTypes
<1>7. Epochs' /\ Written'
  BY <1>1, <1>2, <1>3 DEF StampInv, Epochs, Written
<1>8. Answered'
  BY <1>1, <1>2, <1>4, <1>5 DEF StampInv, Answered
<1> QED
  BY <1>6, <1>7, <1>8 DEF StampInv

\* The server takes a packet other than a reset marker with its stamp.
LEMMA WrittenTaken ==
  ASSUME IInv, StampInv, Stamps, UNCHANGED <<clientEpoch, serverEpoch>>, peer, c2s # <<>>,
         c2s' = Tail(c2s), Head(c2s).type # "reset"
  PROVE  /\ c2sStamps' \in Seq(Nat) /\ Len(c2sStamps') = Len(c2s')
         /\ Epochs' /\ Written'
<1>1. StampTypes
  BY DEF StampInv
<1>2. /\ c2sStamps' \in Seq(Nat) /\ Len(c2sStamps') = Len(c2s) - 1
      /\ \A i \in 1 .. Len(c2s) - 1 : c2sStamps'[i] = c2sStamps[i + 1]
  BY <1>1, ToServerStamps
<1>3. Len(c2s') = Len(c2s) - 1
  BY HeadTailProperties DEF IInv, TypeOK
<1>4. /\ 1 \in DOMAIN c2s /\ Head(c2s) = c2s[1] /\ DOMAIN c2s = 1 .. Len(c2s) /\ Len(c2s) \in Nat \ {0}
      /\ DOMAIN c2s' = 1 .. Len(c2s) - 1
      /\ \A i \in DOMAIN c2s' : c2s'[i] = c2s[i + 1] /\ i + 1 \in DOMAIN c2s
      /\ \A i \in DOMAIN c2s : i # 1 => i - 1 \in DOMAIN c2s' /\ c2s'[i - 1] = c2s[i]
  BY Shifted DEF IInv, TypeOK
<1>5. Has(c2s', {"reset"}) <=> Has(c2s, {"reset"})
  BY <1>4 DEF Has
<1>6. Epochs'
  BY <1>5 DEF StampInv, Epochs
<1>7. Written'
  <2> SUFFICES ASSUME NEW i \in DOMAIN c2s'
               PROVE  c2sStamps'[i] = IF \E j \in DOMAIN c2s' : j < i /\ c2s'[j].type = "reset"
                                      THEN clientEpoch ELSE serverEpoch
    BY DEF Written
  <2>1. c2sStamps[i + 1] = IF \E j \in DOMAIN c2s : j < i + 1 /\ c2s[j].type = "reset"
                           THEN clientEpoch ELSE serverEpoch
    BY <1>4 DEF StampInv, Written
  <2>2. ASSUME NEW j \in DOMAIN c2s, j < i + 1, c2s[j].type = "reset"
        PROVE  \E m \in DOMAIN c2s' : m < i /\ c2s'[m].type = "reset"
    <3>1. j - 1 \in DOMAIN c2s' /\ c2s'[j - 1] = c2s[j] /\ j - 1 < i
      BY <1>4, <2>2
    <3> QED
      BY <2>2, <3>1
  <2>3. ASSUME NEW j \in DOMAIN c2s', j < i, c2s'[j].type = "reset"
        PROVE  \E m \in DOMAIN c2s : m < i + 1 /\ c2s[m].type = "reset"
    <3>1. j + 1 \in DOMAIN c2s /\ c2s[j + 1] = c2s'[j] /\ j + 1 < i + 1
      BY <1>4, <2>3
    <3> QED
      BY <2>3, <3>1
  <2>4. c2sStamps'[i] = c2sStamps[i + 1]
    BY <1>2, <1>4
  <2> QED
    BY <2>1, <2>2, <2>3, <2>4
<1> QED
  BY <1>2, <1>3, <1>6, <1>7

\* The steps of the server but its reset: what it sends of a response is
\* wrapped in the epoch of both ends.
LEMMA StampServer ==
  ASSUME IInv, BreakInv, StampInv, Stamps, UNCHANGED <<clientEpoch, serverEpoch, alive>>, peer,
         c2s' = c2s \/ (c2s # <<>> /\ c2s' = Tail(c2s) /\ Head(c2s).type # "reset"),
         s2c' = s2c \/ \E p \in ToClient : /\ s2c' = Append(s2c, p)
                                           /\ p.type \in Data => srv # "resetting"
  PROVE  StampInv'
<1>1. StampTypes /\ clientEpoch \in Nat /\ serverEpoch \in Nat /\ serverEpoch' \in Nat
  BY DEF StampInv, StampTypes
<1>2. c2sStamps' \in Seq(Nat) /\ Len(c2sStamps') = Len(c2s') /\ Epochs' /\ Written'
  <2>1. CASE c2s' = c2s
    <3>1. c2sStamps' = c2sStamps
      BY <1>1, <2>1, ToServerStamps
    <3> QED
      BY <1>1, <2>1, <3>1 DEF StampInv, StampTypes, Epochs, Written
  <2>2. CASE c2s # <<>> /\ c2s' = Tail(c2s) /\ Head(c2s).type # "reset"
    BY <2>2, WrittenTaken
  <2> QED
    BY <2>1, <2>2
<1>3. s2cStamps' \in Seq(Nat) /\ Len(s2cStamps') = Len(s2c') /\ Answered'
  <2>1. CASE s2c' = s2c
    <3>1. s2cStamps' = s2cStamps
      BY <1>1, <2>1, ToClientStamps
    <3> QED
      BY <1>1, <2>1, <3>1 DEF StampInv, StampTypes, Answered
  <2>2. CASE \E p \in ToClient : s2c' = Append(s2c, p) /\ (p.type \in Data => srv # "resetting")
    <3>1. PICK p \in ToClient : s2c' = Append(s2c, p) /\ (p.type \in Data => srv # "resetting")
      BY <2>2
    <3>2. /\ s2cStamps' \in Seq(Nat) /\ Len(s2cStamps') = Len(s2c) + 1
          /\ \A i \in 1 .. Len(s2c) : s2cStamps'[i] = s2cStamps[i]
          /\ s2cStamps'[Len(s2c) + 1] = serverEpoch
      BY <1>1, <3>1, ToClientStamps
    <3>3. s2c \in Seq(ToClient)
      BY DEF IInv, TypeOK
    <3>4. /\ DOMAIN s2c = 1 .. Len(s2c) /\ Len(s2c) \in Nat
          /\ DOMAIN s2c' = 1 .. Len(s2c) + 1 /\ Len(s2c') = Len(s2c) + 1
          /\ \A i \in DOMAIN s2c : s2c'[i] = s2c[i]
          /\ s2c'[Len(s2c) + 1] = p
      BY <3>1, <3>3, AppendProperties
    <3>5. p.type \in Data => clientEpoch = serverEpoch
      BY <3>1 DEF BreakInv, Resetting, StampInv, Epochs
    <3>6. Answered'
      BY <3>2, <3>4, <3>5 DEF StampInv, Answered
    <3> QED
      BY <3>2, <3>4, <3>6
  <2> QED
    BY <2>1, <2>2
<1> QED
  BY <1>1, <1>2, <1>3 DEF StampInv, StampTypes

\* The server restarts its keystream where the client has, and both ends are
\* in the same epoch again.
LEMMA StampResets ==
  ASSUME IInv, ResetInv, StampInv, ServerResets, ClientEpoch, ServerEpoch, Stamps
  PROVE  StampInv'
<1>1. /\ peer /\ srv = "resetting" /\ srv' = "idle" /\ c2s # <<>> /\ Head(c2s).type = "reset" /\ c2s' = Tail(c2s)
      /\ s2c' = s2c \o <<Ack("reset"), [type |-> "cancelled", from |-> req, last |-> TRUE]>>
      /\ UNCHANGED <<pc, alive, peer>>
  BY DEF ServerResets, Arrived, clientVars
<1>2. clientEpoch' = clientEpoch /\ serverEpoch' = serverEpoch + 1
  BY <1>1 DEF ClientEpoch, ServerEpoch, ClientResets
<1>3. StampTypes /\ clientEpoch \in Nat /\ serverEpoch \in Nat /\ serverEpoch' \in Nat
  BY <1>2 DEF StampInv, StampTypes
<1>4. /\ c2sStamps' \in Seq(Nat) /\ Len(c2sStamps') = Len(c2s) - 1
      /\ \A i \in 1 .. Len(c2s) - 1 : c2sStamps'[i] = c2sStamps[i + 1]
  BY <1>1, <1>3, ToServerStamps
<1>5. Len(c2s') = Len(c2s) - 1
  BY <1>1, HeadTailProperties DEF IInv, TypeOK
<1>6. /\ 1 \in DOMAIN c2s /\ c2s[1].type = "reset" /\ DOMAIN c2s = 1 .. Len(c2s) /\ Len(c2s) \in Nat \ {0}
      /\ DOMAIN c2s' = 1 .. Len(c2s) - 1
      /\ \A i \in DOMAIN c2s' : c2s'[i] = c2s[i + 1] /\ i + 1 \in DOMAIN c2s
  BY <1>1, Shifted DEF IInv, TypeOK
<1>7. \A i \in DOMAIN c2s' : c2s'[i].type # "reset"
  <2>1. \A j \in DOMAIN c2s : c2s[j].type = "reset" => j = 1
    BY <1>1, <1>6 DEF ResetInv, ResetsFollow
  <2> QED
    BY <1>6, <2>1
<1>8. clientEpoch = serverEpoch + 1
  BY <1>1, <1>6 DEF StampInv, Epochs, Has
<1>9. Epochs'
  BY <1>2, <1>7, <1>8 DEF Epochs, Has
<1>10. Written'
  <2> SUFFICES ASSUME NEW i \in DOMAIN c2s' PROVE c2sStamps'[i] = clientEpoch
    BY <1>2, <1>7, <1>8 DEF Written
  <2>1. i + 1 \in DOMAIN c2s /\ 1 < i + 1
    BY <1>6
  <2>2. c2sStamps[i + 1] = clientEpoch
    BY <1>1, <1>6, <2>1 DEF StampInv, Written
  <2> QED
    BY <1>4, <1>6, <2>2
<1>11. s2cStamps' \in Seq(Nat) /\ Len(s2cStamps') = Len(s2c') /\ Answered'
  <2> DEFINE p == Ack("reset")
             q == [type |-> "cancelled", from |-> req, last |-> TRUE]
  <2>1. s2c \in Seq(ToClient) /\ q \in ToClient
    BY DEF IInv, TypeOK, ToClient
  <2>2. p \in ToClient
    BY PacketTypes
  <2>3. p.type = "reset" /\ q.type = "cancelled"
    BY DEF Ack
  <2>4. s2c' = s2c \o <<p, q>>
    BY <1>1
  <2> HIDE DEF p, q
  <2>5. /\ s2c' \in Seq(ToClient) /\ DOMAIN s2c = 1 .. Len(s2c) /\ Len(s2c) \in Nat
        /\ DOMAIN s2c' = 1 .. Len(s2c) + 2
        /\ \A i \in DOMAIN s2c : s2c'[i] = s2c[i]
    BY <2>1, <2>2, <2>4, AppendedTwice
  <2>6. /\ s2cStamps' \in Seq(Nat) /\ Len(s2cStamps') = Len(s2c) + 2
        /\ \A i \in 1 .. Len(s2c) : s2cStamps'[i] = s2cStamps[i]
        /\ \A i \in Len(s2c) + 1 .. Len(s2c) + 2 : s2cStamps'[i] = serverEpoch'
    BY <1>3, <2>1, <2>2, <2>4, ToClientStamps
  <2>7. Len(s2c') = Len(s2c) + 2
    <3>1. Len(s2c') \in Nat /\ DOMAIN s2c' = 1 .. Len(s2c')
      BY <2>5, LenProperties
    <3> QED
      BY <2>5, <3>1
  <2>8. Answered'
    <3> SUFFICES ASSUME alive', NEW i \in DOMAIN s2c', s2c'[i].type \in Data PROVE s2cStamps'[i] = clientEpoch
      BY <1>2 DEF Answered
    <3>1. CASE i \in DOMAIN s2c
      BY <1>1, <2>5, <2>6, <3>1 DEF StampInv, Answered
    <3>2. CASE i \notin DOMAIN s2c
      BY <1>2, <1>8, <2>5, <2>6, <3>2
    <3> QED
      BY <3>1, <3>2
  <2> QED
    BY <2>6, <2>7, <2>8
<1> QED
  BY <1>2, <1>3, <1>4, <1>5, <1>9, <1>10, <1>11 DEF StampInv, StampTypes

\* Every step of the server.
LEMMA ServerStepStamp ==
  ASSUME IInv, ResetInv, BreakInv, StampInv, ServerStep, ClientEpoch, ServerEpoch, Stamps
  PROVE  StampInv'
<1> USE DEF clientVars, breakVars, wireVars, serverVars, history
<1>1. CASE ServerResets
  BY <1>1, StampResets
<1>2. CASE ~ServerResets
  <2>1. peer /\ UNCHANGED <<pc, alive>> /\ ~(srv = "resetting" /\ srv' = "idle")
    BY <1>2 DEF ServerStep, ServerReceives, ServerExecutes, ServerReplies, ServerBreaks, ServerIdleMarker,
                ServerDiscards, Arrived
  <2>2. UNCHANGED <<clientEpoch, serverEpoch>>
    BY <2>1 DEF ClientEpoch, ServerEpoch, ClientResets
  <2>3. c2s' = c2s \/ (c2s # <<>> /\ c2s' = Tail(c2s) /\ Head(c2s).type # "reset")
    BY <1>2 DEF ServerStep, ServerReceives, ServerExecutes, ServerReplies, ServerBreaks, ServerIdleMarker,
                ServerDiscards, Arrived
  <2>4. CASE ServerReplies
    <3>1. /\ srv = "replying"
          /\ s2c' = Append(s2c, [type |-> reply, from |-> req, last |-> left = 1])
      BY <2>4 DEF ServerReplies
    <3>2. [type |-> reply, from |-> req, last |-> left = 1] \in ToClient
      BY DEF IInv, TypeOK, ToClient
    <3> QED
      BY <2>1, <2>2, <2>3, <3>1, <3>2, StampServer
  <2>5. CASE ~ServerReplies
    <3>1. s2c' = s2c \/ s2c' = Append(s2c, Ack("break"))
      BY <1>2, <2>5 DEF ServerStep, ServerReceives, ServerExecutes, ServerBreaks, ServerIdleMarker, ServerDiscards
    <3>2. Ack("break") \in ToClient
      BY PacketTypes
    <3>3. Ack("break").type \notin Data
      BY DEF Ack
    <3> QED
      BY <2>1, <2>2, <2>3, <3>1, <3>2, <3>3, StampServer
  <2> QED
    BY <2>4, <2>5
<1> QED
  BY <1>1, <1>2

LEMMA InitStamp == SecureInit => StampInv
<1> SUFFICES ASSUME SecureInit PROVE StampInv
  OBVIOUS
<1>1. c2s = <<>> /\ s2c = <<>> /\ clientEpoch = 0 /\ serverEpoch = 0 /\ c2sStamps = <<>> /\ s2cStamps = <<>>
  BY DEF SecureInit, Init
<1> QED
  BY <1>1 DEF StampInv, StampTypes, Epochs, Written, Answered, Has

\* Every step of the session and its keystreams.
LEMMA NextStamp ==
  Abortable = {} => (IInv /\ ResetInv /\ BreakInv /\ StampInv /\ [SecureNext]_secureVars => StampInv')
<1> SUFFICES ASSUME Abortable = {}, IInv, ResetInv, BreakInv, StampInv, [SecureNext]_secureVars PROVE StampInv'
  OBVIOUS
<1>1. CASE UNCHANGED secureVars
  BY <1>1 DEF secureVars, vars, clientVars, wireVars, StampInv, StampTypes, Epochs, Written, Answered, Has
<1>2. CASE SecureNext
  <2>1. Next /\ ClientEpoch /\ ServerEpoch /\ Stamps
    BY <1>2 DEF SecureNext
  <2>2. CASE \E k \in Calls : CallStep(k)
    BY <2>1, <2>2, CallStepKind, StampWrites, StampReads
  <2>3. CASE (\E k \in Calls : CancelCtx(k)) \/ UNCHANGED vars
    <3>1. UNCHANGED <<mu, pc, alive, c2s, s2c, peer, srv>>
      BY <2>3 DEF CancelCtx, vars, clientVars, wireVars, serverVars
    <3>2. Writes
      BY <3>1, Stays, WritesNone DEF ClientResets, ResetInv, PeerAlive
    <3> QED
      BY <2>1, <3>2, StampWrites
  <2>4. CASE \E b \in Breakers : BreakStep(b)
    BY <2>1, <2>4, BreakStepKind, StampWrites
  <2>5. CASE ServerStep
    BY <2>1, <2>5, ServerStepStamp
  <2>6. CASE Lose
    <3>1. /\ ~peer' /\ c2s' = <<>> /\ (s2c' = s2c \/ s2c' = <<>>)
          /\ UNCHANGED <<pc, alive, srv>>
      BY <2>6 DEF Lose, clientVars, serverVars
    <3>2. UNCHANGED <<clientEpoch, serverEpoch>> /\ StampTypes /\ serverEpoch \in Nat /\ clientEpoch \in Nat
      BY <2>1, <3>1 DEF ClientEpoch, ServerEpoch, ClientResets, StampInv, StampTypes
    <3>3. c2sStamps' = <<>>
      BY <2>1, <3>1, <3>2, ToServerStamps
    <3>4. (s2c' = s2c /\ s2cStamps' = s2cStamps) \/ (s2c' = <<>> /\ s2cStamps' = <<>>)
      BY <2>1, <3>1, <3>2, ToClientStamps
    <3>5. <<>> \in Seq(Nat)
      BY EmptySeq
    <3>6. StampTypes'
      BY <3>1, <3>2, <3>3, <3>4, <3>5 DEF StampTypes
    <3>7. Answered'
      BY <3>1, <3>2, <3>4 DEF StampInv, Answered
    <3> QED
      BY <3>1, <3>6, <3>7 DEF StampInv, Epochs, Written
  <2> QED
    BY <2>1, <2>2, <2>3, <2>4, <2>5, <2>6 DEF Next, Finished
<1> QED
  BY <1>1, <1>2

\* The session under its keystreams is a session.
LEMMA SecureIsSession == SecureSpec => Spec
<1>1. SecureInit => Init
  BY DEF SecureInit
<1>2. [SecureNext]_secureVars => [Next]_vars
  BY DEF SecureNext, secureVars
<1> QED
  BY <1>1, <1>2, PTL DEF SecureSpec, Spec

\* The DATA packet that either end is about to read was wrapped in the epoch
\* that end is in, whatever breaks, resets, resends and writes that fail come
\* between: as long as every response can be processed, the checksums of
\* Native Network Encryption never fail a session.
THEOREM KeystreamsInStep == Abortable = {} => (SecureSpec => []InStep)
<1> SUFFICES ASSUME Abortable = {} PROVE SecureSpec => []InStep
  OBVIOUS
<1>1. StampInv /\ IInv => InStep
  <2> SUFFICES ASSUME StampInv, IInv PROVE InStep
    OBVIOUS
  <2>1. ASSUME alive, s2c # <<>>, ~IsMarker(Head(s2c)) PROVE Head(s2cStamps) = clientEpoch
    <3>1. s2c \in Seq(ToClient) /\ 1 \in DOMAIN s2c /\ Head(s2c) = s2c[1] /\ Head(s2c) \in ToClient /\ Len(s2c) # 0
      BY <2>1, Tailed, HeadTailProperties DEF IInv, TypeOK
    <3>2. s2c[1].type \in Data
      BY <2>1, <3>1 DEF ToClient, IsMarker
    <3>3. s2cStamps[1] = clientEpoch
      BY <2>1, <3>1, <3>2 DEF StampInv, Answered
    <3>4. s2cStamps \in Seq(Nat) /\ s2cStamps # <<>>
      BY <3>1 DEF StampInv, StampTypes
    <3> QED
      BY <3>3, <3>4, Tailed
  <2>2. ASSUME peer, c2s # <<>> PROVE Head(c2sStamps) = serverEpoch
    <3>1. 1 \in DOMAIN c2s /\ DOMAIN c2s = 1 .. Len(c2s) /\ Len(c2s) # 0
      BY <2>2, Tailed DEF IInv, TypeOK
    <3>2. c2sStamps[1] = serverEpoch
      BY <2>2, <3>1 DEF StampInv, Written
    <3>3. c2sStamps \in Seq(Nat) /\ c2sStamps # <<>>
      BY <3>1 DEF StampInv, StampTypes
    <3> QED
      BY <3>2, <3>3, Tailed
  <2> QED
    BY <2>1, <2>2 DEF InStep, Arrived
<1>2. SecureInit => BreakInv /\ StampInv
  BY InitBreak, InitStamp DEF SecureInit
<1>3. IInv /\ ResetInv /\ BreakInv /\ StampInv /\ [SecureNext]_secureVars => BreakInv' /\ StampInv'
  <2>1. [SecureNext]_secureVars => [Next]_vars
    BY DEF SecureNext, secureVars
  <2> QED
    BY <2>1, NextBreak, NextStamp
<1> QED
  BY <1>1, <1>2, <1>3, SecureIsSession, Invariance, ResetInvariance, PTL DEF SecureSpec

---------------------------------------------------------------------------
(* Requests and responses stay paired, as long as no bind value fails to   *)
(* convert after packets have gone out (Deferrable = {}; the run           *)
(* session_stale_break shows what happens then) and no response asks for   *)
(* FLUSH_OUT_BINDS.  The last part, on breaks and the calls they fail,     *)
(* needs neither, only that breaks are markers in the stream (OOB = FALSE).*)

\* The server works for nobody, and nothing under way will change that.
ServerQuiet == peer => srv \in {"idle", "resetting"} /\ req = {} /\ ~Has(c2s, {"request"})

\* The holder has sent its request and expects, or resets, the response.
InAnswer ==
  \/ At \in {"break", "reset", "drain"}
  \/ At \in {"receive", "read"} /\ stage \in {"first", "again"}

NoFlushes ==
  /\ stage # "flush" /\ At # "flush" /\ reply # "flush"
  /\ ~Has(s2c, {"flush"}) /\ ~Has(c2s, {"flush"})

Stages ==
  /\ At = "write" => stage = "first"
  /\ At \in {"receive", "read"} => stage # "fail"

\* Requests under way are the holder's, none is behind its last packet or
\* behind a reset marker, and the server is not at work for another one.
Requests ==
  peer => \A i \in DOMAIN c2s : c2s[i].type = "request" =>
    /\ mu # NoCall /\ c2s[i].call = mu
    /\ srv \notin {"executing", "replying"}
    /\ c2s[i].last => At # "write" /\ \A j \in DOMAIN c2s : i < j => c2s[j].type # "request"
    /\ \A j \in DOMAIN c2s : j < i => c2s[j].type # "reset"

\* What the server works on is the holder's request.
Serving ==
  peer => /\ req \subseteq {mu}
          /\ srv \in {"partial", "executing", "replying"} => mu # NoCall /\ req = {mu}

\* While the holder writes there is no response.
Writing ==
  alive /\ At = "write" => ~Has(s2c, Data) /\ (peer => srv \notin {"executing", "replying"})

\* A holder that expects no response has none coming.
Quiet == alive /\ ~InAnswer /\ At # "write" => ServerQuiet /\ ~Has(s2c, Reply)

\* A response under way is the holder's.
Owned ==
  alive => \A i \in DOMAIN s2c : s2c[i].type \in Data =>
    /\ mu # NoCall /\ s2c[i].from \subseteq {mu}
    /\ s2c[i].type \in Reply => s2c[i].from = {mu}

\* After its last packet there is nothing more.
LastEnds ==
  alive => \A i \in DOMAIN s2c : s2c[i].type \in Data /\ s2c[i].last =>
    ServerQuiet /\ \A j \in DOMAIN s2c : i < j => s2c[j].type \notin Reply

\* The error response of a reset is behind the reset marker until the holder
\* has drained that, and the next packet for it from then on.
Cancelled ==
  alive => \A i \in DOMAIN s2c : s2c[i].type = "cancelled" =>
    /\ s2c[i].last
    /\ IF At = "drain" THEN i > 1 /\ s2c[i - 1].type = "reset" ELSE i = 1 /\ At \in {"skip", "read"}

Acked ==
  alive => \A i \in DOMAIN s2c : s2c[i].type = "reset" =>
    i + 1 \in DOMAIN s2c /\ s2c[i + 1].type = "cancelled"

Skipping ==
  alive /\ (At = "skip" \/ (At = "read" /\ stage = "late"))
    => IF s2c = <<>> THEN ~peer ELSE s2c[1].type = "cancelled"

\* Only a call about to reset has an error in its read buffer.
Readable == alive /\ rerr # "none" => At \in {"break", "reset"}

\* Responses are sent for requests that have run.
Executed ==
  /\ peer /\ srv = "replying" => req \subseteq ran
  /\ alive => \A i \in DOMAIN s2c : s2c[i].type \in Reply => s2c[i].from \subseteq ran

PairInv ==
  /\ NoFlushes /\ Stages /\ Requests /\ Serving /\ Writing /\ Quiet /\ Owned /\ LastEnds
  /\ Cancelled /\ Acked /\ Skipping /\ Readable /\ Executed

\* What a call has consumed and reports is what was done for it.
Reported == \A k \in Calls : got[k] \subseteq {k} /\ (res[k] = "ok" => k \in ran)

---------------------------------------------------------------------------
(* The steps, by what they do to the stream and to the holder.             *)

\* d is c, or c with a marker behind it.
Extends(c, d) ==
  /\ \A i \in DOMAIN c : i \in DOMAIN d /\ d[i] = c[i]
  /\ \A i \in DOMAIN d : i \in DOMAIN c \/ d[i].type \in ClientMarker
  /\ \A i \in DOMAIN d, j \in DOMAIN c : i < j => i \in DOMAIN c

\* Nothing is promised of a session that is closed.
LEMMA PairDead ==
  ASSUME ~alive', PeerAlive', NoFlushes', Stages'
  PROVE  PairInv'
BY DEF PeerAlive, PairInv, NoFlushes, Stages, Requests, Serving, Writing, Quiet, Owned, LastEnds,
       Cancelled, Acked, Skipping, Readable, Executed, ServerQuiet

\* Between calls and at the end of one, nothing is under way for a call.
LEMMA Settled ==
  ASSUME PairInv, alive, At \in {"out", "stop", "clear"}
  PROVE  ServerQuiet /\ ~Has(s2c, Data)
BY DEF PairInv, Quiet, Cancelled, InAnswer, Has

\* Markers behind the stream, and steps of the holder that read nothing.
LEMMA PairMove ==
  ASSUME IInv, ResetInv, PairInv, alive, alive', Extends(c2s, c2s'),
         UNCHANGED <<s2c, peer, srv, req, reply, ran>>,
         \/ At' = At /\ UNCHANGED <<mu, stage, rerr>>
         \/ At = "out" /\ At' = "write" /\ mu' \in Calls /\ stage' = "first" /\ rerr' = rerr
         \/ At \in {"stop", "clear"} /\ At' = "out" /\ mu' = NoCall /\ UNCHANGED <<stage, rerr>>
         \/ At = "stop" /\ At' = "clear" /\ UNCHANGED <<mu, stage, rerr>>
         \/ At = "stop" /\ At' = "receive" /\ stage' = "late" /\ UNCHANGED <<mu, rerr>>
         \/ At = "skip" /\ At' = "read" /\ stage # "fail" /\ UNCHANGED <<mu, stage, rerr>>
         \/ At = "break" /\ At' = "reset" /\ UNCHANGED <<mu, stage, rerr>>
         \/ At = "reset" /\ At' = "drain" /\ rerr' = "none" /\ UNCHANGED <<mu, stage>>
  PROVE  PairInv'
<1>1. At \in {"out", "stop", "clear"} => ServerQuiet /\ ~Has(s2c, Data)
  BY Settled
<1>2. ServerQuiet => ServerQuiet'
  BY DEF ServerQuiet, Has, Extends
<1>3. \A i \in DOMAIN c2s' : c2s'[i].type \in {"request", "flush"} => i \in DOMAIN c2s /\ c2s[i] = c2s'[i]
  BY DEF Extends
<1>4. NoFlushes' /\ Stages'
  BY <1>3 DEF PairInv, NoFlushes, Stages, Has
<1>5. Requests'
  <2> SUFFICES ASSUME peer', NEW i \in DOMAIN c2s', c2s'[i].type = "request"
               PROVE  /\ mu' # NoCall /\ c2s'[i].call = mu'
                      /\ srv' \notin {"executing", "replying"}
                      /\ c2s'[i].last => At' # "write" /\ \A j \in DOMAIN c2s' : i < j => c2s'[j].type # "request"
                      /\ \A j \in DOMAIN c2s' : j < i => c2s'[j].type # "reset"
    BY DEF Requests
  <2>1. i \in DOMAIN c2s /\ c2s[i].type = "request" /\ c2s'[i] = c2s[i] /\ peer
    BY <1>3
  <2>2. At \notin {"out", "stop", "clear"}
    BY <1>1, <2>1 DEF ServerQuiet, Has
  <2>3. mu' = mu /\ (At' = "write" => At = "write")
    BY <2>2
  <2>4. /\ mu # NoCall /\ c2s[i].call = mu
        /\ srv \notin {"executing", "replying"}
        /\ c2s[i].last => At # "write" /\ \A j \in DOMAIN c2s : i < j => c2s[j].type # "request"
        /\ \A j \in DOMAIN c2s : j < i => c2s[j].type # "reset"
    BY <2>1 DEF PairInv, Requests
  <2>5. \A j \in DOMAIN c2s' : i < j /\ c2s[i].last => c2s'[j].type # "request"
    BY <1>3, <2>4
  <2>6. \A j \in DOMAIN c2s' : j < i => c2s'[j].type # "reset"
    <3>1. \A j \in DOMAIN c2s' : j < i => j \in DOMAIN c2s /\ c2s'[j] = c2s[j]
      BY <2>1 DEF Extends
    <3> QED
      BY <2>4, <3>1
  <2> QED
    BY <2>1, <2>3, <2>4, <2>5, <2>6
<1>6. Serving'
  BY <1>1 DEF PairInv, Serving, ServerQuiet
<1>7. Writing'
  BY <1>1 DEF PairInv, Writing, ServerQuiet
<1>8. Quiet'
  BY <1>1, <1>2 DEF PairInv, Quiet, InAnswer, Has
<1>9. Owned'
  BY <1>1 DEF PairInv, Owned, Has
<1>10. LastEnds'
  BY <1>2 DEF PairInv, LastEnds
<1>11. Cancelled'
  BY DEF PairInv, Cancelled
<1>12. Acked' /\ Skipping' /\ Readable'
  BY DEF PairInv, Acked, Skipping, Readable
<1>13. Executed'
  BY DEF PairInv, Executed
<1> QED
  BY <1>4, <1>5, <1>6, <1>7, <1>8, <1>9, <1>10, <1>11, <1>12, <1>13 DEF PairInv


\* A marker that the transport takes extends the stream.
LEMMA SentMarker ==
  ASSUME IInv, ResetInv, NEW m \in ClientMarker, Send(Mark(m)), alive'
  PROVE  alive /\ Extends(c2s, c2s')
<1>1. Mark(m) \in ToServer
  BY PacketTypes
<1>2. Mark(m).type \in ClientMarker
  BY DEF Mark
<1>3. c2s \in Seq(ToServer)
  BY DEF IInv, TypeOK
<1>4. alive
  BY <1>1, Sent
<1>5. CASE c2s' = Append(c2s, Mark(m))
  <2>1. /\ DOMAIN c2s = 1 .. Len(c2s) /\ Len(c2s) \in Nat
        /\ DOMAIN c2s' = 1 .. Len(c2s) + 1
        /\ \A i \in DOMAIN c2s : c2s'[i] = c2s[i]
        /\ c2s'[Len(c2s) + 1] = Mark(m)
    BY <1>1, <1>3, <1>5, Appended
  <2> QED
    BY <1>2, <1>4, <2>1 DEF Extends
<1>6. CASE c2s' = c2s
  BY <1>4, <1>6 DEF Extends
<1> QED
  BY <1>4, <1>5, <1>6 DEF Send

\* One more packet of the request.
LEMMA WriteRequestPair ==
  ASSUME IInv, ResetInv, PairInv, NEW k \in Calls, WriteRequest(k)
  PROVE  PairInv'
<1> DEFINE p == [type |-> "request", call |-> k, last |-> sent + 1 = ReqPkts]
<1>1. /\ pc[k] = "write" /\ Send(p) /\ mu' = mu
      /\ \/ alive' /\ Goto(k, IF sent + 1 = ReqPkts THEN "receive" ELSE "write")
         \/ ~alive' /\ Goto(k, "stop")
      /\ UNCHANGED <<stage, rerr, s2c, peer, srv, req, reply, ran>>
  BY DEF WriteRequest, Leave, serverVars, history
<1>2. p \in ToServer /\ p.type = "request" /\ p.call = k
  BY DEF ToServer
<1>3. /\ mu = k /\ mu # NoCall /\ At = "write" /\ stage = "first"
      /\ alive' => At' = IF p.last THEN "receive" ELSE "write"
      /\ ~alive' => At' = "stop"
  <2>1. mu = k /\ At = "write"
    BY <1>1, Inside
  <2>2. p.last = (sent + 1 = ReqPkts)
    OBVIOUS
  <2>3. alive' => At' = IF p.last THEN "receive" ELSE "write"
    BY <1>1, <2>2, Moves DEF Steps
  <2>4. ~alive' => At' = "stop"
    BY <1>1, Moves DEF Steps
  <2> QED
    BY <2>1, <2>3, <2>4 DEF PairInv, Stages
<1> HIDE DEF p
<1>4. (peer => alive' /\ c2s' = Append(c2s, p)) /\ (alive' => alive) /\ (~peer => c2s' = c2s)
  BY <1>1, <1>2, Sent DEF Send
<1>5. c2s \in Seq(ToServer) /\ DOMAIN c2s = 1 .. Len(c2s) /\ Len(c2s) \in Nat
  BY DEF IInv, TypeOK
<1>6. peer => /\ DOMAIN c2s' = 1 .. Len(c2s) + 1
              /\ \A i \in DOMAIN c2s : c2s'[i] = c2s[i]
              /\ c2s'[Len(c2s) + 1] = p
  BY <1>2, <1>4, <1>5, Appended
<1>7. NoFlushes' /\ Stages'
  <2>1. ~Has(c2s', {"flush"})
    BY <1>2, <1>4, <1>5, <1>6 DEF PairInv, NoFlushes, Has
  <2> QED
    BY <1>1, <1>3, <2>1 DEF PairInv, NoFlushes, Stages, Has
<1>8. CASE ~alive'
  <2>1. PeerAlive'
    BY <1>1, <1>4, <1>8 DEF PeerAlive
  <2> QED
    BY <1>7, <1>8, <2>1, PairDead
<1>9. CASE alive'
  <2>1. alive /\ ~Has(s2c, Data) /\ (peer => srv \notin {"executing", "replying"})
    BY <1>3, <1>4, <1>9 DEF PairInv, Writing
  <2>2. peer => \A j \in DOMAIN c2s : c2s[j].type # "reset"
    BY <1>3 DEF ResetInv, ResetsFollow
  <2>3. peer => \A j \in DOMAIN c2s : c2s[j].type = "request" => ~c2s[j].last /\ c2s[j].call = k
    BY <1>3 DEF PairInv, Requests
  <2>4. Requests'
    BY <1>1, <1>2, <1>3, <1>5, <1>6, <1>9, <2>1, <2>2, <2>3 DEF Requests
  <2>5. Serving' /\ Writing' /\ Quiet' /\ Owned' /\ LastEnds'
    BY <1>1, <1>3, <1>9, <2>1 DEF PairInv, Serving, Writing, Quiet, InAnswer, Owned, LastEnds, Has
  <2>6. Cancelled' /\ Acked' /\ Skipping' /\ Readable' /\ Executed'
    BY <1>1, <1>3, <1>9, <2>1
       DEF PairInv, Cancelled, Acked, Skipping, Readable, Executed, Has, ResetInv, AcksFollow
  <2> QED
    BY <1>7, <2>4, <2>5, <2>6 DEF PairInv
<1> QED
  BY <1>8, <1>9

\* A packet read by the holder that is none of a drain: the last of a
\* response ends it, and a marker is answered by a reset.
LEMMA PairRead ==
  ASSUME IInv, ResetInv, PairInv, alive, alive', CanRead, s2c' = Tail(s2c),
         UNCHANGED <<mu, c2s, peer, srv, req, reply, ran>>,
         At \in {"receive", "read", "skip"},
         LET p == Head(s2c) IN
         \/ /\ IsMarker(p) /\ At' \in {"break", "reset"}
            /\ At = "receive" \/ (At = "read" /\ stage \in {"first", "again"})
            /\ stage' \in {stage, "again", "fail"}
         \/ ~IsMarker(p) /\ ~p.last /\ At # "skip" /\ At' = "read" /\ stage' = stage /\ rerr' = rerr
         \/ /\ ~IsMarker(p) /\ At \in {"receive", "read"} /\ stage \in {"first", "again"} /\ p.type \in Reply
            /\ At' = "break" /\ stage' = "fail" /\ rerr' = rerr
         \/ /\ ~IsMarker(p) /\ p.last /\ rerr' = rerr
            /\ \/ At' \in {"stop", "clear"} /\ stage' = stage
               \/ At' = "write" /\ stage' = "first" /\ p.type \in Reply /\ At # "skip" /\ stage # "late"
  PROVE  PairInv'
<1> DEFINE p == Head(s2c)
<1>1. /\ s2c \in Seq(ToClient) /\ s2c # <<>> /\ s2c' = Tail(s2c) /\ alive /\ rerr = "none"
  BY DEF IInv, TypeOK, CanRead
<1>2. /\ DOMAIN s2c = 1 .. Len(s2c) /\ Len(s2c) \in Nat \ {0} /\ Head(s2c) = s2c[1] /\ 1 \in DOMAIN s2c
      /\ DOMAIN s2c' = 1 .. Len(s2c) - 1
      /\ \A i \in DOMAIN s2c' : s2c'[i] = s2c[i + 1] /\ i + 1 \in DOMAIN s2c /\ 1 < i + 1
  BY <1>1, Tailed
<1>3. p \in ToClient /\ p = s2c[1] /\ (IsMarker(p) \/ p.type \in Data)
  <2>1. p \in ToClient /\ p = s2c[1]
    BY <1>1, <1>2, HeadTailProperties
  <2> QED
    BY <2>1 DEF ToClient, IsMarker
<1>4. \A i \in DOMAIN s2c' : s2c'[i].type \notin {"cancelled", "reset"}
  <2>1. \A i \in DOMAIN s2c : s2c[i].type # "reset"
    BY <1>1 DEF ResetInv, AcksFollow
  <2>2. \A i \in DOMAIN s2c : s2c[i].type = "cancelled" => i = 1
    BY <1>1 DEF PairInv, Cancelled
  <2> QED
    BY <1>2, <2>1, <2>2
<1>5. ~IsMarker(p) /\ p.last => ServerQuiet /\ ~Has(s2c', Reply)
  <2>1. ~IsMarker(p) /\ p.last => ServerQuiet /\ \A j \in DOMAIN s2c : 1 < j => s2c[j].type \notin Reply
    BY <1>1, <1>2, <1>3 DEF PairInv, LastEnds
  <2> QED
    BY <1>2, <2>1 DEF Has
<1>6. ServerQuiet' = ServerQuiet /\ (~Has(s2c, Reply) => ~Has(s2c', Reply))
  BY <1>2 DEF ServerQuiet, Has
<1>7. NoFlushes' /\ Stages'
  BY <1>2 DEF PairInv, NoFlushes, Stages, Has
<1>8. Requests' /\ Serving'
  <2>1. At # "write" /\ (At' = "write" /\ peer => \A i \in DOMAIN c2s : c2s[i].type # "request")
    BY <1>5 DEF ServerQuiet, Has
  <2> QED
    BY <2>1 DEF PairInv, Requests, Serving
<1>9. Writing'
  BY <1>4, <1>5 DEF Writing, Has, ServerQuiet
<1>10. Quiet'
  <2>1. At = "skip" \/ stage = "late" => ServerQuiet /\ ~Has(s2c, Reply)
    BY <1>1 DEF PairInv, Quiet, InAnswer
  <2>2. At \in {"receive", "read"} => stage \in {"first", "again", "late"}
    BY DEF IInv, TypeOK, PairInv, NoFlushes, Stages
  <2> QED
    BY <1>5, <1>6, <2>1, <2>2 DEF Quiet, InAnswer
<1>11. Owned' /\ LastEnds'
  BY <1>2, <1>6 DEF PairInv, Owned, LastEnds
<1>12. Cancelled' /\ Acked' /\ Readable'
  BY <1>1, <1>4 DEF Cancelled, Acked, Readable
<1>13. Skipping'
  <2>1. stage = "late" /\ At = "receive" => ~Has(s2c, Data)
    BY <1>1 DEF PairInv, Quiet, InAnswer, Cancelled, Has
  <2>2. stage = "late" /\ At = "read" => p.type = "cancelled" /\ p.last
    BY <1>1, <1>2, <1>3 DEF PairInv, Skipping, Cancelled
  <2> QED
    BY <1>2, <1>3, <2>1, <2>2 DEF Skipping, Has, IsMarker
<1>14. Executed'
  BY <1>2 DEF PairInv, Executed
<1> QED
  BY <1>7, <1>8, <1>9, <1>10, <1>11, <1>12, <1>13, <1>14 DEF PairInv


\* Draining up to the reset marker: behind it is the error response, and
\* behind that nothing of a response.
LEMMA DrainPair ==
  ASSUME IInv, ResetInv, PairInv, NEW k \in Calls, Drain(k)
  PROVE  PairInv'
<1>1. /\ pc[k] = "drain" /\ CanRead /\ Consume
      /\ UNCHANGED <<mu, stage, rerr, alive, c2s, peer, srv, req, reply, ran>>
  BY DEF Drain, serverVars, history
<1>2. At = "drain" /\ At' = IF Head(s2c).type = "reset" THEN "skip" ELSE "drain"
  BY <1>1, Moves DEF Drain, Steps
<1>3. s2c \in Seq(ToClient) /\ s2c # <<>> /\ s2c' = Tail(s2c) /\ alive /\ alive' /\ rerr = "none"
  BY <1>1 DEF IInv, TypeOK, CanRead, Consume
<1>4. /\ DOMAIN s2c = 1 .. Len(s2c) /\ Len(s2c) \in Nat \ {0} /\ Head(s2c) = s2c[1] /\ 1 \in DOMAIN s2c
      /\ DOMAIN s2c' = 1 .. Len(s2c) - 1 /\ s2c' = Tail(s2c)
      /\ \A i \in DOMAIN s2c' : s2c'[i] = s2c[i + 1] /\ i + 1 \in DOMAIN s2c /\ 1 < i + 1
  BY <1>3, Tailed
<1>5. /\ \A i \in DOMAIN s2c : s2c[i].type = "reset" => \A j \in DOMAIN s2c : s2c[j].type = "reset" => j = i
      /\ \A i \in DOMAIN s2c : s2c[i].type = "cancelled" => s2c[i].last /\ i > 1 /\ s2c[i - 1].type = "reset"
      /\ \A i \in DOMAIN s2c : s2c[i].type = "reset" => i + 1 \in DOMAIN s2c /\ s2c[i + 1].type = "cancelled"
  BY <1>2, <1>3 DEF ResetInv, AcksFollow, PairInv, Cancelled, Acked
<1>6. NoFlushes' /\ Stages'
  BY <1>1, <1>2, <1>4 DEF PairInv, NoFlushes, Stages, Has
<1>7. Requests' /\ Serving' /\ Writing'
  BY <1>1, <1>2 DEF PairInv, Requests, Serving, Writing
<1>8. Quiet' /\ Skipping'
  <2>1. CASE Head(s2c).type # "reset"
    BY <1>1, <1>2, <2>1 DEF Quiet, InAnswer, Skipping
  <2>2. CASE Head(s2c).type = "reset"
    <3>1. 2 \in DOMAIN s2c /\ s2c[2].type = "cancelled" /\ s2c[2].last
      <4>1. 1 + 1 \in DOMAIN s2c /\ s2c[1 + 1].type = "cancelled"
        BY <1>4, <1>5, <2>2
      <4> QED
        BY <1>5, <4>1
    <3>2. ServerQuiet /\ \A j \in DOMAIN s2c : 2 < j => s2c[j].type \notin Reply
      BY <1>3, <3>1 DEF PairInv, LastEnds
    <3>3. \A i \in DOMAIN s2c' : s2c'[i].type \notin Reply
      <4> SUFFICES ASSUME NEW i \in DOMAIN s2c' PROVE s2c'[i].type \notin Reply
        OBVIOUS
      <4>1. CASE i = 1
        BY <1>4, <3>1, <4>1
      <4>2. CASE i # 1
        <5>1. i + 1 \in DOMAIN s2c /\ 2 < i + 1 /\ s2c'[i] = s2c[i + 1]
          BY <1>4, <4>2
        <5> QED
          BY <3>2, <5>1
      <4> QED
        BY <4>1, <4>2
    <3>4. 1 \in DOMAIN s2c' /\ s2c'[1].type = "cancelled"
      BY <1>4, <3>1
    <3>5. ServerQuiet'
      BY <1>1, <3>2 DEF ServerQuiet
    <3>6. Quiet'
      BY <3>3, <3>5 DEF Quiet, Has
    <3>7. Skipping'
      <4>1. s2c' # <<>>
        BY <3>4
      <4> QED
        BY <3>4, <4>1 DEF Skipping
    <3> QED
      BY <3>6, <3>7
  <2> QED
    BY <2>1, <2>2
<1>9. Owned' /\ Executed' /\ Readable'
  BY <1>1, <1>3, <1>4 DEF PairInv, Owned, Executed, Readable
<1>10. LastEnds'
  <2>1. ServerQuiet' = ServerQuiet
    BY <1>1 DEF ServerQuiet
  <2> QED
    BY <1>1, <1>4, <2>1 DEF PairInv, LastEnds
<1>11. Cancelled'
  <2> SUFFICES ASSUME NEW i \in DOMAIN s2c', s2c'[i].type = "cancelled"
               PROVE  /\ s2c'[i].last
                      /\ IF At' = "drain" THEN i > 1 /\ s2c'[i - 1].type = "reset"
                                          ELSE i = 1 /\ At' \in {"skip", "read"}
    BY DEF Cancelled
  <2>1. s2c[i + 1].last /\ s2c'[i] = s2c[i + 1] /\ s2c[i].type = "reset" /\ i \in DOMAIN s2c /\ i \in Nat
    BY <1>4, <1>5
  <2>2. CASE i = 1
    BY <1>2, <1>4, <2>1, <2>2
  <2>3. CASE i # 1
    <3>1. i - 1 \in DOMAIN s2c' /\ s2c'[i - 1] = s2c[i] /\ i > 1
      BY <1>4, <2>1, <2>3
    <3>2. s2c[1].type # "reset"
      BY <1>4, <1>5, <2>1, <2>3
    <3> QED
      BY <1>2, <1>4, <2>1, <3>1, <3>2
  <2> QED
    BY <2>2, <2>3
<1>12. Acked'
  <2> SUFFICES ASSUME NEW i \in DOMAIN s2c', s2c'[i].type = "reset"
               PROVE  i + 1 \in DOMAIN s2c' /\ s2c'[i + 1].type = "cancelled"
    BY DEF Acked
  <2>1. i + 1 \in DOMAIN s2c /\ i + 1 + 1 \in DOMAIN s2c /\ s2c[i + 1 + 1].type = "cancelled" /\ i \in Nat
    BY <1>4, <1>5
  <2>2. i + 1 \in DOMAIN s2c'
    BY <1>4, <2>1
  <2> QED
    BY <1>4, <2>1, <2>2
<1> QED
  BY <1>6, <1>7, <1>8, <1>9, <1>10, <1>11, <1>12 DEF PairInv

---------------------------------------------------------------------------
(* The steps of a call.                                                    *)

\* A failed read closes the transport.
LEMMA ReadFailsPair ==
  ASSUME IInv, PeerAlive', PairInv, NEW k \in Calls, ReadFails(k)
  PROVE  PairInv'
<1>1. /\ pc[k] \in {"receive", "read", "drain", "skip"} /\ mu' = mu
      /\ \E step \in {"clear", "stop"} : Goto(k, step)
      /\ rerr # "none" => alive' = alive
      /\ rerr = "none" => alive' = FALSE
      /\ UNCHANGED <<stage, c2s, s2c, reply>>
  BY DEF ReadFails, Leave, serverVars
<1>2. At = pc[k] /\ At' \in {"clear", "stop"}
  BY <1>1, Moves DEF Steps
<1>3. ~alive'
  <2>1. CASE rerr = "none"
    BY <1>1, <2>1
  <2>2. CASE rerr # "none"
    BY <1>1, <1>2, <2>2 DEF PairInv, Readable
  <2> QED
    BY <2>1, <2>2
<1>4. NoFlushes' /\ Stages'
  BY <1>1, <1>2 DEF PairInv, NoFlushes, Stages, Has
<1> QED
  BY <1>3, <1>4, PairDead

\* A marker where the response should be: it resets.
LEMMA MarkerPair ==
  ASSUME IInv, ResetInv, PairInv, NEW k \in Calls, ReceiveMarker(k) \/ ReadMarker(k)
  PROVE  PairInv'
<1>1. /\ pc[k] \in {"receive", "read"} /\ CanRead /\ IsMarker(Head(s2c)) /\ s2c' = Tail(s2c)
      /\ UNCHANGED <<mu, alive, c2s, peer, srv, req, reply, ran>>
  BY DEF ReceiveMarker, ReadMarker, Consume, serverVars, history
<1>2. mu = k /\ At = pc[k] /\ alive /\ alive' /\ s2c # <<>> /\ s2c \in Seq(ToClient)
  BY <1>1, Inside DEF CanRead, IInv, TypeOK
<1>3. CASE ReceiveMarker(k)
  <2>1. At = "receive" /\ At' = "reset" /\ stage' = stage
    BY <1>3, Moves DEF ReceiveMarker, Steps
  <2> QED
    BY <1>1, <1>2, <2>1, PairRead
<1>4. CASE ReadMarker(k)
  <2>1. Head(s2c) = s2c[1]
    BY <1>2
  <2>2. At = "read" /\ stage \in {"first", "again"}
    <3>1. At = "read"
      BY <1>2, <1>4 DEF ReadMarker
    <3>2. stage # "late"
      BY <1>1, <1>2, <2>1, <3>1 DEF PairInv, Skipping, IsMarker
    <3>3. stage \notin {"fail", "flush"}
      BY <3>1 DEF PairInv, Stages, NoFlushes
    <3> QED
      BY <3>1, <3>2, <3>3 DEF IInv, TypeOK
  <2>3. /\ \E step \in {"break", "reset"} : Goto(k, step)
        /\ stage' \in {"again", "fail"} /\ mu' = mu /\ pc[k] = "read"
    BY <1>4, <2>2 DEF ReadMarker
  <2>4. At' \in {"break", "reset"}
    BY <2>3, Moves DEF Steps
  <2> QED
    BY <1>1, <1>2, <2>2, <2>3, <2>4, PairRead
<1> QED
  BY <1>3, <1>4

\* A packet of the response.
LEMMA ReadDataPair ==
  ASSUME IInv, ResetInv, PeerAlive', PairInv, NEW k \in Calls, ReadData(k)
  PROVE  PairInv'
<1> DEFINE p == Head(s2c)
<1>1. /\ pc[k] \in {"receive", "read"} /\ CanRead /\ ~IsMarker(p) /\ s2c' = Tail(s2c)
      /\ IF p.last THEN Complete(k, p) ELSE Goto(k, "read") /\ UNCHANGED <<stage, sent, alive, res>>
      /\ UNCHANGED <<mu, rerr, c2s, peer, srv, req, reply, ran>>
  BY DEF ReadData, Consume, Record, serverVars
<1>2. mu = k /\ At = pc[k] /\ alive /\ s2c # <<>> /\ s2c \in Seq(ToClient)
  BY <1>1, Inside DEF CanRead, IInv, TypeOK
<1>3. p \in ToClient /\ p = s2c[1] /\ DOMAIN s2c = 1 .. Len(s2c) /\ 1 \in DOMAIN s2c
  BY <1>2, Tailed, HeadTailProperties
<1>4. p.type \in Data \ {"flush"}
  <2>1. p.type \in Data
    BY <1>1, <1>3 DEF ToClient, IsMarker
  <2>2. p.type # "flush"
    BY <1>3 DEF PairInv, NoFlushes, Has
  <2> QED
    BY <2>1, <2>2
<1> HIDE DEF p
<1>5. CASE ~p.last
  <2>1. At' = "read" /\ stage' = stage /\ alive' = alive
    BY <1>1, <1>5, Moves DEF Steps
  <2> QED
    BY <1>1, <1>2, <1>5, <2>1, PairRead DEF p
<1>6. CASE p.last
  <2>1. Complete(k, p)
    BY <1>1, <1>6
  <2>2. CASE stage = "late"
    <3>1. Goto(k, "clear") /\ stage' = stage /\ alive' = alive
      BY <2>1, <2>2 DEF Complete
    <3>2. At' = "clear"
      BY <1>1, <3>1, Moves DEF Steps
    <3> QED
      BY <1>1, <1>2, <1>6, <3>1, <3>2, PairRead DEF p
  <2>3. CASE stage # "late" /\ p.type = "retry"
    <3>1. Goto(k, "write") /\ stage' = "first" /\ alive' = alive
      BY <2>1, <2>3 DEF Complete
    <3>2. At' = "write"
      BY <1>1, <3>1, Moves DEF Steps
    <3> QED
      BY <1>1, <1>2, <1>6, <2>3, <3>1, <3>2, PairRead DEF p
  <2>4. CASE stage # "late" /\ p.type = "dead"
    <3>1. Goto(k, "stop") /\ stage' = stage /\ alive' = FALSE
      BY <2>1, <2>4 DEF Complete, Leave
    <3>2. At' = "stop"
      BY <1>1, <3>1, Moves DEF Steps
    <3>3. \A i \in DOMAIN s2c' : s2c'[i] = s2c[i + 1] /\ i + 1 \in DOMAIN s2c
      BY <1>1, <1>2, Tailed
    <3>4. NoFlushes' /\ Stages'
      BY <1>1, <3>1, <3>2, <3>3 DEF PairInv, NoFlushes, Stages, Has
    <3> QED
      BY <3>1, <3>4, PairDead
  <2>5. CASE stage # "late" /\ p.type \notin {"retry", "dead"}
    <3>1. Goto(k, "stop") /\ stage' = stage /\ alive' = alive
      BY <1>4, <2>1, <2>5 DEF Complete, Leave
    <3>2. At' = "stop"
      BY <1>1, <3>1, Moves DEF Steps
    <3> QED
      BY <1>1, <1>2, <1>6, <3>1, <3>2, PairRead DEF p
  <2> QED
    BY <2>2, <2>3, <2>4, <2>5
<1> QED
  BY <1>5, <1>6

\* A packet of rows that the client cannot process: late, there is none.
LEMMA ReadAbortsPair ==
  ASSUME IInv, ResetInv, PairInv, NEW k \in Calls, ReadAborts(k)
  PROVE  PairInv'
<1>1. /\ pc[k] \in {"receive", "read"} /\ CanRead /\ Head(s2c).type = "ok" /\ s2c' = Tail(s2c)
      /\ UNCHANGED <<mu, rerr, alive, c2s, peer, srv, req, reply, ran>>
  BY DEF ReadAborts, Consume, Record, serverVars
<1>2. mu = k /\ At = pc[k] /\ alive /\ alive' /\ s2c # <<>> /\ s2c \in Seq(ToClient)
  BY <1>1, Inside DEF CanRead, IInv, TypeOK
<1>3. Head(s2c) = s2c[1] /\ DOMAIN s2c = 1 .. Len(s2c) /\ 1 \in DOMAIN s2c
  BY <1>2, Tailed
<1>4. stage \in {"first", "again"}
  <2>1. stage # "late"
    BY <1>1, <1>2, <1>3 DEF PairInv, Quiet, InAnswer, Has
  <2>2. stage \notin {"fail", "flush"}
    BY <1>1, <1>2 DEF PairInv, Stages, NoFlushes
  <2> QED
    BY <2>1, <2>2 DEF IInv, TypeOK
<1>5. Goto(k, "break") /\ stage' = "fail"
  BY <1>4 DEF ReadAborts
<1>6. At' = "break"
  BY <1>1, <1>5, Moves DEF Steps
<1>7. ~IsMarker(Head(s2c)) /\ Head(s2c).type \in Reply
  BY <1>1 DEF IsMarker
<1> QED
  BY <1>1, <1>2, <1>4, <1>5, <1>6, <1>7, PairRead

\* The packet behind a reset marker is the error response, never a marker.
LEMMA SkipMarkersPair ==
  ASSUME IInv, ResetInv, PairInv, NEW k \in Calls, SkipMarkers(k)
  PROVE  PairInv'
<1>1. /\ pc[k] = "skip" /\ CanRead
      /\ UNCHANGED <<mu, stage, rerr, alive, c2s, peer, srv, req, reply, ran>>
  BY DEF SkipMarkers, serverVars, history
<1>2. mu = k /\ At = "skip" /\ alive /\ alive' /\ s2c # <<>> /\ s2c \in Seq(ToClient)
  BY <1>1, Inside DEF CanRead, IInv, TypeOK
<1>3. Head(s2c) = s2c[1] /\ 1 \in DOMAIN s2c
  BY <1>2, Tailed
<1>4. Head(s2c).type = "cancelled" /\ Head(s2c).last /\ ~IsMarker(Head(s2c))
  BY <1>2, <1>3 DEF PairInv, Skipping, Cancelled, IsMarker
<1>5. CASE stage = "fail"
  <2>1. s2c' = Tail(s2c) /\ Goto(k, "stop")
    BY <1>4, <1>5 DEF SkipMarkers, Consume
  <2>2. At' = "stop"
    BY <1>1, <2>1, Moves DEF Steps
  <2> QED
    BY <1>1, <1>2, <1>4, <2>1, <2>2, PairRead
<1>6. CASE stage # "fail"
  <2>1. UNCHANGED s2c /\ Goto(k, "read")
    BY <1>4, <1>6 DEF SkipMarkers
  <2>2. At' = "read"
    BY <1>1, <2>1, Moves DEF Steps
  <2>3. Extends(c2s, c2s')
    BY <1>1 DEF Extends
  <2> QED
    BY <1>1, <1>2, <1>6, <2>1, <2>2, <2>3, PairMove
<1> QED
  BY <1>5, <1>6

\* Steps that write a marker, or nothing, and that read nothing.
LEMMA PairWrite ==
  ASSUME IInv, ResetInv, PeerAlive', PairInv,
         (\E m \in ClientMarker : Send(Mark(m))) \/ UNCHANGED <<c2s, alive>>,
         UNCHANGED <<s2c, peer, srv, req, reply, ran>>,
         stage' # "flush", At' # "flush", Stages',
         alive' =>
           \/ At' = At /\ UNCHANGED <<mu, stage, rerr>>
           \/ At = "out" /\ At' = "write" /\ mu' \in Calls /\ stage' = "first" /\ rerr' = rerr
           \/ At \in {"stop", "clear"} /\ At' = "out" /\ mu' = NoCall /\ UNCHANGED <<stage, rerr>>
           \/ At = "stop" /\ At' = "clear" /\ UNCHANGED <<mu, stage, rerr>>
           \/ At = "stop" /\ At' = "receive" /\ stage' = "late" /\ UNCHANGED <<mu, rerr>>
           \/ At = "break" /\ At' = "reset" /\ UNCHANGED <<mu, stage, rerr>>
           \/ At = "reset" /\ At' = "drain" /\ rerr' = "none" /\ UNCHANGED <<mu, stage>>
  PROVE  PairInv'
<1>1. CASE ~alive'
  <2>1. c2s' = c2s
    BY <1>1 DEF Send
  <2>2. NoFlushes'
    BY <2>1 DEF PairInv, NoFlushes, Has
  <2> QED
    BY <1>1, <2>2, PairDead
<1>2. CASE alive'
  <2>1. alive /\ Extends(c2s, c2s')
    BY <1>2, SentMarker DEF Extends
  <2> QED
    BY <1>2, <2>1, PairMove
<1> QED
  BY <1>1, <1>2


\* Every step of a call, none of which defers a bind error or flushes.
LEMMA CallStepPair ==
  ASSUME Deferrable = {}, IInv, ResetInv, ResetInv', PairInv, NEW k \in Calls, CallStep(k)
  PROVE  PairInv'
<1> USE DEF breakVars, wireVars, serverVars, history
<1>a. PeerAlive'
  BY DEF ResetInv
<1>b. NoFlushes /\ Stages
  BY DEF PairInv
<1>1. CASE LockFails(k)
  <2>1. At = "out" /\ At' = "out" /\ mu' = mu
    BY <1>1 DEF LockFails, Unlocked, Return, At
  <2>2. UNCHANGED <<c2s, alive, s2c, peer, srv, req, reply, ran, stage, rerr>>
    BY <1>1 DEF LockFails
  <2>3. Stages' /\ stage' # "flush"
    BY <1>b, <2>1, <2>2 DEF Stages, NoFlushes
  <2> QED
    BY <1>a, <2>1, <2>2, <2>3, PairWrite
<1>2. CASE Lock(k)
  <2>1. At = "out" /\ At' = "write" /\ mu' \in Calls /\ stage' = "first"
    BY <1>2 DEF Lock, Unlocked, At, Goto, IInv, TypeOK
  <2>2. UNCHANGED <<c2s, alive, s2c, peer, srv, req, reply, ran, rerr>>
    BY <1>2 DEF Lock
  <2>3. Stages'
    BY <2>1 DEF Stages
  <2> QED
    BY <1>a, <2>1, <2>2, <2>3, PairWrite
<1>3. CASE WriteRequest(k)
  BY <1>3, WriteRequestPair
<1>4. CASE WriteDefers(k)
  BY <1>4 DEF WriteDefers
<1>5. CASE ReadFails(k)
  BY <1>5, <1>a, ReadFailsPair
<1>6. CASE ReceiveMarker(k) \/ ReadMarker(k)
  BY <1>6, MarkerPair
<1>8. CASE ReadData(k)
  BY <1>8, <1>a, ReadDataPair
<1>9. CASE ReadAborts(k)
  BY <1>9, ReadAbortsPair
<1>10. CASE SendFlush(k)
  <2>1. At = "flush"
    BY <1>10, Inside DEF SendFlush
  <2> QED
    BY <1>b, <2>1 DEF NoFlushes
<1>11. CASE SendBreakMarker(k)
  <2>1. /\ pc[k] = "break" /\ mu' = mu /\ UNCHANGED <<s2c, peer, srv, req, reply, ran, stage, rerr>>
        /\ IF alive THEN Send(Mark("break")) /\ Goto(k, "reset") ELSE UNCHANGED <<c2s, alive>> /\ Goto(k, "stop")
    BY <1>11 DEF SendBreakMarker
  <2>2. At = "break" /\ At' = IF alive THEN "reset" ELSE "stop"
    BY <2>1, Moves DEF Steps
  <2>3. alive' => alive
    BY <2>1 DEF Send
  <2>4. Stages' /\ stage' # "flush"
    BY <1>b, <2>1, <2>2 DEF Stages, NoFlushes
  <2>5. (\E m \in ClientMarker : Send(Mark(m))) \/ UNCHANGED <<c2s, alive>>
    BY <2>1
  <2> QED
    BY <1>a, <2>1, <2>2, <2>3, <2>4, <2>5, PairWrite
<1>12. CASE SendReset(k)
  <2>1. /\ pc[k] = "reset" /\ mu' = mu /\ UNCHANGED <<s2c, peer, srv, req, reply, ran, stage>> /\ rerr' = "none"
        /\ Send(Mark("reset")) /\ Goto(k, IF cur = "reset" THEN "skip" ELSE "drain")
    BY <1>12 DEF SendReset
  <2>2. At = "reset" /\ At' = IF cur = "reset" THEN "skip" ELSE "drain"
    BY <2>1, Moves DEF Steps
  <2>3. alive' => At' = "drain"
    BY <2>1, <2>2 DEF Send, ResetInv, Prepared
  <2>4. Stages' /\ stage' # "flush"
    BY <1>b, <2>1, <2>2 DEF Stages, NoFlushes
  <2>5. \E m \in ClientMarker : Send(Mark(m))
    BY <2>1
  <2> QED
    BY <1>a, <2>1, <2>2, <2>3, <2>4, <2>5, PairWrite
<1>13. CASE Drain(k)
  BY <1>13, DrainPair
<1>14. CASE SkipMarkers(k)
  BY <1>14, SkipMarkersPair
<1>15. CASE Stop(k)
  <2>1. pc[k] = "stop" /\ UNCHANGED <<rerr, s2c, peer, srv, req, reply, ran>>
    BY <1>15 DEF Stop
  <2>2. At = "stop"
    BY <2>1, Inside
  <2>3. CASE Return(k, res[k]) /\ UNCHANGED <<stage, c2s, alive>>
    <3>1. At' = "out" /\ mu' = NoCall
      BY <2>3 DEF Return, At
    <3>2. Stages' /\ stage' # "flush"
      BY <1>b, <2>3, <3>1 DEF Stages, NoFlushes
    <3> QED
      BY <1>a, <2>1, <2>2, <2>3, <3>1, <3>2, PairWrite
  <2>4. CASE /\ PairUrgent(k) /\ UNCHANGED mu
             /\ \/ Goto(k, "receive") /\ stage' = "late"
                \/ Goto(k, "clear") /\ UNCHANGED stage
    <3>1. \/ At' = "receive" /\ stage' = "late"
          \/ At' = "clear" /\ UNCHANGED stage
      BY <2>1, <2>4, Moves DEF Steps
    <3>2. (\E m \in ClientMarker : Send(Mark(m))) \/ UNCHANGED <<c2s, alive>>
      BY <2>4 DEF PairUrgent
    <3>3. Stages' /\ stage' # "flush" /\ At' # "flush"
      BY <1>b, <3>1 DEF Stages, NoFlushes
    <3> QED
      BY <1>a, <2>1, <2>2, <2>4, <3>1, <3>2, <3>3, PairWrite
  <2> QED
    BY <1>15, <2>3, <2>4 DEF Stop
<1>16. CASE Clear(k)
  <2>1. pc[k] = "clear" /\ mu' = NoCall /\ UNCHANGED <<stage, rerr, c2s, alive, s2c, peer, srv, req, reply, ran>>
    BY <1>16 DEF Clear, Return
  <2>2. At = "clear" /\ At' = "out"
    BY <2>1, Inside DEF At
  <2>3. Stages' /\ stage' # "flush"
    BY <1>b, <2>1, <2>2 DEF Stages, NoFlushes
  <2> QED
    BY <1>a, <2>1, <2>2, <2>3, PairWrite
<1> QED
  BY <1>1, <1>2, <1>3, <1>4, <1>5, <1>6, <1>8, <1>9, <1>10, <1>11, <1>12, <1>13, <1>14, <1>15, <1>16
     DEF CallStep

\* A break may come at any time: it only adds a marker behind the stream.
LEMMA BreakStepPair ==
  ASSUME IInv, ResetInv, ResetInv', PairInv, NEW b \in Breakers, BreakStep(b)
  PROVE  PairInv'
<1>1. At' = At /\ UNCHANGED <<mu, stage, rerr, s2c, peer, srv, req, reply, ran>>
  BY Stays DEF BreakStep, SwapBreakSent, SendBreak, WatcherExits, clientVars, wireVars, serverVars, history
<1>2. Send(Mark("interrupt")) \/ UNCHANGED <<c2s, alive>>
  BY DEF BreakStep, SwapBreakSent, SendBreak, WatcherExits, clientVars, wireVars
<1>3. Stages' /\ stage' # "flush" /\ At' # "flush" /\ PeerAlive'
  BY <1>1 DEF PairInv, Stages, NoFlushes, ResetInv
<1>4. (\E m \in ClientMarker : Send(Mark(m))) \/ UNCHANGED <<c2s, alive>>
  BY <1>2
<1> QED
  BY <1>1, <1>3, <1>4, PairWrite

---------------------------------------------------------------------------
(* The steps of the server.                                                *)

\* The server takes a packet off the stream and does no work for it: a
\* break, answered by a marker, or anything that it discards.
LEMMA PairTaken ==
  ASSUME IInv, ResetInv, PairInv, peer, srv' \in {srv, "resetting"},
         c2s' = c2s \/ (c2s # <<>> /\ c2s' = Tail(c2s)),
         s2c' = s2c \/ s2c' = Append(s2c, Ack("break")),
         UNCHANGED <<mu, pc, stage, rerr, alive, peer, req, reply, ran>>
  PROVE  PairInv'
<1>1. At' = At /\ alive /\ alive'
  BY Stays DEF ResetInv, PeerAlive
<1>2. PICK d \in {0, 1} : \A i \in DOMAIN c2s' : i \in Nat /\ i + d \in DOMAIN c2s /\ c2s'[i] = c2s[i + d]
  <2>1. c2s \in Seq(ToServer)
    BY DEF IInv, TypeOK
  <2>2. CASE c2s' = c2s
    <3>1. \A i \in DOMAIN c2s' : i \in Nat /\ i + 0 \in DOMAIN c2s /\ c2s'[i] = c2s[i + 0]
      BY <2>1, <2>2
    <3> QED
      BY <3>1
  <2>3. CASE c2s # <<>> /\ c2s' = Tail(c2s)
    <3>1. \A i \in DOMAIN c2s' : i \in Nat /\ i + 1 \in DOMAIN c2s /\ c2s'[i] = c2s[i + 1]
      BY <2>1, <2>3, Tailed
    <3> QED
      BY <3>1
  <2> QED
    BY <2>2, <2>3
<1>3. /\ \A i \in DOMAIN s2c : i \in DOMAIN s2c' /\ s2c'[i] = s2c[i]
      /\ \A i \in DOMAIN s2c' : i \notin DOMAIN s2c => s2c'[i].type = "break"
      /\ s2c # <<>> => 1 \in DOMAIN s2c
      /\ DOMAIN s2c \subseteq Nat
  <2>1. s2c \in Seq(ToClient)
    BY DEF IInv, TypeOK
  <2>2. Ack("break") \in ToClient
    BY PacketTypes
  <2>3. Ack("break").type = "break"
    BY DEF Ack
  <2>4. CASE s2c' = s2c
    BY <2>1, <2>4
  <2>5. CASE s2c' = Append(s2c, Ack("break"))
    <3>1. /\ DOMAIN s2c = 1 .. Len(s2c) /\ Len(s2c) \in Nat
          /\ DOMAIN s2c' = 1 .. Len(s2c) + 1
          /\ \A i \in DOMAIN s2c : s2c'[i] = s2c[i]
          /\ s2c'[Len(s2c) + 1] = Ack("break")
      BY <2>1, <2>2, <2>5, Appended
    <3> QED
      BY <2>1, <2>3, <3>1
  <2> QED
    BY <2>4, <2>5
<1>4. \A i \in DOMAIN s2c' : s2c'[i].type \in Data \cup {"reset"} => i \in DOMAIN s2c /\ s2c[i] = s2c'[i]
  BY <1>3
<1>5. ServerQuiet => ServerQuiet'
  BY <1>2 DEF ServerQuiet, Has
<1>6. NoFlushes' /\ Stages'
  <2>1. ~Has(s2c', {"flush"}) /\ ~Has(c2s', {"flush"})
    BY <1>2, <1>4 DEF PairInv, NoFlushes, Has
  <2> QED
    BY <1>1, <2>1 DEF PairInv, NoFlushes, Stages
<1>7. Requests'
  <2> SUFFICES ASSUME NEW i \in DOMAIN c2s', c2s'[i].type = "request"
               PROVE  /\ mu' # NoCall /\ c2s'[i].call = mu'
                      /\ srv' \notin {"executing", "replying"}
                      /\ c2s'[i].last => At' # "write" /\ \A j \in DOMAIN c2s' : i < j => c2s'[j].type # "request"
                      /\ \A j \in DOMAIN c2s' : j < i => c2s'[j].type # "reset"
    BY DEF Requests
  <2>1. /\ mu # NoCall /\ c2s[i + d].call = mu
        /\ srv \notin {"executing", "replying"}
        /\ c2s[i + d].last => At # "write" /\ \A j \in DOMAIN c2s : i + d < j => c2s[j].type # "request"
        /\ \A j \in DOMAIN c2s : j < i + d => c2s[j].type # "reset"
    BY <1>2 DEF PairInv, Requests
  <2>2. \A j \in DOMAIN c2s' : (i < j => i + d < j + d) /\ (j < i => j + d < i + d)
    BY <1>2
  <2> QED
    BY <1>1, <1>2, <2>1, <2>2
<1>8. Serving' /\ Writing'
  BY <1>1, <1>4 DEF PairInv, Serving, Writing, Has
<1>9. Quiet'
  BY <1>1, <1>4, <1>5 DEF PairInv, Quiet, InAnswer, Has
<1>10. Owned'
  BY <1>1, <1>4 DEF PairInv, Owned
<1>11. LastEnds'
  BY <1>1, <1>4, <1>5 DEF PairInv, LastEnds
<1>12. Cancelled'
  <2> SUFFICES ASSUME NEW i \in DOMAIN s2c', s2c'[i].type = "cancelled"
               PROVE  /\ s2c'[i].last
                      /\ IF At' = "drain" THEN i > 1 /\ s2c'[i - 1].type = "reset"
                                          ELSE i = 1 /\ At' \in {"skip", "read"}
    BY DEF Cancelled
  <2>1. i \in DOMAIN s2c /\ s2c[i] = s2c'[i] /\ s2c[i].type = "cancelled"
    BY <1>4
  <2>2. i > 1 => i - 1 \in DOMAIN s2c
    BY <2>1 DEF IInv, TypeOK
  <2> QED
    BY <1>1, <1>3, <2>1, <2>2 DEF PairInv, Cancelled
<1>13. Acked'
  BY <1>1, <1>3, <1>4 DEF PairInv, Acked
<1>14. Skipping'
  <2>1. s2c # <<>> => 1 \in DOMAIN s2c /\ s2c'[1] = s2c[1] /\ s2c' # <<>>
    BY <1>3
  <2> QED
    BY <1>1, <2>1 DEF PairInv, Skipping
<1>15. Readable' /\ Executed'
  BY <1>1, <1>4 DEF PairInv, Readable, Executed
<1> QED
  BY <1>6, <1>7, <1>8, <1>9, <1>10, <1>11, <1>12, <1>13, <1>14, <1>15 DEF PairInv


\* The server takes the holder's request.
LEMMA ServerReceivesPair ==
  ASSUME IInv, ResetInv, PairInv, ServerReceives
  PROVE  PairInv'
<1> DEFINE p == Head(c2s)
<1>1. /\ peer /\ srv \in {"idle", "partial"} /\ c2s # <<>> /\ p.type \in {"request", "flush"}
      /\ c2s' = Tail(c2s) /\ req' = req \cup {p.call}
      /\ srv' = IF p.last THEN "executing" ELSE "partial"
      /\ UNCHANGED <<mu, pc, stage, rerr, alive, s2c, peer, reply, ran>>
  BY DEF ServerReceives, Arrived, clientVars, breakVars, history
<1>2. /\ DOMAIN c2s = 1 .. Len(c2s) /\ Len(c2s) \in Nat \ {0} /\ p = c2s[1] /\ 1 \in DOMAIN c2s
      /\ DOMAIN c2s' = 1 .. Len(c2s) - 1
      /\ \A i \in DOMAIN c2s' : c2s'[i] = c2s[i + 1] /\ i + 1 \in DOMAIN c2s /\ 1 < i + 1
  BY <1>1, Tailed DEF IInv, TypeOK
<1>3. At' = At /\ alive /\ alive'
  BY <1>1, Stays DEF ResetInv, PeerAlive
<1>4. c2s[1].type = "request" /\ p.type = "request"
  BY <1>1, <1>2 DEF PairInv, NoFlushes, Has
<1>5. /\ mu # NoCall /\ p.call = mu
      /\ p.last => At # "write" /\ \A j \in DOMAIN c2s : 1 < j => c2s[j].type # "request"
  BY <1>1, <1>2, <1>4 DEF PairInv, Requests
<1>6. ~ServerQuiet
  BY <1>1, <1>2, <1>4 DEF ServerQuiet, Has
<1> HIDE DEF p
<1>7. NoFlushes' /\ Stages'
  BY <1>1, <1>2, <1>3 DEF PairInv, NoFlushes, Stages, Has
<1>8. Requests'
  <2> SUFFICES ASSUME NEW i \in DOMAIN c2s', c2s'[i].type = "request"
               PROVE  /\ mu' # NoCall /\ c2s'[i].call = mu'
                      /\ srv' \notin {"executing", "replying"}
                      /\ c2s'[i].last => At' # "write" /\ \A j \in DOMAIN c2s' : i < j => c2s'[j].type # "request"
                      /\ \A j \in DOMAIN c2s' : j < i => c2s'[j].type # "reset"
    BY DEF Requests
  <2>1. ~p.last
    BY <1>2, <1>5
  <2>2. /\ c2s[i + 1].call = mu
        /\ c2s[i + 1].last => At # "write" /\ \A j \in DOMAIN c2s : i + 1 < j => c2s[j].type # "request"
        /\ \A j \in DOMAIN c2s : j < i + 1 => c2s[j].type # "reset"
    BY <1>1, <1>2 DEF PairInv, Requests
  <2>3. \A j \in DOMAIN c2s' : (i < j => i + 1 < j + 1) /\ (j < i => j + 1 < i + 1)
    BY <1>2
  <2> QED
    BY <1>1, <1>2, <1>3, <1>5, <2>1, <2>2, <2>3
<1>9. Serving' /\ Writing'
  BY <1>1, <1>3, <1>5 DEF PairInv, Serving, Writing
<1>10. Quiet' /\ LastEnds'
  BY <1>1, <1>3, <1>6 DEF PairInv, Quiet, InAnswer, LastEnds
<1>11. Owned' /\ Cancelled' /\ Acked' /\ Skipping' /\ Readable' /\ Executed'
  BY <1>1, <1>3 DEF PairInv, Owned, Cancelled, Acked, Skipping, Readable, Executed
<1> QED
  BY <1>7, <1>8, <1>9, <1>10, <1>11 DEF PairInv

\* The server runs the holder's request.
LEMMA ServerExecutesPair ==
  ASSUME "flush" \notin Replies, IInv, ResetInv, PairInv, ServerExecutes
  PROVE  PairInv'
<1>1. /\ peer /\ srv = "executing" /\ srv' = "replying" /\ reply' \in Replies /\ ran' = ran \cup req
      /\ UNCHANGED <<mu, pc, stage, rerr, alive, c2s, s2c, peer, req>>
  BY DEF ServerExecutes, clientVars, breakVars, wireVars
<1>2. At' = At /\ alive /\ alive'
  BY <1>1, Stays DEF ResetInv, PeerAlive
<1>3. ~ServerQuiet
  BY <1>1 DEF ServerQuiet
<1>4. NoFlushes' /\ Stages' /\ Requests' /\ Serving' /\ Writing'
  BY <1>1, <1>2 DEF PairInv, NoFlushes, Stages, Requests, Serving, Writing
<1>5. Quiet' /\ LastEnds'
  BY <1>1, <1>2, <1>3 DEF PairInv, Quiet, InAnswer, LastEnds
<1>6. Owned' /\ Cancelled' /\ Acked' /\ Skipping' /\ Readable' /\ Executed'
  BY <1>1, <1>2 DEF PairInv, Owned, Cancelled, Acked, Skipping, Readable, Executed
<1> QED
  BY <1>4, <1>5, <1>6 DEF PairInv

\* The server answers it.
LEMMA ServerRepliesPair ==
  ASSUME IInv, ResetInv, PairInv, ServerReplies
  PROVE  PairInv'
<1> DEFINE p == [type |-> reply, from |-> req, last |-> left = 1]
<1>1. /\ peer /\ srv = "replying" /\ s2c' = Append(s2c, p)
      /\ IF left = 1 THEN srv' = "idle" /\ req' = {} ELSE UNCHANGED <<srv, req, peer>>
      /\ UNCHANGED <<mu, pc, stage, rerr, alive, c2s, reply, ran>>
  BY DEF ServerReplies, clientVars, breakVars, history
<1>2. p \in ToClient /\ p.type = reply /\ p.from = req /\ p.last = (left = 1) /\ reply \in Reply \ {"flush"}
  BY DEF IInv, TypeOK, ToClient, PairInv, NoFlushes
<1> HIDE DEF p
<1>3. /\ DOMAIN s2c = 1 .. Len(s2c) /\ Len(s2c) \in Nat
      /\ DOMAIN s2c' = 1 .. Len(s2c) + 1
      /\ \A i \in DOMAIN s2c : s2c'[i] = s2c[i]
      /\ s2c'[Len(s2c) + 1] = p
  BY <1>1, <1>2, Appended DEF IInv, TypeOK
<1>4. At' = At /\ alive /\ alive'
  BY <1>1, Stays DEF ResetInv, PeerAlive
<1>5. ~ServerQuiet /\ \A i \in DOMAIN c2s : c2s[i].type # "request"
  BY <1>1 DEF ServerQuiet, PairInv, Requests
<1>6. At # "write" /\ InAnswer
  BY <1>1, <1>4, <1>5 DEF PairInv, Writing, Quiet
<1>7. mu # NoCall /\ req = {mu} /\ req \subseteq ran
  BY <1>1 DEF PairInv, Serving, Executed
<1>8. NoFlushes' /\ Stages'
  <2>1. ~Has(s2c', {"flush"})
    BY <1>2, <1>3 DEF PairInv, NoFlushes, Has
  <2> QED
    BY <1>1, <1>4, <2>1 DEF PairInv, NoFlushes, Stages, Has
<1>9. Requests' /\ Serving' /\ Writing' /\ Quiet'
  <2>1. Requests'
    BY <1>1, <1>5 DEF Requests
  <2>2. Serving'
    BY <1>1, <1>7 DEF Serving
  <2>3. Writing' /\ Quiet'
    BY <1>1, <1>4, <1>6 DEF Writing, Quiet, InAnswer
  <2> QED
    BY <2>1, <2>2, <2>3
<1>10. Owned'
  BY <1>1, <1>2, <1>3, <1>4, <1>7 DEF PairInv, Owned
<1>11. LastEnds'
  <2> SUFFICES ASSUME NEW i \in DOMAIN s2c', s2c'[i].type \in Data, s2c'[i].last
               PROVE  ServerQuiet' /\ \A j \in DOMAIN s2c' : i < j => s2c'[j].type \notin Reply
    BY DEF LastEnds
  <2>1. i = Len(s2c) + 1
    BY <1>3, <1>4, <1>5 DEF PairInv, LastEnds
  <2>2. left = 1
    BY <1>2, <1>3, <2>1
  <2>3. ServerQuiet'
    BY <1>1, <1>5, <2>2 DEF ServerQuiet, Has
  <2> QED
    BY <1>3, <2>1, <2>3
<1>12. Cancelled'
  <2> SUFFICES ASSUME NEW i \in DOMAIN s2c', s2c'[i].type = "cancelled"
               PROVE  /\ s2c'[i].last
                      /\ IF At' = "drain" THEN i > 1 /\ s2c'[i - 1].type = "reset"
                                          ELSE i = 1 /\ At' \in {"skip", "read"}
    BY DEF Cancelled
  <2>1. i \in DOMAIN s2c /\ s2c[i] = s2c'[i] /\ (i > 1 => i - 1 \in DOMAIN s2c)
    BY <1>2, <1>3
  <2> QED
    BY <1>3, <1>4, <2>1 DEF PairInv, Cancelled
<1>13. Acked'
  BY <1>2, <1>3, <1>4 DEF PairInv, Acked
<1>14. Skipping'
  BY <1>4, <1>6, <1>1, <1>3 DEF Skipping, InAnswer
<1>15. Readable'
  BY <1>1, <1>4 DEF PairInv, Readable
<1>16. Executed'
  <2>1. srv' = "replying" => req' = req
    BY <1>1
  <2>2. ASSUME NEW i \in DOMAIN s2c', s2c'[i].type \in Reply PROVE s2c'[i].from \subseteq ran
    <3>1. CASE i \in DOMAIN s2c
      BY <1>3, <1>4, <2>2, <3>1 DEF PairInv, Executed
    <3>2. CASE i = Len(s2c) + 1
      BY <1>2, <1>3, <1>7, <3>2
    <3> QED
      BY <1>3, <3>1, <3>2
  <2> QED
    BY <1>1, <1>7, <2>1, <2>2 DEF Executed
<1> QED
  BY <1>8, <1>9, <1>10, <1>11, <1>12, <1>13, <1>14, <1>15, <1>16 DEF PairInv

\* The server takes the reset marker and answers it, for the holder.
LEMMA ServerResetsPair ==
  ASSUME IInv, ResetInv, PairInv, ServerResets
  PROVE  PairInv'
<1> DEFINE p == Ack("reset")
           q == [type |-> "cancelled", from |-> req, last |-> TRUE]
<1>1. /\ peer /\ c2s # <<>> /\ Head(c2s).type = "reset" /\ c2s' = Tail(c2s) /\ s2c' = s2c \o <<p, q>>
      /\ srv' = "idle" /\ req' = {}
      /\ UNCHANGED <<mu, pc, stage, rerr, alive, peer, reply, ran>>
  BY DEF ServerResets, Arrived, clientVars, breakVars, history
<1>2. p \in ToClient /\ q \in ToClient /\ p.type = "reset" /\ q.type = "cancelled" /\ q.last /\ q.from = req
  <2>1. p \in ToClient
    BY PacketTypes
  <2>2. q \in ToClient
    BY DEF IInv, TypeOK, ToClient
  <2> QED
    BY <2>1, <2>2 DEF Ack
<1> HIDE DEF p, q
<1>3. /\ DOMAIN s2c = 1 .. Len(s2c) /\ Len(s2c) \in Nat
      /\ DOMAIN s2c' = 1 .. Len(s2c) + 2
      /\ \A i \in DOMAIN s2c : s2c'[i] = s2c[i]
      /\ s2c'[Len(s2c) + 1] = p /\ s2c'[Len(s2c) + 2] = q
  BY <1>1, <1>2, AppendedTwice DEF IInv, TypeOK
<1>4. At' = At /\ alive /\ alive'
  BY <1>1, Stays DEF ResetInv, PeerAlive
<1>5. /\ DOMAIN c2s = 1 .. Len(c2s) /\ Len(c2s) \in Nat \ {0} /\ c2s[1].type = "reset" /\ 1 \in DOMAIN c2s
      /\ DOMAIN c2s' = 1 .. Len(c2s) - 1
      /\ \A i \in DOMAIN c2s' : c2s'[i] = c2s[i + 1] /\ i + 1 \in DOMAIN c2s /\ 1 < i + 1
  BY <1>1, Tailed DEF IInv, TypeOK
<1>6. At = "drain" /\ ~Has(s2c, {"reset"}) /\ mu \in Calls
  <2>1. At = "drain" /\ ~Has(s2c, {"reset"})
    BY <1>1, <1>5 DEF ResetInv, ResetsFollow
  <2> QED
    BY <2>1 DEF At
<1>7. \A i \in DOMAIN c2s' : c2s'[i].type # "request"
  BY <1>1, <1>5 DEF PairInv, Requests
<1>8. ServerQuiet'
  BY <1>1, <1>7 DEF ServerQuiet, Has
<1>9. \A i \in DOMAIN s2c : s2c[i].type # "cancelled"
  <2> SUFFICES ASSUME NEW i \in DOMAIN s2c, s2c[i].type = "cancelled" PROVE FALSE
    OBVIOUS
  <2>1. i > 1 /\ s2c[i - 1].type = "reset"
    BY <1>4, <1>6 DEF PairInv, Cancelled
  <2>2. i - 1 \in DOMAIN s2c
    BY <1>3, <2>1
  <2> QED
    BY <1>6, <2>1, <2>2 DEF Has
<1>10. \A i \in DOMAIN s2c' :
         \/ i \in DOMAIN s2c /\ s2c'[i] = s2c[i] /\ s2c[i].type \notin {"reset", "cancelled"}
         \/ i = Len(s2c) + 1 /\ s2c'[i] = p
         \/ i = Len(s2c) + 2 /\ s2c'[i] = q
  BY <1>3, <1>6, <1>9 DEF Has
<1>11. NoFlushes' /\ Stages'
  <2>1. ~Has(s2c', {"flush"}) /\ ~Has(c2s', {"flush"})
    BY <1>2, <1>5, <1>10 DEF PairInv, NoFlushes, Has
  <2> QED
    BY <1>1, <1>4, <2>1 DEF PairInv, NoFlushes, Stages
<1>12. Requests' /\ Serving' /\ Writing' /\ Quiet'
  BY <1>1, <1>4, <1>6, <1>7 DEF Requests, Serving, Writing, Quiet, InAnswer
<1>13. Owned' /\ Executed'
  <2>1. req \subseteq {mu} /\ mu # NoCall
    BY <1>1, <1>6 DEF PairInv, Serving
  <2> QED
    BY <1>1, <1>2, <1>4, <1>10, <2>1 DEF PairInv, Owned, Executed
<1>14. LastEnds'
  <2> SUFFICES ASSUME NEW i \in DOMAIN s2c', s2c'[i].type \in Data, s2c'[i].last,
                      NEW j \in DOMAIN s2c', i < j
               PROVE  s2c'[j].type \notin Reply
    BY <1>8 DEF LastEnds
  <2>1. CASE j \in DOMAIN s2c
    <3>1. i \in DOMAIN s2c
      BY <1>3, <2>1
    <3> QED
      BY <1>3, <1>4, <2>1, <3>1 DEF PairInv, LastEnds
  <2>2. CASE j \notin DOMAIN s2c
    BY <1>2, <1>10, <2>2
  <2> QED
    BY <2>1, <2>2
<1>15. Cancelled'
  <2> SUFFICES ASSUME NEW i \in DOMAIN s2c', s2c'[i].type = "cancelled"
               PROVE  s2c'[i].last /\ i > 1 /\ s2c'[i - 1].type = "reset"
    BY <1>4, <1>6 DEF Cancelled
  <2>1. i = Len(s2c) + 2 /\ s2c'[i] = q
    BY <1>2, <1>10
  <2>2. i - 1 = Len(s2c) + 1 /\ i > 1
    BY <1>3, <2>1
  <2> QED
    BY <1>2, <1>3, <2>1, <2>2
<1>16. Acked'
  BY <1>2, <1>3, <1>10 DEF Acked
<1>17. Skipping' /\ Readable'
  BY <1>1, <1>4, <1>6 DEF PairInv, Skipping, Readable
<1> QED
  BY <1>11, <1>12, <1>13, <1>14, <1>15, <1>16, <1>17 DEF PairInv

\* Every step of the server.
LEMMA ServerStepPair ==
  ASSUME "flush" \notin Replies, IInv, ResetInv, PairInv, ServerStep
  PROVE  PairInv'
<1> USE DEF clientVars, breakVars, wireVars, serverVars, history
<1>1. CASE ServerReceives
  BY <1>1, ServerReceivesPair
<1>2. CASE ServerExecutes
  BY <1>2, ServerExecutesPair
<1>3. CASE ServerReplies
  BY <1>3, ServerRepliesPair
<1>4. CASE ServerBreaks
  BY <1>4, PairTaken DEF ServerBreaks, Arrived
<1>5. CASE ServerIdleMarker
  BY <1>5, PairTaken DEF ServerIdleMarker, Arrived
<1>6. CASE ServerDiscards
  BY <1>6, PairTaken DEF ServerDiscards, Arrived
<1>7. CASE ServerResets
  BY <1>7, ServerResetsPair
<1> QED
  BY <1>1, <1>2, <1>3, <1>4, <1>5, <1>6, <1>7 DEF ServerStep

\* What the server had sent is still read, or lost as a whole.
LEMMA LosePair ==
  ASSUME IInv, ResetInv, PairInv, Lose
  PROVE  PairInv'
<1>1. /\ ~peer' /\ (s2c' = s2c \/ s2c' = <<>>) /\ c2s' = <<>>
      /\ UNCHANGED <<mu, pc, stage, rerr, alive, srv, req, reply, ran>>
  BY DEF Lose, clientVars, breakVars, serverVars, history
<1>2. At' = At /\ ServerQuiet'
  BY <1>1, Stays DEF ServerQuiet
<1>3. CASE s2c' = s2c
  BY <1>1, <1>2, <1>3 DEF PairInv, NoFlushes, Stages, Requests, Serving, Writing, Quiet, InAnswer, Owned, LastEnds,
       Cancelled, Acked, Skipping, Readable, Executed, Has
<1>4. CASE s2c' = <<>>
  BY <1>1, <1>2, <1>4 DEF PairInv, NoFlushes, Stages, Requests, Serving, Writing, Quiet, InAnswer, Owned, LastEnds,
       Cancelled, Acked, Skipping, Readable, Executed, Has
<1> QED
  BY <1>1, <1>3, <1>4

\* A new session has nothing under way.
LEMMA InitPair == Init => PairInv
BY DEF Init, PairInv, NoFlushes, Stages, Requests, Serving, Writing, Quiet, ServerQuiet, InAnswer, Owned, LastEnds,
       Cancelled, Acked, Skipping, Readable, Executed, Has, At

\* Every step of the session.
LEMMA NextPair ==
  ASSUME Deferrable = {}, "flush" \notin Replies, IInv, ResetInv, ResetInv', PairInv, [Next]_vars
  PROVE  PairInv'
<1>1. CASE \E k \in Calls : CallStep(k)
  BY <1>1, CallStepPair
<1>2. CASE (\E k \in Calls : CancelCtx(k)) \/ UNCHANGED vars
  <2>1. UNCHANGED <<mu, pc, stage, rerr, alive, c2s, s2c, peer, srv, req, reply, ran>>
    BY <1>2 DEF CancelCtx, vars, clientVars, wireVars, serverVars, history
  <2>2. At' = At /\ Stages' /\ stage' # "flush" /\ At' # "flush" /\ PeerAlive'
    BY <2>1, Stays DEF PairInv, Stages, NoFlushes, ResetInv
  <2> QED
    BY <2>1, <2>2, PairWrite
<1>3. CASE \E b \in Breakers : BreakStep(b)
  BY <1>3, BreakStepPair
<1>4. CASE ServerStep
  BY <1>4, ServerStepPair
<1>5. CASE Lose
  BY <1>5, LosePair
<1> QED
  BY <1>1, <1>2, <1>3, <1>4, <1>5 DEF Next, Finished

---------------------------------------------------------------------------
(* The theorems.                                                           *)

\* The invariant of the pairing holds of every behaviour of the session.
THEOREM PairInvariance ==
  ASSUME Deferrable = {}, "flush" \notin Replies
  PROVE  Spec => []PairInv
<1>1. IInv /\ ResetInv /\ ResetInv' /\ PairInv /\ [Next]_vars => PairInv'
  BY NextPair
<1> QED
  BY <1>1, InitPair, Invariance, ResetInvariance, PTL DEF Spec


\* What a call consumes and reports is of its own response.
LEMMA NextReported ==
  ASSUME Deferrable = {}, IInv, PairInv, Reported, [Next]_vars
  PROVE  Reported'
<1> SUFFICES /\ ran \subseteq ran'
             /\ \A k \in Calls : got'[k] \subseteq got[k] \cup {k} /\ (res'[k] = "ok" => res[k] = "ok" \/ k \in ran)
  BY DEF Reported
<1> USE DEF vars, clientVars, breakVars, wireVars, serverVars, history
<1>1. CASE \E k \in Calls : CallStep(k)
  <2> PICK k \in Calls : CallStep(k)
    BY <1>1
  <2>t. got \in [Calls -> SUBSET Calls] /\ res \in [Calls -> Results] /\ answer \in [Calls -> Data \cup {"none"}]
    BY DEF IInv, TypeOK
  <2>s. SUFFICES /\ ran' = ran
                 /\ got' = got \/ \E f \in SUBSET {k} : got' = [got EXCEPT ![k] = @ \cup f]
                 /\ res' = res \/ \E r \in Results :
                                    res' = [res EXCEPT ![k] = r] /\ (r = "ok" => k \in ran \/ res[k] = "ok")
    BY <2>t
  <2>1. CASE LockFails(k) \/ Lock(k) \/ WriteRequest(k) \/ WriteDefers(k) \/ ReadFails(k) \/ ReceiveMarker(k)
    BY <2>1 DEF LockFails, Lock, WriteRequest, WriteDefers, ReadFails, ReceiveMarker, Return, Leave, Results, IInv, TypeOK
  <2>2. CASE ReadMarker(k) \/ SendFlush(k) \/ SendBreakMarker(k) \/ SendReset(k) \/ Drain(k) \/ SkipMarkers(k)
    BY <2>2 DEF ReadMarker, SendFlush, SendBreakMarker, SendReset, Drain, SkipMarkers, Leave, Results
  <2>3. CASE Stop(k) \/ Clear(k)
    BY <2>3, <2>t DEF Stop, Clear, Return, Results
  <2>4. CASE ReadData(k) \/ ReadAborts(k)
    <3> DEFINE p == Head(s2c)
    <3>1. /\ pc[k] \in {"receive", "read"} /\ CanRead /\ Record(k, p) /\ ~IsMarker(p)
          /\ res' = res \/ res' = [res EXCEPT ![k] = "local"] \/ (Complete(k, p) /\ p.last)
      BY <2>4 DEF ReadData, ReadAborts, IsMarker, Leave
    <3>2. mu = k /\ alive /\ s2c # <<>> /\ s2c \in Seq(ToClient)
      BY <3>1, Inside DEF CanRead, IInv, TypeOK
    <3>3. p \in ToClient /\ p = s2c[1] /\ 1 \in DOMAIN s2c
      BY <3>2, Tailed, HeadTailProperties
    <3>4. p.type \in Data
      BY <3>1, <3>3 DEF ToClient, IsMarker
    <3>5. p.from \subseteq {k}
      BY <3>2, <3>3, <3>4 DEF PairInv, Owned
    <3>6. p.type \in Reply => k \in ran
      BY <3>2, <3>3 DEF PairInv, Owned, Executed
    <3> HIDE DEF p
    <3>7. ran' = ran /\ (got' = got \/ \E f \in SUBSET {k} : got' = [got EXCEPT ![k] = @ \cup f])
      BY <3>1, <3>5 DEF Record
    <3>8. res' = res \/ \E r \in {"local", "error", p.type} : res' = [res EXCEPT ![k] = r]
      BY <3>1 DEF Complete, Leave
    <3>9. {"local", "error", p.type} \subseteq Results
      BY <3>4 DEF Results
    <3> QED
      BY <3>6, <3>7, <3>8, <3>9
  <2> QED
    BY <2>1, <2>2, <2>3, <2>4 DEF CallStep
<1>2. CASE ~(\E k \in Calls : CallStep(k))
  BY <1>2 DEF Next, CancelCtx, BreakStep, SwapBreakSent, SendBreak, WatcherExits, ServerStep, ServerReceives,
       ServerExecutes, ServerReplies, ServerBreaks, ServerIdleMarker, ServerDiscards, ServerResets, Lose, Finished
<1> QED
  BY <1>1, <1>2

\* What calls have consumed and reported is their own in every behaviour.
THEOREM ReportedInvariance ==
  ASSUME Deferrable = {}, "flush" \notin Replies
  PROVE  Spec => []Reported
<1>1. Init => Reported
  BY DEF Init, Reported
<1>2. IInv /\ PairInv /\ Reported /\ [Next]_vars => Reported'
  BY NextReported
<1> QED
  BY <1>1, <1>2, Invariance, PairInvariance, PTL DEF Spec

\* Request and response stay paired: what a call consumes as its response was
\* sent for it, however breaks, resets, resends and failures interleave.
THEOREM ResponsesAreOwn ==
  ASSUME Deferrable = {}, "flush" \notin Replies
  PROVE  Spec => []OwnResponse
<1>1. Reported => OwnResponse
  BY DEF Reported, OwnResponse
<1> QED
  BY <1>1, ReportedInvariance, PTL

\* No call leaves a piece of its response to the next one.
THEOREM NothingLeftBehind ==
  ASSUME Deferrable = {}, "flush" \notin Replies
  PROVE  Spec => []DataBelongsToHolder
<1>1. PairInv => DataBelongsToHolder
  BY DEF PairInv, Owned, DataBelongsToHolder
<1> QED
  BY <1>1, PairInvariance, PTL

\* The next call starts with a read buffer that reads.
THEOREM ReadableBetweenCalls ==
  ASSUME Deferrable = {}, "flush" \notin Replies
  PROVE  Spec => []UsableBetweenCalls
<1>1. PairInv => UsableBetweenCalls
  BY DEF PairInv, Readable, UsableBetweenCalls, At
<1> QED
  BY <1>1, PairInvariance, PTL

---------------------------------------------------------------------------
(* The session implements CallService.                                     *)

\* The step of a call that is inside and stays inside is none of a call
\* service's.
LEMMA InsideStutters ==
  ASSUME IInv, NEW k \in Calls, pc[k] \notin {"ready", "done"}, UNCHANGED <<mu, ran>>,
         pc' = pc \/ \E step \in Steps \ {"done"} : Goto(k, step),
         res' = res \/ \E r \in Results : res' = [res EXCEPT ![k] = r]
  PROVE  UNCHANGED Service!vars
<1>1. pc \in [Calls -> Steps] /\ res \in [Calls -> Results]
  BY DEF IInv, TypeOK
<1>2. \A j \in Calls : (pc'[j] = "done" <=> pc[j] = "done") /\ (pc[j] = "done" => res'[j] = res[j])
  BY <1>1 DEF Goto
<1>3. Outcome' = Outcome
  BY <1>2 DEF Outcome
<1> QED
  BY <1>3 DEF Service!vars

\* A call that returns has ended, with what was executed for it.
LEMMA ReturnEnds ==
  ASSUME IInv, Reported, NEW k \in Calls, pc[k] \notin {"ready", "done"},
         NEW r \in Results, Return(k, r), r = "ok" => res[k] = "ok", ran' = ran
  PROVE  Service!End(k)
<1>1. pc \in [Calls -> Steps] /\ res \in [Calls -> Results] /\ mu = k
  BY Inside DEF IInv, TypeOK
<1> DEFINE o == IF r = "ok" THEN "ok" ELSE "failed"
<1>2. Outcome' = [Outcome EXCEPT ![k] = o]
  BY <1>1 DEF Outcome, Return, Goto
<1>3. o \in {"ok", "failed"} /\ (o = "ok" => k \in ran)
  BY DEF Reported
<1>4. mu' = NoCall
  BY DEF Return
<1> QED
  BY <1>1, <1>2, <1>3, <1>4 DEF Service!End

\* Each step of a call begins, refuses or ends it, or shows nothing.
LEMMA CallStepServes ==
  ASSUME Deferrable = {}, IInv, PairInv, Reported, NEW k \in Calls, CallStep(k)
  PROVE  Service!Next \/ UNCHANGED Service!vars
<1>t. pc \in [Calls -> Steps] /\ res \in [Calls -> Results] /\ res[k] \in Results /\ rerr \in {"none", "marker", "closed"}
  BY DEF IInv, TypeOK
<1>1. CASE LockFails(k)
  <2>1. mu = NoCall /\ mu' = mu /\ ran' = ran /\ pc[k] = "ready"
    BY <1>1 DEF LockFails, Unlocked, Return, history
  <2>2. PICK r \in {"closed", "ctx"} : pc' = [pc EXCEPT ![k] = "done"] /\ res' = [res EXCEPT ![k] = r]
    BY <1>1 DEF LockFails, Return, Goto
  <2>3. Outcome' = [Outcome EXCEPT ![k] = "failed"] /\ Outcome[k] = "none"
    BY <1>t, <2>1, <2>2 DEF Outcome
  <2> QED
    BY <2>1, <2>3 DEF Service!Next, Service!Refuse
<1>2. CASE Lock(k)
  <2>1. mu = NoCall /\ mu' = k /\ ran' = ran /\ pc[k] = "ready" /\ pc' = [pc EXCEPT ![k] = "write"] /\ res' = res
    BY <1>2 DEF Lock, Unlocked, Goto, history
  <2>2. Outcome' = Outcome /\ Outcome[k] = "none"
    BY <1>t, <2>1 DEF Outcome
  <2> QED
    BY <2>1, <2>2 DEF Service!Next, Service!Begin
<1>3. CASE WriteRequest(k) \/ WriteDefers(k)
  <2>1. pc[k] = "write" /\ UNCHANGED <<mu, ran>> /\ (\E step \in {"write", "receive", "stop"} : Goto(k, step))
        /\ (res' = res \/ \E r \in Results : res' = [res EXCEPT ![k] = r])
    BY <1>3 DEF WriteRequest, WriteDefers, Leave, Results, history
  <2> QED
    BY <2>1, InsideStutters DEF Steps
<1>4. CASE ReadFails(k)
  <2>1. pc[k] \in {"receive", "read", "drain", "skip"} /\ UNCHANGED <<mu, ran>> /\ (\E step \in {"clear", "stop"} : Goto(k, step))
        /\ (res' = res \/ \E r \in Results : res' = [res EXCEPT ![k] = r])
    BY <1>4, <1>t DEF ReadFails, Leave, Results, history
  <2> QED
    BY <2>1, InsideStutters DEF Steps
<1>5. CASE ReceiveMarker(k) \/ ReadMarker(k)
  <2>1. pc[k] \in {"receive", "read"} /\ UNCHANGED <<mu, ran>>
        /\ (\E step \in {"reset", "break", "stop", "clear"} : Goto(k, step))
        /\ (res' = res \/ \E r \in Results : res' = [res EXCEPT ![k] = r])
    BY <1>5 DEF ReceiveMarker, ReadMarker, Leave, Results, history
  <2> QED
    BY <2>1, InsideStutters DEF Steps
<1>6. CASE ReadData(k)
  <2>1. pc[k] \in {"receive", "read"} /\ UNCHANGED <<mu, ran>> /\ CanRead /\ ~IsMarker(Head(s2c))
    BY <1>6 DEF ReadData, Record
  <2>2. Head(s2c).type \in Results
    <3>1. Head(s2c) \in ToClient
      BY <2>1, HeadTailProperties DEF CanRead, IInv, TypeOK
    <3> QED
      BY <2>1, <3>1 DEF ToClient, IsMarker, Results
  <2>3. /\ \E step \in {"read", "write", "flush", "stop", "clear"} : Goto(k, step)
        /\ res' = res \/ \E r \in {"error", Head(s2c).type} : res' = [res EXCEPT ![k] = r]
    BY <1>6 DEF ReadData, Complete, Leave
  <2>4. "error" \in Results
    BY DEF Results
  <2> QED
    BY <2>1, <2>2, <2>3, <2>4, InsideStutters DEF Steps
<1>7. CASE ReadAborts(k)
  <2>1. pc[k] \in {"receive", "read"} /\ UNCHANGED <<mu, ran>> /\ (\E step \in {"break", "stop", "clear"} : Goto(k, step))
        /\ (res' = res \/ \E r \in Results : res' = [res EXCEPT ![k] = r])
    BY <1>7 DEF ReadAborts, Record, Leave, Results
  <2> QED
    BY <2>1, InsideStutters DEF Steps
<1>8. CASE SendFlush(k) \/ SendBreakMarker(k) \/ SendReset(k)
  <2>1. pc[k] \in {"flush", "break", "reset"} /\ UNCHANGED <<mu, ran>>
        /\ (\E step \in {"receive", "reset", "drain", "skip", "stop"} : Goto(k, step))
        /\ (res' = res \/ \E r \in Results : res' = [res EXCEPT ![k] = r])
    BY <1>8 DEF SendFlush, SendBreakMarker, SendReset, Leave, Results, history
  <2> QED
    BY <2>1, InsideStutters DEF Steps
<1>9. CASE Drain(k) \/ SkipMarkers(k)
  <2>1. pc[k] \in {"drain", "skip"} /\ UNCHANGED <<mu, ran, res>>
        /\ (pc' = pc \/ \E step \in {"drain", "skip", "stop", "read"} : Goto(k, step))
    BY <1>9 DEF Drain, SkipMarkers, history
  <2> QED
    BY <2>1, InsideStutters DEF Steps
<1>10. CASE Stop(k)
  <2>1. pc[k] = "stop" /\ ran' = ran
    BY <1>10 DEF Stop, history
  <2>2. CASE Return(k, res[k])
    BY <1>t, <2>1, <2>2, ReturnEnds DEF Service!Next
  <2>3. CASE UNCHANGED <<mu, res>> /\ \E step \in {"receive", "clear"} : Goto(k, step)
    BY <2>1, <2>3, InsideStutters DEF Steps
  <2> QED
    BY <1>10, <2>2, <2>3 DEF Stop
<1>11. CASE Clear(k)
  <2>1. pc[k] = "clear" /\ ran' = ran /\ \E r \in {"ctx", res[k]} : Return(k, r)
    BY <1>11 DEF Clear, history
  <2>2. "ctx" \in Results
    BY DEF Results
  <2> QED
    BY <1>t, <2>1, <2>2, ReturnEnds DEF Service!Next
<1> QED
  BY <1>1, <1>2, <1>3, <1>4, <1>5, <1>6, <1>7, <1>8, <1>9, <1>10, <1>11 DEF CallStep

\* The server executes the call that is being served, and nothing else of the
\* other steps shows.
LEMMA NextServes ==
  ASSUME Deferrable = {}, IInv, ResetInv, PairInv, Reported, [Next]_vars
  PROVE  Service!Next \/ UNCHANGED Service!vars
<1>1. CASE \E k \in Calls : CallStep(k)
  BY <1>1, CallStepServes
<1>2. CASE ServerExecutes
  <2>1. peer /\ srv = "executing" /\ ran' = ran \cup req /\ UNCHANGED <<mu, pc, res>>
    BY <1>2 DEF ServerExecutes, clientVars
  <2>2. req = {mu} /\ mu \in Calls
    BY <2>1 DEF PairInv, Serving, IInv, TypeOK
  <2>3. Outcome' = Outcome
    BY <2>1 DEF Outcome
  <2>4. Service!Execute(mu)
    BY <2>1, <2>2, <2>3 DEF Service!Execute
  <2> QED
    BY <2>2, <2>4 DEF Service!Next
<1>3. CASE ~ServerExecutes /\ ~(\E k \in Calls : CallStep(k))
  <2>1. UNCHANGED <<mu, pc, res, ran>>
    BY <1>3 DEF Next, CancelCtx, BreakStep, SwapBreakSent, SendBreak, WatcherExits, ServerStep, ServerReceives,
         ServerReplies, ServerBreaks, ServerIdleMarker, ServerDiscards, ServerResets, Lose, Finished,
         vars, clientVars, history
  <2> QED
    BY <2>1 DEF Outcome, Service!vars
<1> QED
  BY <1>1, <1>2, <1>3

\* Whatever happens on the wire, the calls are served one at a time, the
\* server works only for the call being served, and a call that reports
\* success has been executed.
THEOREM SessionServes ==
  ASSUME Deferrable = {}, "flush" \notin Replies
  PROVE  Spec => Implements
<1>1. Init => Service!Init
  BY DEF Init, Service!Init, Outcome
<1>2. IInv /\ ResetInv /\ PairInv /\ Reported /\ [Next]_vars => [Service!Next]_(Service!vars)
  BY NextServes
<1> QED
  BY <1>1, <1>2, Invariance, ResetInvariance, PairInvariance, ReportedInvariance, PTL
     DEF Spec, Implements, Service!Spec

---------------------------------------------------------------------------
(* One break fails at most one call, with any number of calls that defer,  *)
(* abort, resend or flush, as long as breaks are markers in the stream     *)
(* (OOB = FALSE).  First where the error response of a reset is: behind    *)
(* the reset marker while the call drains, and the next packet after it.   *)

\* The holder has no part in a handshake.
Resting == At \in {"out", "write", "receive", "flush", "stop", "clear"}

\* No urgent byte stands for a break.
InBand == OOB = FALSE => ~urgent

\* An error response is on its way only to a call that has reset.
Announced ==
  alive => \A i \in DOMAIN s2c : s2c[i].type = "cancelled" =>
    IF At = "drain" THEN i - 1 \in DOMAIN s2c /\ s2c[i - 1].type = "reset" ELSE i = 1 /\ At \in {"skip", "read"}

\* It is all that a call which has drained can read.
Behind == alive /\ At = "skip" => IF s2c = <<>> THEN ~peer ELSE s2c[1].type = "cancelled"

\* Its read buffer is not in error when it gets there.
Fresh == alive /\ At \in {"skip", "read"} => rerr = "none"

\* Only a failing call sends a break marker, and its reset marker next.
OwnBreaks ==
  /\ alive /\ At = "break" => stage = "fail"
  /\ peer => \A i \in DOMAIN c2s : c2s[i].type = "break" =>
       /\ stage = "fail" /\ At \in {"reset", "drain"}
       /\ At = "drain" => \E j \in DOMAIN c2s : i < j /\ c2s[j].type = "reset"

VictimInv == InBand /\ Announced /\ Acked /\ Behind /\ Fresh /\ OwnBreaks

\* A step of a call that has no part in a handshake.
LEMMA VictimRests ==
  ASSUME IInv, ResetInv, VictimInv, UNCHANGED <<s2c, peer, urgent>>, peer => alive', alive' => alive,
         alive' => Resting /\ Resting',
         c2s' = c2s \/ \E p \in ToServer : p.type # "break" /\ c2s' = Append(c2s, p)
  PROVE  VictimInv'
<1>1. peer => \A i \in DOMAIN c2s : c2s[i].type # "break"
  BY DEF VictimInv, OwnBreaks, Resting
<1>2. peer => \A i \in DOMAIN c2s' : c2s'[i].type # "break"
  <2>1. CASE c2s' = c2s
    BY <1>1, <2>1
  <2>2. CASE \E p \in ToServer : p.type # "break" /\ c2s' = Append(c2s, p)
    <3>1. PICK p \in ToServer : p.type # "break" /\ c2s' = Append(c2s, p)
      BY <2>2
    <3>2. c2s \in Seq(ToServer)
      BY DEF IInv, TypeOK
    <3> QED
      BY <1>1, <3>1, <3>2, Appended
  <2> QED
    BY <2>1, <2>2
<1>3. OwnBreaks'
  BY <1>2 DEF OwnBreaks, Resting
<1>4. Announced' /\ Behind' /\ Fresh'
  BY DEF VictimInv, Announced, Behind, Fresh, Resting
<1>5. InBand' /\ Acked'
  BY DEF VictimInv, InBand, Acked
<1> QED
  BY <1>3, <1>4, <1>5 DEF VictimInv

\* A break that is sent, anywhere in a handshake.
LEMMA VictimBreaks ==
  ASSUME IInv, ResetInv, VictimInv, UNCHANGED <<mu, pc, stage, rerr, s2c, peer>>, peer => alive', alive' => alive,
         OOB = FALSE => urgent' = urgent,
         c2s' = c2s \/ c2s' = Append(c2s, Mark("interrupt"))
  PROVE  VictimInv'
<1>1. At' = At
  BY Stays
<1>2. OwnBreaks'
  <2>1. CASE c2s' = c2s
    BY <1>1, <2>1 DEF VictimInv, OwnBreaks
  <2>2. CASE c2s' = Append(c2s, Mark("interrupt"))
    <3>1. Mark("interrupt") \in ToServer
      BY PacketTypes
    <3>2. c2s \in Seq(ToServer) /\ Mark("interrupt").type = "interrupt"
      BY DEF IInv, TypeOK, Mark
    <3>3. /\ DOMAIN c2s = 1 .. Len(c2s) /\ Len(c2s) \in Nat
          /\ DOMAIN c2s' = 1 .. Len(c2s) + 1
          /\ \A i \in DOMAIN c2s : c2s'[i] = c2s[i]
          /\ c2s'[Len(c2s) + 1].type = "interrupt"
      BY <2>2, <3>1, <3>2, Appended
    <3>4. \A i \in DOMAIN c2s' : c2s'[i].type = "break" => i \in DOMAIN c2s /\ c2s[i].type = "break"
      BY <3>3
    <3>5. \A j \in DOMAIN c2s : j \in DOMAIN c2s' /\ c2s'[j] = c2s[j]
      BY <3>3
    <3> QED
      BY <1>1, <3>4, <3>5 DEF VictimInv, OwnBreaks
  <2> QED
    BY <2>1, <2>2
<1>3. Announced' /\ Behind' /\ Fresh' /\ InBand' /\ Acked'
  BY <1>1 DEF VictimInv, Announced, Behind, Fresh, InBand, Acked
<1> QED
  BY <1>2, <1>3 DEF VictimInv

\* A call takes a packet that is a marker, or data, where it may not drain.
LEMMA VictimTakes ==
  ASSUME IInv, ResetInv, VictimInv, UNCHANGED <<c2s, peer, urgent>>, alive,
         s2c # <<>>, s2c' = Tail(s2c), At \in {"receive", "read"},
         At' \notin {"drain", "skip"}, At' = "break" => stage' = "fail", At' = "read" => rerr' = "none",
         peer => alive'
  PROVE  VictimInv' /\ ~Has(s2c', {"cancelled"})
<1>1. /\ 1 \in DOMAIN s2c /\ DOMAIN s2c = 1 .. Len(s2c) /\ Len(s2c) \in Nat \ {0}
      /\ DOMAIN s2c' = 1 .. Len(s2c) - 1
      /\ \A i \in DOMAIN s2c' : s2c'[i] = s2c[i + 1] /\ i + 1 \in DOMAIN s2c
  BY Shifted DEF IInv, TypeOK
<1>2. \A i \in DOMAIN s2c : s2c[i].type = "cancelled" => i = 1
  BY DEF VictimInv, Announced
<1>3. \A i \in DOMAIN s2c : s2c[i].type # "reset"
  BY DEF ResetInv, AcksFollow
<1>4. \A i \in DOMAIN s2c' : s2c'[i].type \notin {"cancelled", "reset"}
  BY <1>1, <1>2, <1>3
<1>5. peer => \A i \in DOMAIN c2s : c2s[i].type # "break"
  BY DEF VictimInv, OwnBreaks
<1> QED
  BY <1>4, <1>5 DEF VictimInv, InBand, Announced, Acked, Behind, Fresh, OwnBreaks, Has

\* The break marker of a failing call.
LEMMA VictimBreakMarker ==
  ASSUME IInv, ResetInv, VictimInv, NEW k \in Calls, SendBreakMarker(k)
  PROVE  VictimInv'
<1>1. pc[k] = "break" /\ mu' = mu /\ UNCHANGED <<stage, s2c, peer, urgent>>
  BY DEF SendBreakMarker
<1>2. At = "break" /\ At' = IF alive THEN "reset" ELSE "stop"
  BY <1>1, Moves DEF SendBreakMarker, Steps
<1>3. CASE ~alive
  <2>1. ~alive' /\ ~peer'
    BY <1>1, <1>3 DEF SendBreakMarker, ResetInv, PeerAlive
  <2> QED
    BY <1>1, <2>1 DEF VictimInv, InBand, Announced, Acked, Behind, Fresh, OwnBreaks
<1>4. CASE alive
  <2>1. (peer => alive' /\ c2s' = Append(c2s, Mark("break"))) /\ (alive' => alive)
    BY <1>4, Sent, PacketTypes DEF SendBreakMarker
  <2>2. At' = "reset" /\ stage = "fail"
    BY <1>2, <1>4 DEF VictimInv, OwnBreaks
  <2>3. OwnBreaks'
    BY <1>1, <2>2 DEF OwnBreaks
  <2> QED
    BY <1>1, <1>2, <2>1, <2>2, <2>3 DEF VictimInv, InBand, Announced, Acked, Behind, Fresh
<1> QED
  BY <1>3, <1>4

\* The reset marker of a call.
LEMMA VictimReset ==
  ASSUME IInv, ResetInv, VictimInv, NEW k \in Calls, SendReset(k)
  PROVE  VictimInv'
<1>1. pc[k] = "reset" /\ mu' = mu /\ rerr' = "none" /\ Send(Mark("reset")) /\ UNCHANGED <<stage, cur, s2c, peer, urgent>>
  BY DEF SendReset
<1>2. At = "reset" /\ At' = IF cur = "reset" THEN "skip" ELSE "drain"
  BY <1>1, Moves DEF SendReset, Steps
<1>3. (peer => alive' /\ c2s' = Append(c2s, Mark("reset"))) /\ (alive' => alive)
  BY <1>1, Sent, PacketTypes
<1>4. alive' => At' = "drain"
  BY <1>2, <1>3 DEF ResetInv, Prepared
<1>5. alive => \A i \in DOMAIN s2c : s2c[i].type # "cancelled"
  BY <1>2 DEF VictimInv, Announced
<1>6. OwnBreaks'
  <2> SUFFICES ASSUME peer, NEW i \in DOMAIN c2s', c2s'[i].type = "break"
               PROVE  /\ stage' = "fail" /\ At' \in {"reset", "drain"}
                      /\ \E j \in DOMAIN c2s' : i < j /\ c2s'[j].type = "reset"
    BY <1>1, <1>3, <1>4 DEF OwnBreaks
  <2>1. Mark("reset") \in ToServer
    BY PacketTypes
  <2>2. c2s \in Seq(ToServer) /\ Mark("reset").type = "reset"
    BY DEF IInv, TypeOK, Mark
  <2>3. /\ DOMAIN c2s = 1 .. Len(c2s) /\ Len(c2s) \in Nat
        /\ DOMAIN c2s' = 1 .. Len(c2s) + 1
        /\ \A j \in DOMAIN c2s : c2s'[j] = c2s[j]
        /\ c2s'[Len(c2s) + 1].type = "reset"
    BY <1>3, <2>1, <2>2, Appended
  <2>4. i \in DOMAIN c2s /\ c2s[i].type = "break" /\ i < Len(c2s) + 1 /\ Len(c2s) + 1 \in DOMAIN c2s'
    BY <2>3
  <2>5. stage = "fail"
    BY <2>4 DEF VictimInv, OwnBreaks
  <2> QED
    BY <1>1, <1>3, <1>4, <2>3, <2>4, <2>5
<1> QED
  BY <1>1, <1>3, <1>4, <1>5, <1>6 DEF VictimInv, InBand, Announced, Acked, Behind, Fresh

\* Draining, up to the reset marker.
LEMMA VictimDrain ==
  ASSUME IInv, ResetInv, VictimInv, NEW k \in Calls, Drain(k)
  PROVE  VictimInv'
<1>1. /\ pc[k] = "drain" /\ CanRead /\ mu' = mu /\ s2c' = Tail(s2c)
      /\ UNCHANGED <<stage, rerr, alive, c2s, peer, urgent>>
  BY DEF Drain, Consume
<1>2. At = "drain" /\ At' = IF Head(s2c).type = "reset" THEN "skip" ELSE "drain"
  BY <1>1, Moves DEF Drain, Steps
<1>3. alive /\ s2c # <<>> /\ rerr = "none"
  BY <1>1 DEF CanRead
<1>4. /\ 1 \in DOMAIN s2c /\ Head(s2c) = s2c[1] /\ DOMAIN s2c = 1 .. Len(s2c) /\ Len(s2c) \in Nat \ {0}
      /\ DOMAIN s2c' = 1 .. Len(s2c) - 1
      /\ \A i \in DOMAIN s2c' : s2c'[i] = s2c[i + 1] /\ i + 1 \in DOMAIN s2c
      /\ \A i \in DOMAIN s2c : i # 1 => i - 1 \in DOMAIN s2c' /\ s2c'[i - 1] = s2c[i]
  BY <1>1, <1>3, Shifted DEF IInv, TypeOK
<1>5. \A i \in DOMAIN s2c : s2c[i].type = "reset" => i + 1 \in DOMAIN s2c /\ s2c[i + 1].type = "cancelled"
  BY <1>3 DEF VictimInv, Acked
<1>6. \A i \in DOMAIN s2c : s2c[i].type = "cancelled" => i - 1 \in DOMAIN s2c /\ s2c[i - 1].type = "reset"
  BY <1>2, <1>3 DEF VictimInv, Announced
<1>7. CASE Head(s2c).type = "reset"
  <2>1. \A j \in DOMAIN s2c : s2c[j].type = "reset" => j = 1
    BY <1>3, <1>4, <1>7 DEF ResetInv, AcksFollow
  <2>2. s2c'[1].type = "cancelled" /\ 1 \in DOMAIN s2c'
    <3>1. 1 + 1 \in DOMAIN s2c /\ s2c[1 + 1].type = "cancelled"
      BY <1>4, <1>5, <1>7
    <3>2. 1 \in DOMAIN s2c'
      BY <1>4, <3>1
    <3> QED
      BY <1>4, <3>1, <3>2
  <2>3. \A i \in DOMAIN s2c' : s2c'[i].type = "cancelled" => i = 1
    <3> SUFFICES ASSUME NEW i \in DOMAIN s2c', s2c'[i].type = "cancelled"
                 PROVE  i = 1
      OBVIOUS
    <3>1. i + 1 \in DOMAIN s2c /\ s2c[i + 1].type = "cancelled" /\ i \in Nat
      BY <1>4
    <3>2. (i + 1) - 1 \in DOMAIN s2c /\ s2c[(i + 1) - 1].type = "reset"
      BY <1>6, <3>1
    <3> QED
      BY <2>1, <3>1, <3>2
  <2>4. \A i \in DOMAIN s2c' : s2c'[i].type # "reset"
    BY <1>4, <2>1
  <2>5. s2c' # <<>>
    BY <2>2
  <2>6. peer => \A i \in DOMAIN c2s : c2s[i].type # "break"
    <3>1. peer => \A i \in DOMAIN c2s : c2s[i].type # "reset"
      BY <1>4, <1>7 DEF ResetInv, ResetsFollow, Has
    <3> QED
      BY <1>2, <3>1 DEF VictimInv, OwnBreaks
  <2> QED
    BY <1>1, <1>2, <1>3, <1>7, <2>2, <2>3, <2>4, <2>5, <2>6
       DEF VictimInv, InBand, Announced, Acked, Behind, Fresh, OwnBreaks
<1>8. CASE Head(s2c).type # "reset"
  <2>1. Announced'
    <3> SUFFICES ASSUME NEW i \in DOMAIN s2c', s2c'[i].type = "cancelled"
                 PROVE  i - 1 \in DOMAIN s2c' /\ s2c'[i - 1].type = "reset"
      BY <1>2, <1>8 DEF Announced
    <3>1. i \in DOMAIN s2c /\ s2c[i].type = "reset" /\ i # 1
      BY <1>4, <1>6, <1>8
    <3> QED
      BY <1>4, <3>1
  <2>2. Acked'
    <3> SUFFICES ASSUME NEW i \in DOMAIN s2c', s2c'[i].type = "reset"
                 PROVE  i + 1 \in DOMAIN s2c' /\ s2c'[i + 1].type = "cancelled"
      BY DEF Acked
    <3>1. i + 1 \in DOMAIN s2c /\ s2c[i + 1].type = "reset" /\ i \in Nat
      BY <1>4
    <3>2. (i + 1) + 1 \in DOMAIN s2c /\ s2c[(i + 1) + 1].type = "cancelled"
      BY <1>5, <3>1
    <3>3. i + 1 \in DOMAIN s2c' /\ s2c'[i + 1] = s2c[(i + 1) + 1]
      BY <1>4, <3>1, <3>2
    <3> QED
      BY <3>2, <3>3
  <2> QED
    BY <1>1, <1>2, <1>8, <2>1, <2>2 DEF VictimInv, InBand, Behind, Fresh, OwnBreaks
<1> QED
  BY <1>7, <1>8

\* The packet behind the reset marker.
LEMMA VictimSkips ==
  ASSUME IInv, ResetInv, VictimInv, NEW k \in Calls, SkipMarkers(k)
  PROVE  /\ VictimInv' /\ alive /\ At = "skip" /\ s2c # <<>> /\ Head(s2c).type = "cancelled"
         /\ IF stage = "fail" THEN s2c' = Tail(s2c) /\ At' = "stop" /\ ~Has(s2c', {"cancelled"})
                              ELSE s2c' = s2c /\ At' = "read"
<1>1. pc[k] = "skip" /\ CanRead /\ mu' = mu /\ UNCHANGED <<stage, rerr, alive, c2s, peer, urgent>>
  BY DEF SkipMarkers
<1>2. At = "skip" /\ alive /\ s2c # <<>> /\ rerr = "none"
  BY <1>1, Inside DEF CanRead
<1>3. /\ 1 \in DOMAIN s2c /\ Head(s2c) = s2c[1] /\ DOMAIN s2c = 1 .. Len(s2c) /\ Len(s2c) \in Nat \ {0}
      /\ DOMAIN Tail(s2c) = 1 .. Len(s2c) - 1
      /\ \A i \in DOMAIN Tail(s2c) : Tail(s2c)[i] = s2c[i + 1] /\ i + 1 \in DOMAIN s2c
  BY <1>2, Shifted DEF IInv, TypeOK
<1>4. Head(s2c).type = "cancelled" /\ ~IsMarker(Head(s2c))
  BY <1>2, <1>3 DEF VictimInv, Behind, IsMarker
<1>5. \A i \in DOMAIN s2c : s2c[i].type = "cancelled" => i = 1
  BY <1>2 DEF VictimInv, Announced
<1>6. \A i \in DOMAIN s2c : s2c[i].type # "reset"
  BY <1>2 DEF ResetInv, AcksFollow
<1>7. peer => \A i \in DOMAIN c2s : c2s[i].type # "break"
  BY <1>2 DEF VictimInv, OwnBreaks
<1>8. CASE stage = "fail"
  <2>1. s2c' = Tail(s2c) /\ Goto(k, "stop")
    BY <1>4, <1>8 DEF SkipMarkers, Consume
  <2>2. At' = "stop"
    BY <1>1, <2>1, Moves DEF Steps
  <2>3. \A i \in DOMAIN s2c' : s2c'[i].type \notin {"cancelled", "reset"}
    BY <1>3, <1>5, <1>6, <2>1
  <2> QED
    BY <1>1, <1>2, <1>4, <1>7, <1>8, <2>1, <2>2, <2>3
       DEF VictimInv, InBand, Announced, Acked, Behind, Fresh, OwnBreaks, Has
<1>9. CASE stage # "fail"
  <2>1. s2c' = s2c /\ Goto(k, "read")
    BY <1>4, <1>9 DEF SkipMarkers
  <2>2. At' = "read"
    BY <1>1, <2>1, Moves DEF Steps
  <2> QED
    BY <1>1, <1>2, <1>4, <1>5, <1>6, <1>7, <1>9, <2>1, <2>2
       DEF VictimInv, InBand, Announced, Acked, Behind, Fresh, OwnBreaks
<1> QED
  BY <1>8, <1>9

\* A read that fails: on a session that goes on, by a call that expects a
\* response.
LEMMA VictimFails ==
  ASSUME IInv, ResetInv, VictimInv, NEW k \in Calls, ReadFails(k)
  PROVE  VictimInv'
<1>1. /\ pc[k] \in {"receive", "read", "drain", "skip"} /\ mu' = mu
      /\ \E step \in {"clear", "stop"} : Goto(k, step)
      /\ UNCHANGED <<s2c, peer, urgent, c2s>>
  BY DEF ReadFails, Leave
<1>2. At \in {"receive", "read", "drain", "skip"} /\ At = pc[k] /\ At' \in {"clear", "stop"}
  BY <1>1, Moves DEF Steps
<1>3. CASE rerr # "none"
  <2>1. alive' = alive
    BY <1>3 DEF ReadFails
  <2>2. alive => At = "receive"
    BY <1>2, <1>3 DEF VictimInv, Fresh, ResetInv, Prepared
  <2> QED
    BY <1>1, <1>2, <2>1, <2>2, VictimRests DEF Resting, ResetInv, PeerAlive
<1>4. CASE rerr = "none"
  <2>1. ~alive' /\ ~peer
    BY <1>4 DEF ReadFails, ResetInv, PeerAlive
  <2> QED
    BY <1>1, <2>1 DEF VictimInv, InBand, Announced, Acked, Behind, Fresh, OwnBreaks
<1> QED
  BY <1>3, <1>4

\* The server takes a packet, or sends one that is no part of a reset.
LEMMA VictimServes ==
  ASSUME IInv, ResetInv, VictimInv, UNCHANGED <<mu, pc, stage, rerr, alive>>, peer,
         OOB = FALSE => ~urgent',
         c2s' = c2s \/ (c2s # <<>> /\ c2s' = Tail(c2s)),
         s2c' = s2c \/ \E p \in ToClient : p.type \notin {"cancelled", "reset"} /\ s2c' = Append(s2c, p)
  PROVE  VictimInv'
<1>1. At' = At /\ alive /\ alive'
  BY Stays DEF ResetInv, PeerAlive
<1>2. OwnBreaks'
  <2>1. CASE c2s' = c2s
    BY <1>1, <2>1 DEF VictimInv, OwnBreaks
  <2>2. CASE c2s # <<>> /\ c2s' = Tail(c2s)
    <3>1. /\ DOMAIN c2s = 1 .. Len(c2s) /\ Len(c2s) \in Nat \ {0}
          /\ DOMAIN c2s' = 1 .. Len(c2s) - 1
          /\ \A i \in DOMAIN c2s' : c2s'[i] = c2s[i + 1] /\ i + 1 \in DOMAIN c2s
          /\ \A i \in DOMAIN c2s : i # 1 => i - 1 \in DOMAIN c2s' /\ c2s'[i - 1] = c2s[i]
      BY <2>2, Shifted DEF IInv, TypeOK
    <3> SUFFICES ASSUME NEW i \in DOMAIN c2s', c2s'[i].type = "break"
                 PROVE  /\ stage = "fail" /\ At \in {"reset", "drain"}
                        /\ At = "drain" => \E j \in DOMAIN c2s' : i < j /\ c2s'[j].type = "reset"
      BY <1>1 DEF VictimInv, OwnBreaks
    <3>2. i + 1 \in DOMAIN c2s /\ c2s[i + 1].type = "break" /\ i \in Nat
      BY <3>1
    <3>3. /\ stage = "fail" /\ At \in {"reset", "drain"}
          /\ At = "drain" => \E j \in DOMAIN c2s : i + 1 < j /\ c2s[j].type = "reset"
      BY <3>2 DEF VictimInv, OwnBreaks
    <3>4. ASSUME At = "drain"
          PROVE  \E j \in DOMAIN c2s' : i < j /\ c2s'[j].type = "reset"
      <4>1. PICK j \in DOMAIN c2s : i + 1 < j /\ c2s[j].type = "reset"
        BY <3>3, <3>4
      <4>2. j - 1 \in DOMAIN c2s' /\ c2s'[j - 1].type = "reset" /\ i < j - 1
        BY <3>1, <3>2, <4>1
      <4> QED
        BY <4>2
    <3> QED
      BY <3>3, <3>4
  <2> QED
    BY <2>1, <2>2
<1>3. Announced' /\ Acked' /\ Behind'
  <2>1. CASE s2c' = s2c
    <3>1. Announced' /\ Acked'
      BY <1>1, <2>1 DEF VictimInv, Announced, Acked
    <3>2. Behind'
      BY <1>1, <2>1 DEF VictimInv, Behind
    <3> QED
      BY <3>1, <3>2
  <2>2. CASE \E p \in ToClient : p.type \notin {"cancelled", "reset"} /\ s2c' = Append(s2c, p)
    <3>1. PICK p \in ToClient : p.type \notin {"cancelled", "reset"} /\ s2c' = Append(s2c, p)
      BY <2>2
    <3>2. s2c \in Seq(ToClient)
      BY DEF IInv, TypeOK
    <3>3. /\ DOMAIN s2c = 1 .. Len(s2c) /\ Len(s2c) \in Nat
          /\ DOMAIN s2c' = 1 .. Len(s2c) + 1
          /\ \A i \in DOMAIN s2c : s2c'[i] = s2c[i]
          /\ s2c'[Len(s2c) + 1] = p
      BY <3>1, <3>2, Appended
    <3>4. /\ \A i \in DOMAIN s2c' : s2c'[i].type \in {"cancelled", "reset"} => i \in DOMAIN s2c /\ s2c'[i] = s2c[i]
          /\ \A i \in DOMAIN s2c : i \in DOMAIN s2c' /\ s2c'[i] = s2c[i]
      <4>1. \A i \in DOMAIN s2c : i \in DOMAIN s2c' /\ s2c'[i] = s2c[i]
        BY <3>3
      <4>2. \A i \in DOMAIN s2c' : i \in DOMAIN s2c \/ s2c'[i] = p
        BY <3>3
      <4> QED
        BY <3>1, <4>1, <4>2
    <3>5. Announced'
      BY <1>1, <3>4 DEF VictimInv, Announced
    <3>6. Acked'
      BY <1>1, <3>4 DEF VictimInv, Acked
    <3>7. Behind'
      <4>1. At = "skip" => s2c # <<>> /\ s2c[1].type = "cancelled"
        BY <1>1 DEF VictimInv, Behind
      <4>2. s2c # <<>> => 1 \in DOMAIN s2c
        BY <3>2, <3>3
      <4>3. s2c # <<>> => s2c' # <<>>
        BY <3>4, <4>2
      <4> QED
        BY <1>1, <3>4, <4>1, <4>2, <4>3 DEF Behind
    <3> QED
      BY <3>5, <3>6, <3>7
  <2> QED
    BY <2>1, <2>2
<1>4. InBand' /\ Fresh'
  BY <1>1 DEF VictimInv, InBand, Fresh
<1> QED
  BY <1>2, <1>3, <1>4 DEF VictimInv

\* The server has discarded up to a reset marker: it comes from the holder,
\* which has no other reset under way.
LEMMA ResetTakenFirst ==
  ASSUME IInv, ResetInv, VictimInv, ServerResets
  PROVE  /\ alive /\ peer /\ At = "drain" /\ c2s # <<>> /\ c2s' = Tail(c2s)
         /\ \A i \in DOMAIN s2c : s2c[i].type \notin {"cancelled", "reset"}
         /\ \A i \in DOMAIN c2s' : c2s'[i].type # "break"
<1>1. peer /\ c2s # <<>> /\ Head(c2s).type = "reset" /\ c2s' = Tail(c2s)
  BY DEF ServerResets, Arrived
<1>2. /\ 1 \in DOMAIN c2s /\ Head(c2s) = c2s[1] /\ DOMAIN c2s = 1 .. Len(c2s) /\ Len(c2s) \in Nat \ {0}
      /\ DOMAIN c2s' = 1 .. Len(c2s) - 1
      /\ \A i \in DOMAIN c2s' : c2s'[i] = c2s[i + 1] /\ i + 1 \in DOMAIN c2s
  BY <1>1, Shifted DEF IInv, TypeOK
<1>3. At = "drain" /\ ~Has(s2c, {"reset"}) /\ \A j \in DOMAIN c2s : c2s[j].type = "reset" => j = 1
  BY <1>1, <1>2 DEF ResetInv, ResetsFollow
<1>4. alive
  BY <1>1 DEF ResetInv, PeerAlive
<1>5. \A i \in DOMAIN s2c : s2c[i].type \notin {"cancelled", "reset"}
  BY <1>3, <1>4 DEF VictimInv, Announced, Has
<1>6. ASSUME NEW i \in DOMAIN c2s', c2s'[i].type = "break"
      PROVE  FALSE
  <2>1. i + 1 \in DOMAIN c2s /\ c2s[i + 1].type = "break" /\ i \in Nat
    BY <1>2, <1>6
  <2>2. PICK j \in DOMAIN c2s : i + 1 < j /\ c2s[j].type = "reset"
    BY <1>1, <1>3, <2>1 DEF VictimInv, OwnBreaks
  <2> QED
    BY <1>2, <1>3, <2>1, <2>2
<1> QED
  BY <1>1, <1>3, <1>4, <1>5, <1>6

\* It answers with its own, and the error response behind that.
LEMMA VictimResets ==
  ASSUME IInv, ResetInv, VictimInv, ServerResets
  PROVE  VictimInv'
<1> DEFINE e == [type |-> "cancelled", from |-> req, last |-> TRUE]
<1>1. /\ s2c' = s2c \o <<Ack("reset"), e>> /\ c2s' = Tail(c2s)
      /\ UNCHANGED <<mu, pc, stage, rerr, alive, urgent, peer>>
  BY DEF ServerResets, clientVars
<1>2. /\ alive /\ peer /\ At = "drain" /\ At' = At
      /\ \A i \in DOMAIN s2c : s2c[i].type \notin {"cancelled", "reset"}
      /\ \A i \in DOMAIN c2s' : c2s'[i].type # "break"
  BY <1>1, ResetTakenFirst, Stays
<1>3. Ack("reset") \in ToClient /\ Ack("reset").type = "reset"
  BY DEF Ack, ToClient
<1>4. e \in ToClient /\ e.type = "cancelled"
  BY DEF IInv, TypeOK, ToClient
<1> HIDE DEF e
<1>5. s2c \in Seq(ToClient)
  BY DEF IInv, TypeOK
<1>6. /\ DOMAIN s2c = 1 .. Len(s2c) /\ Len(s2c) \in Nat
      /\ DOMAIN s2c' = 1 .. Len(s2c) + 2
      /\ \A i \in DOMAIN s2c : s2c'[i] = s2c[i]
      /\ s2c'[Len(s2c) + 1] = Ack("reset")
      /\ s2c'[Len(s2c) + 2] = e
  BY <1>1, <1>3, <1>4, <1>5, AppendedTwice
<1>7. /\ \A i \in DOMAIN s2c' : s2c'[i].type = "cancelled" => i = Len(s2c) + 2
      /\ \A i \in DOMAIN s2c' : s2c'[i].type = "reset" => i = Len(s2c) + 1
  BY <1>2, <1>3, <1>4, <1>6
<1>8. /\ (Len(s2c) + 2) - 1 = Len(s2c) + 1 /\ (Len(s2c) + 1) + 1 = Len(s2c) + 2
      /\ Len(s2c) + 1 \in DOMAIN s2c' /\ Len(s2c) + 2 \in DOMAIN s2c'
  BY <1>6
<1>9. Announced'
  BY <1>2, <1>3, <1>6, <1>7, <1>8 DEF Announced
<1>10. Acked'
  BY <1>2, <1>4, <1>6, <1>7, <1>8 DEF Acked
<1> QED
  BY <1>1, <1>2, <1>9, <1>10 DEF VictimInv, InBand, Behind, Fresh, OwnBreaks

\* A connection that goes down keeps what was received, or loses it.
LEMMA VictimLoses ==
  ASSUME IInv, VictimInv, Lose
  PROVE  VictimInv'
<1>1. ~peer' /\ ~urgent' /\ (s2c' = s2c \/ s2c' = <<>>) /\ UNCHANGED <<mu, pc, stage, rerr, alive>>
  BY DEF Lose, clientVars
<1>2. At' = At
  BY <1>1, Stays
<1>3. InBand' /\ Fresh' /\ OwnBreaks'
  BY <1>1, <1>2 DEF VictimInv, InBand, Fresh, OwnBreaks
<1>4. CASE s2c' = s2c
  BY <1>1, <1>2, <1>3, <1>4 DEF VictimInv, Announced, Acked, Behind
<1>5. CASE s2c' = <<>>
  BY <1>1, <1>2, <1>3, <1>5 DEF VictimInv, Announced, Acked, Behind
<1> QED
  BY <1>1, <1>4, <1>5

\* Nothing is under way at first.
LEMMA InitVictim == Init => VictimInv
BY DEF Init, VictimInv, InBand, Announced, Acked, Behind, Fresh, OwnBreaks, At

\* The packets a call reads as its response.
LEMMA VictimReads ==
  ASSUME IInv, ResetInv, VictimInv, NEW k \in Calls, ReceiveMarker(k) \/ ReadMarker(k) \/ ReadData(k) \/ ReadAborts(k)
  PROVE  VictimInv' /\ ~Has(s2c', {"cancelled"}) /\ At \in {"receive", "read"}
         /\ At' \in {"read", "write", "flush", "stop", "clear", "reset", "break"}
<1>1. /\ pc[k] \in {"receive", "read"} /\ mu' = mu /\ CanRead /\ s2c' = Tail(s2c) /\ UNCHANGED <<c2s, peer, urgent>>
      /\ alive' = alive \/ (alive' = FALSE /\ Head(s2c).type = "dead")
      /\ \E step \in {"read", "write", "flush", "stop", "clear", "reset", "break"} :
           /\ Goto(k, step)
           /\ step = "break" => stage' = "fail"
           /\ step = "read" => rerr' = rerr
  BY DEF ReceiveMarker, ReadMarker, ReadData, ReadAborts, Consume, Complete, Leave
<1>2. PICK step \in {"read", "write", "flush", "stop", "clear", "reset", "break"} :
        Goto(k, step) /\ (step = "break" => stage' = "fail") /\ (step = "read" => rerr' = rerr)
  BY <1>1
<1>3. At \in {"receive", "read"} /\ At' = step
  BY <1>1, <1>2, Moves DEF Steps
<1>4. alive /\ s2c # <<>> /\ rerr = "none"
  BY <1>1 DEF CanRead
<1>5. peer => alive'
  <2>1. 1 \in DOMAIN s2c /\ Head(s2c) = s2c[1]
    BY <1>4, Shifted DEF IInv, TypeOK
  <2> QED
    BY <1>1, <1>4, <2>1 DEF ResetInv, DeadIsLast, Has
<1> QED
  BY <1>1, <1>2, <1>3, <1>4, <1>5, VictimTakes

\* Every step of a call.
LEMMA CallStepVictim ==
  ASSUME IInv, ResetInv, VictimInv, NEW k \in Calls, CallStep(k)
  PROVE  VictimInv'
<1> USE DEF breakVars, wireVars, serverVars
<1>p. peer => alive
  BY DEF ResetInv, PeerAlive
<1>1. CASE LockFails(k) \/ Lock(k)
  <2>1. UNCHANGED <<c2s, s2c, peer, urgent, alive>>
    BY <1>1 DEF LockFails, Lock
  <2>2. At = "out" /\ At' \in {"out", "write"}
    <3>1. mu = NoCall /\ (mu' = NoCall \/ (mu' = k /\ pc' = [pc EXCEPT ![k] = "write"]))
      BY <1>1 DEF LockFails, Lock, Unlocked, Return, Goto
    <3> QED
      BY <3>1 DEF At, IInv, TypeOK
  <2> QED
    BY <1>p, <2>1, <2>2, VictimRests DEF Resting
<1>2. CASE WriteRequest(k)
  <2> DEFINE p == [type |-> "request", call |-> k, last |-> sent + 1 = ReqPkts]
  <2>1. p \in ToServer /\ p.type # "break"
    BY DEF ToServer
  <2>2. Send(p) /\ UNCHANGED <<s2c, peer, urgent>>
    BY <1>2 DEF WriteRequest
  <2> HIDE DEF p
  <2>3. At = "write" /\ At' \in {"write", "receive", "stop"}
    BY <1>2, Moves DEF WriteRequest, Leave, Steps
  <2>4. (peer => alive') /\ (alive' => alive) /\ (c2s' = c2s \/ c2s' = Append(c2s, p))
    BY <2>1, <2>2, Sent DEF Send
  <2> QED
    BY <2>1, <2>2, <2>3, <2>4, VictimRests DEF Resting
<1>3. CASE WriteDefers(k)
  <2>1. At = "write" /\ At' = "stop"
    BY <1>3, Moves DEF WriteDefers, Leave, Steps
  <2>2. UNCHANGED <<c2s, s2c, peer, urgent, alive>>
    BY <1>3 DEF WriteDefers
  <2> QED
    BY <1>p, <2>1, <2>2, VictimRests DEF Resting
<1>4. CASE ReadFails(k)
  BY <1>4, VictimFails
<1>5. CASE ReceiveMarker(k) \/ ReadMarker(k) \/ ReadData(k) \/ ReadAborts(k)
  BY <1>5, VictimReads
<1>6. CASE SendFlush(k)
  <2> DEFINE p == [type |-> "flush", call |-> k, last |-> TRUE]
  <2>1. p \in ToServer /\ p.type # "break"
    BY DEF ToServer
  <2>2. Send(p) /\ UNCHANGED <<s2c, peer, urgent>>
    BY <1>6 DEF SendFlush
  <2> HIDE DEF p
  <2>3. At = "flush" /\ At' \in {"receive", "stop"}
    BY <1>6, Moves DEF SendFlush, Leave, Steps
  <2>4. (peer => alive') /\ (alive' => alive) /\ (c2s' = c2s \/ c2s' = Append(c2s, p))
    BY <2>1, <2>2, Sent DEF Send
  <2> QED
    BY <2>1, <2>2, <2>3, <2>4, VictimRests DEF Resting
<1>7. CASE SendBreakMarker(k)
  BY <1>7, VictimBreakMarker
<1>8. CASE SendReset(k)
  BY <1>8, VictimReset
<1>9. CASE Drain(k)
  BY <1>9, VictimDrain
<1>10. CASE SkipMarkers(k)
  BY <1>10, VictimSkips
<1>11. CASE Stop(k)
  <2>1. At = "stop" /\ UNCHANGED <<s2c, peer, urgent>>
    BY <1>11, Inside DEF Stop
  <2>2. At' \in {"out", "receive", "clear"}
    <3>1. CASE Return(k, res[k])
      BY <3>1 DEF Return, At
    <3>2. CASE mu' = mu /\ \E step \in {"receive", "clear"} : Goto(k, step)
      BY <1>11, <3>2, Moves DEF Stop, Steps
    <3> QED
      BY <1>11, <3>1, <3>2 DEF Stop
  <2>3. Mark("interrupt") \in ToServer /\ Mark("interrupt").type # "break"
    BY DEF Mark, ToServer
  <2>4. (peer => alive') /\ (alive' => alive) /\ (c2s' = c2s \/ c2s' = Append(c2s, Mark("interrupt")))
    <3>1. CASE UNCHANGED <<c2s, alive>>
      BY <1>p, <3>1
    <3>2. CASE Send(Mark("interrupt"))
      BY <2>3, <3>2, Sent DEF Send
    <3> QED
      BY <1>11, <3>1, <3>2 DEF Stop, PairUrgent
  <2> QED
    BY <2>1, <2>2, <2>3, <2>4, VictimRests DEF Resting
<1>12. CASE Clear(k)
  <2>1. UNCHANGED <<c2s, s2c, peer, urgent, alive>> /\ mu' = NoCall /\ pc[k] = "clear"
    BY <1>12 DEF Clear, Return
  <2>2. At = "clear" /\ At' = "out"
    BY <2>1, Inside DEF At
  <2> QED
    BY <1>p, <2>1, <2>2, VictimRests DEF Resting
<1> QED
  BY <1>1, <1>2, <1>3, <1>4, <1>5, <1>6, <1>7, <1>8, <1>9, <1>10, <1>11, <1>12 DEF CallStep

\* Every step of the session.
LEMMA NextVictim == IInv /\ ResetInv /\ VictimInv /\ [Next]_vars => VictimInv'
<1> SUFFICES ASSUME IInv, ResetInv, VictimInv, [Next]_vars PROVE VictimInv'
  OBVIOUS
<1>p. peer => alive
  BY DEF ResetInv, PeerAlive
<1>u. OOB = FALSE => ~urgent
  BY DEF VictimInv, InBand
<1>1. CASE \E k \in Calls : CallStep(k)
  BY <1>1, CallStepVictim
<1>2. CASE (\E k \in Calls : CancelCtx(k)) \/ UNCHANGED vars
  <2>1. UNCHANGED <<mu, pc, stage, rerr, alive, c2s, s2c, peer, urgent>>
    BY <1>2 DEF CancelCtx, vars, clientVars, wireVars
  <2> QED
    BY <1>p, <2>1, VictimBreaks
<1>3. CASE \E b \in Breakers : BreakStep(b)
  <2>1. /\ UNCHANGED <<mu, pc, stage, rerr, s2c, peer>>
        /\ \/ UNCHANGED <<alive, c2s, urgent>>
           \/ OOB /\ UNCHANGED <<c2s, alive>>
           \/ Send(Mark("interrupt")) /\ UNCHANGED urgent
    BY <1>3 DEF BreakStep, SwapBreakSent, SendBreak, WatcherExits, clientVars, wireVars
  <2>2. Mark("interrupt") \in ToServer
    BY PacketTypes
  <2>3. (peer => alive') /\ (alive' => alive) /\ (c2s' = c2s \/ c2s' = Append(c2s, Mark("interrupt")))
        /\ (OOB = FALSE => urgent' = urgent)
    <3>1. CASE UNCHANGED <<c2s, alive>>
      BY <1>p, <2>1, <3>1 DEF Send
    <3>2. CASE Send(Mark("interrupt")) /\ UNCHANGED urgent
      BY <2>2, <3>2, Sent DEF Send
    <3> QED
      BY <2>1, <3>1, <3>2
  <2> QED
    BY <2>1, <2>3, VictimBreaks
<1>4. CASE ServerStep
  <2> USE DEF clientVars, wireVars
  <2>1. CASE ServerReceives \/ ServerDiscards
    <3>1. peer /\ c2s # <<>> /\ c2s' = Tail(c2s) /\ UNCHANGED <<mu, pc, stage, rerr, alive, s2c, urgent>>
      BY <2>1 DEF ServerReceives, ServerDiscards, Arrived
    <3> QED
      BY <1>u, <3>1, VictimServes
  <2>2. CASE ServerExecutes
    BY <1>u, <2>2, VictimServes DEF ServerExecutes
  <2>3. CASE ServerReplies
    <3> DEFINE p == [type |-> reply, from |-> req, last |-> left = 1]
    <3>1. p \in ToClient /\ p.type \notin {"cancelled", "reset"}
      BY DEF IInv, TypeOK, ToClient
    <3>2. peer /\ s2c' = Append(s2c, p) /\ UNCHANGED <<mu, pc, stage, rerr, alive, c2s, urgent>> /\ (peer' => peer)
      BY <2>3 DEF ServerReplies
    <3> QED
      BY <1>u, <3>1, <3>2, VictimServes
  <2>4. CASE ServerBreaks \/ ServerIdleMarker
    <3>1. Ack("break") \in ToClient /\ Ack("break").type \notin {"cancelled", "reset"}
      BY DEF Ack, ToClient
    <3>2. /\ peer /\ UNCHANGED <<mu, pc, stage, rerr, alive, peer>>
          /\ s2c' = s2c \/ s2c' = Append(s2c, Ack("break"))
          /\ c2s' = c2s \/ (c2s # <<>> /\ c2s' = Tail(c2s))
          /\ urgent' => urgent
      BY <2>4 DEF ServerBreaks, ServerIdleMarker, Arrived
    <3>3. s2c' = s2c \/ \E p \in ToClient : p.type \notin {"cancelled", "reset"} /\ s2c' = Append(s2c, p)
      BY <3>1, <3>2
    <3> QED
      BY <1>u, <3>2, <3>3, VictimServes
  <2>5. CASE ServerResets
    BY <2>5, VictimResets
  <2> QED
    BY <1>4, <2>1, <2>2, <2>3, <2>4, <2>5 DEF ServerStep
<1>5. CASE Lose
  BY <1>5, VictimLoses
<1> QED
  BY <1>1, <1>2, <1>3, <1>4, <1>5 DEF Next, Finished

---------------------------------------------------------------------------
(* Every break pays for one victim.  Those that are paid for and not yet   *)
(* hit are: the breaks about to be sent, the interrupt markers under way,  *)
(* and the handshakes that are not the failing call's own.                 *)

\* The calls that ended in ORA-01013, the breaks between Swap and write, and
\* where the interrupt markers are.
Victims == {k \in Calls : answer[k] = "cancelled"}
Fired == {b \in Breakers : breaker[b] = "fired"}
Interrupts == {i \in DOMAIN c2s : c2s[i].type = "interrupt"}

\* An error response is under way.
Coming == Has(s2c, {"cancelled"})

\* A call that fails has its error already: it drops its error response.
Failing == stage = "fail" /\ At \in {"break", "reset", "drain", "skip"}

\* What the handshakes under way may still cost.
Charge ==
  IF Failing THEN IF srv = "resetting" /\ Coming THEN 1 ELSE 0
             ELSE (IF srv = "resetting" THEN 1 ELSE 0) + (IF Coming THEN 1 ELSE 0)

\* The breaks pay for what they have done and for what they may still do.
CountInv ==
  /\ IsFiniteSet(Victims) /\ IsFiniteSet(Fired)
  /\ Cardinality(Victims) <= breaks
  /\ alive => Cardinality(Victims) + Cardinality(Fired) + Cardinality(Interrupts) + Charge <= breaks

\* A stream holds finitely many of them.
LEMMA FiniteStream ==
  ASSUME NEW s \in Seq(ToServer)
  PROVE  LET I == {i \in DOMAIN s : s[i].type = "interrupt"} IN IsFiniteSet(I) /\ Cardinality(I) \in Nat
<1>1. DOMAIN s = 1 .. Len(s) /\ Len(s) \in Nat
  OBVIOUS
<1>2. IsFiniteSet(1 .. Len(s))
  BY <1>1, FS_Interval
<1> DEFINE I == {i \in DOMAIN s : s[i].type = "interrupt"}
<1>3. I \in SUBSET (1 .. Len(s))
  BY <1>1
<1> HIDE DEF I
<1>4. IsFiniteSet(I)
  BY <1>2, <1>3, FS_Subset
<1>5. Cardinality(I) \in Nat
  BY <1>4, FS_CardinalityType
<1> QED
  BY <1>4, <1>5 DEF I

\* A packet at the end of the stream to the server.
LEMMA InterruptSent ==
  ASSUME IInv, IsFiniteSet(Interrupts), NEW p \in ToServer, c2s' = Append(c2s, p)
  PROVE  /\ Cardinality(Interrupts') <= Cardinality(Interrupts) + 1
         /\ p.type # "interrupt" => Cardinality(Interrupts') <= Cardinality(Interrupts)
<1>1. c2s \in Seq(ToServer)
  BY DEF IInv, TypeOK
<1>2. PICK n \in Nat :
        /\ \A i \in DOMAIN c2s' : i \in DOMAIN c2s \/ i = n
        /\ \A i \in DOMAIN c2s : c2s'[i] = c2s[i]
        /\ c2s'[n] = p
  <2>1. /\ DOMAIN c2s = 1 .. Len(c2s) /\ Len(c2s) \in Nat
        /\ DOMAIN c2s' = 1 .. Len(c2s) + 1
        /\ \A i \in DOMAIN c2s : c2s'[i] = c2s[i]
        /\ c2s'[Len(c2s) + 1] = p
    BY <1>1, Appended
  <2> WITNESS Len(c2s) + 1 \in Nat
  <2> QED
    BY <2>1
<1>3. Interrupts' \subseteq Interrupts \cup {n}
  BY <1>2 DEF Interrupts
<1>4. p.type # "interrupt" => Interrupts' \subseteq Interrupts
  BY <1>2 DEF Interrupts
<1>5. /\ IsFiniteSet(Interrupts \cup {n})
      /\ Cardinality(Interrupts \cup {n}) = Cardinality(Interrupts)
         \/ Cardinality(Interrupts \cup {n}) = Cardinality(Interrupts) + 1
  BY FS_AddElement
<1>6. Cardinality(Interrupts') <= Cardinality(Interrupts \cup {n}) /\ IsFiniteSet(Interrupts')
  BY <1>3, <1>5, FS_Subset
<1>7. Cardinality(Interrupts) \in Nat /\ Cardinality(Interrupts') \in Nat
  BY <1>6, FS_CardinalityType
<1>8. p.type # "interrupt" => Cardinality(Interrupts') <= Cardinality(Interrupts)
  BY <1>4, FS_Subset
<1> QED
  BY <1>5, <1>6, <1>7, <1>8

\* The first packet is taken from it.
LEMMA InterruptTaken ==
  ASSUME IInv, IsFiniteSet(Interrupts), c2s # <<>>, c2s' = Tail(c2s)
  PROVE  /\ Cardinality(Interrupts') <= Cardinality(Interrupts)
         /\ Head(c2s).type = "interrupt" => Cardinality(Interrupts') + 1 <= Cardinality(Interrupts)
<1>1. /\ 1 \in DOMAIN c2s /\ Head(c2s) = c2s[1] /\ DOMAIN c2s = 1 .. Len(c2s) /\ Len(c2s) \in Nat \ {0}
      /\ DOMAIN c2s' = 1 .. Len(c2s) - 1
      /\ \A i \in DOMAIN c2s' : c2s'[i] = c2s[i + 1] /\ i + 1 \in DOMAIN c2s
  BY Shifted DEF IInv, TypeOK
<1> DEFINE rest == Interrupts \ {1}
           f == [i \in Interrupts' |-> i + 1]
<1>2. f \in Injection(Interrupts', rest)
  <2>1. \A i \in Interrupts' : i \in Nat \ {0} /\ i + 1 \in rest
    BY <1>1 DEF Interrupts
  <2> QED
    BY <2>1 DEF Injection, IsInjective
<1>3. IsFiniteSet(rest) /\ Cardinality(rest) = IF 1 \in Interrupts THEN Cardinality(Interrupts) - 1 ELSE Cardinality(Interrupts)
  BY FS_RemoveElement
<1> HIDE DEF f, rest
<1>4. IsFiniteSet(Interrupts') /\ Cardinality(Interrupts') <= Cardinality(rest)
  BY <1>2, <1>3, FS_Injection
<1>5. Head(c2s).type = "interrupt" => 1 \in Interrupts
  BY <1>1 DEF Interrupts
<1>6. Cardinality(Interrupts) \in Nat /\ Cardinality(Interrupts') \in Nat
  BY <1>4, FS_CardinalityType
<1> QED
  BY <1>3, <1>4, <1>5, <1>6

\* What is counted are numbers, before a step and after it.
LEMMA CostNumbers ==
  ASSUME IInv, IInv'
  PROVE  /\ Cardinality(Interrupts) \in Nat /\ Cardinality(Interrupts') \in Nat
         /\ Charge \in Nat /\ Charge' \in Nat
<1>1. Cardinality(Interrupts) \in Nat /\ Cardinality(Interrupts') \in Nat
  BY FiniteStream DEF IInv, TypeOK, Interrupts
<1>2. Charge \in Nat /\ Charge' \in Nat
  BY DEF Charge
<1> QED
  BY <1>1, <1>2

LEMMA CountNumbers ==
  ASSUME IInv, IInv', IsFiniteSet(Victims), IsFiniteSet(Fired), IsFiniteSet(Victims'), IsFiniteSet(Fired')
  PROVE  /\ Cardinality(Victims) \in Nat /\ Cardinality(Victims') \in Nat
         /\ Cardinality(Fired) \in Nat /\ Cardinality(Fired') \in Nat
         /\ Cardinality(Interrupts) \in Nat /\ Cardinality(Interrupts') \in Nat
         /\ Charge \in Nat /\ Charge' \in Nat
         /\ breaks \in Nat /\ breaks' \in Nat
<1>1. /\ Cardinality(Victims) \in Nat /\ Cardinality(Victims') \in Nat
      /\ Cardinality(Fired) \in Nat /\ Cardinality(Fired') \in Nat
  BY FS_CardinalityType
<1> QED
  BY <1>1, CostNumbers DEF IInv, TypeOK

\* The costs do not grow: nothing happens to a call, or what a break has to
\* pay for turns from one kind into another.
LEMMA CountKept ==
  ASSUME IInv, IInv', CountInv, Victims' \subseteq Victims, Fired' \subseteq Fired, breaks' = breaks,
         alive' => /\ alive
                   /\ Cardinality(Interrupts') + Charge' <= Cardinality(Interrupts) + Charge
  PROVE  CountInv'
<1>1. IsFiniteSet(Victims) /\ IsFiniteSet(Fired)
  BY DEF CountInv
<1>2. IsFiniteSet(Victims') /\ IsFiniteSet(Fired')
  BY <1>1, FS_Subset
<1>3. Cardinality(Victims') <= Cardinality(Victims) /\ Cardinality(Fired') <= Cardinality(Fired)
  BY <1>1, FS_Subset
<1>4. /\ Cardinality(Victims') <= breaks'
      /\ alive' => Cardinality(Victims') + Cardinality(Fired') + Cardinality(Interrupts') + Charge' <= breaks'
  BY <1>1, <1>2, <1>3, CountNumbers DEF CountInv
<1> QED
  BY <1>2, <1>4 DEF CountInv

\* An error response hits its call.
LEMMA CountHit ==
  ASSUME IInv, IInv', CountInv, NEW k \in Calls, Victims' \subseteq Victims \cup {k}, Fired' \subseteq Fired,
         breaks' = breaks, alive, Cardinality(Interrupts') <= Cardinality(Interrupts), Charge' + 1 <= Charge
  PROVE  CountInv'
<1>1. IsFiniteSet(Victims) /\ IsFiniteSet(Fired) /\ IsFiniteSet(Fired') /\ Cardinality(Fired') <= Cardinality(Fired)
  BY FS_Subset DEF CountInv
<1>2. /\ IsFiniteSet(Victims \cup {k})
      /\ Cardinality(Victims \cup {k}) = Cardinality(Victims) \/ Cardinality(Victims \cup {k}) = Cardinality(Victims) + 1
  BY <1>1, FS_AddElement
<1>3. IsFiniteSet(Victims') /\ Cardinality(Victims') <= Cardinality(Victims \cup {k})
  BY <1>2, FS_Subset
<1>4. /\ Cardinality(Victims') <= breaks'
      /\ Cardinality(Victims') + Cardinality(Fired') + Cardinality(Interrupts') + Charge' <= breaks'
  BY <1>1, <1>2, <1>3, CountNumbers DEF CountInv
<1> QED
  BY <1>1, <1>3, <1>4 DEF CountInv

\* A break passes the Swap: it counts, and is about to be sent.
LEMMA CountFires ==
  ASSUME IInv, IInv', CountInv, NEW b, Victims' = Victims, Fired' \subseteq Fired \cup {b},
         breaks' = breaks + 1, alive' = alive, Interrupts' = Interrupts, Charge' = Charge
  PROVE  CountInv'
<1>1. IsFiniteSet(Victims) /\ IsFiniteSet(Fired) /\ IsFiniteSet(Victims')
  BY DEF CountInv
<1>2. /\ IsFiniteSet(Fired \cup {b})
      /\ Cardinality(Fired \cup {b}) = Cardinality(Fired) \/ Cardinality(Fired \cup {b}) = Cardinality(Fired) + 1
  BY <1>1, FS_AddElement
<1>3. IsFiniteSet(Fired') /\ Cardinality(Fired') <= Cardinality(Fired \cup {b})
  BY <1>2, FS_Subset
<1>4. /\ Cardinality(Victims') <= breaks'
      /\ alive' => Cardinality(Victims') + Cardinality(Fired') + Cardinality(Interrupts') + Charge' <= breaks'
  BY <1>1, <1>2, <1>3, CountNumbers DEF CountInv
<1> QED
  BY <1>1, <1>3, <1>4 DEF CountInv

\* It is sent, as an interrupt marker, or lost with the connection.
LEMMA CountSends ==
  ASSUME IInv, IInv', CountInv, NEW b \in Fired, Victims' = Victims, Fired' = Fired \ {b},
         breaks' = breaks, alive' => alive, Cardinality(Interrupts') <= Cardinality(Interrupts) + 1, Charge' = Charge
  PROVE  CountInv'
<1>1. IsFiniteSet(Victims) /\ IsFiniteSet(Fired) /\ IsFiniteSet(Victims')
  BY DEF CountInv
<1>2. IsFiniteSet(Fired') /\ Cardinality(Fired') = Cardinality(Fired) - 1
  BY <1>1, FS_RemoveElement
<1>3. /\ Cardinality(Victims') <= breaks'
      /\ alive' => Cardinality(Victims') + Cardinality(Fired') + Cardinality(Interrupts') + Charge' <= breaks'
  BY <1>1, <1>2, CountNumbers DEF CountInv
<1> QED
  BY <1>1, <1>2, <1>3 DEF CountInv

\* A call that fails, and goes on failing, owes no more than it did.
LEMMA Charges ==
  ASSUME srv' = "resetting" => srv = "resetting", Coming' => Coming, Failing => Failing'
  PROVE  Charge' <= Charge
BY DEF Charge

---------------------------------------------------------------------------
(* The steps, by what they cost.                                           *)

\* The numbers of interrupt markers never grow with what a call writes.
LEMMA CallSends ==
  ASSUME OOB = FALSE, IInv, ResetInv, NEW k \in Calls, CallStep(k)
  PROVE  Cardinality(Interrupts') <= Cardinality(Interrupts)
<1>1. \/ c2s' = c2s
      \/ \E p \in ToServer : p.type # "interrupt" /\ c2s' = Append(c2s, p)
  <2>1. /\ [type |-> "request", call |-> k, last |-> sent + 1 = ReqPkts] \in ToServer
        /\ [type |-> "flush", call |-> k, last |-> TRUE] \in ToServer
        /\ Mark("break") \in ToServer /\ Mark("break").type = "break"
        /\ Mark("reset") \in ToServer /\ Mark("reset").type = "reset"
    BY DEF ToServer, Mark
  <2>2. CASE WriteRequest(k)
    BY <2>1, <2>2 DEF WriteRequest, Send
  <2>3. CASE SendFlush(k)
    BY <2>1, <2>3 DEF SendFlush, Send
  <2>4. CASE SendBreakMarker(k)
    BY <2>1, <2>4 DEF SendBreakMarker, Send
  <2>5. CASE SendReset(k)
    BY <2>1, <2>5 DEF SendReset, Send
  <2>6. CASE Stop(k)
    BY <2>6 DEF Stop, PairUrgent
  <2>7. CASE ~(WriteRequest(k) \/ SendFlush(k) \/ SendBreakMarker(k) \/ SendReset(k) \/ Stop(k))
    BY <2>7 DEF CallStep, LockFails, Lock, WriteDefers, ReadFails, ReceiveMarker, ReadMarker, ReadData, ReadAborts,
         Drain, SkipMarkers, Clear, wireVars
  <2> QED
    BY <2>2, <2>3, <2>4, <2>5, <2>6, <2>7
<1>2. IsFiniteSet(Interrupts) /\ Cardinality(Interrupts) \in Nat
  BY FiniteStream DEF IInv, TypeOK, Interrupts
<1>3. CASE c2s' = c2s
  BY <1>2, <1>3 DEF Interrupts
<1>4. CASE \E p \in ToServer : p.type # "interrupt" /\ c2s' = Append(c2s, p)
  BY <1>2, <1>4, InterruptSent
<1> QED
  BY <1>1, <1>3, <1>4

\* A call does not fire breaks, and the server's state is not its own.
LEMMA CallFrame ==
  ASSUME IInv, ResetInv, NEW k \in Calls, CallStep(k)
  PROVE  Fired' \subseteq Fired /\ UNCHANGED <<breaks, srv>> /\ (alive' => alive)
<1>1. breaker' = breaker \/ \E x \in {"armed", "stopping", breaker[k]} : breaker' = [breaker EXCEPT ![k] = x]
  BY DEF CallStep, LockFails, Lock, WriteRequest, WriteDefers, ReadFails, ReceiveMarker, ReadMarker, ReadData,
     ReadAborts, SendFlush, SendBreakMarker, SendReset, Drain, SkipMarkers, Stop, Clear, breakVars
<1>2. Fired' \subseteq Fired
  BY <1>1 DEF Fired, IInv, TypeOK
<1>3. UNCHANGED <<breaks, srv>>
  BY DEF CallStep, LockFails, Lock, WriteRequest, WriteDefers, ReadFails, ReceiveMarker, ReadMarker, ReadData,
     ReadAborts, SendFlush, SendBreakMarker, SendReset, Drain, SkipMarkers, Stop, Clear, Record, history, serverVars
<1>4. alive' => alive
  BY DEF CallStep, LockFails, Lock, WriteRequest, WriteDefers, ReadFails, ReceiveMarker, ReadMarker, ReadData,
     ReadAborts, SendFlush, SendBreakMarker, SendReset, Drain, SkipMarkers, Stop, Clear, CanRead, PairUrgent, Send
<1> QED
  BY <1>2, <1>3, <1>4

\* The steps of a call that consume none of its response.
LEMMA CallCharges ==
  ASSUME IInv, ResetInv, VictimInv, NEW k \in Calls, CallStep(k), ~ReadData(k), ~ReadAborts(k), alive'
  PROVE  Charge' <= Charge
<1>1. alive /\ srv' = srv
  BY CallFrame
<1>2. CASE LockFails(k) \/ Lock(k) \/ WriteRequest(k) \/ WriteDefers(k) \/ SendFlush(k) \/ Stop(k) \/ Clear(k)
  <2>1. s2c' = s2c
    BY <1>2 DEF LockFails, Lock, WriteRequest, WriteDefers, SendFlush, Stop, Clear, wireVars
  <2>2. pc[k] \in {"write", "flush", "stop", "clear"} \/ mu = NoCall
    BY <1>2 DEF LockFails, Lock, Unlocked, WriteRequest, WriteDefers, SendFlush, Stop, Clear
  <2>3. At \in {"out", "write", "flush", "stop", "clear"}
    BY <2>2, Inside DEF At
  <2> QED
    BY <1>1, <2>1, <2>3, Charges DEF Failing, Coming
<1>3. CASE ReadFails(k)
  <2>1. rerr # "none" /\ s2c' = s2c /\ pc[k] \in {"receive", "read", "drain", "skip"}
    BY <1>3 DEF ReadFails
  <2>2. At = "receive"
    BY <1>1, <2>1, Inside DEF VictimInv, Fresh, ResetInv, Prepared
  <2> QED
    BY <1>1, <2>1, <2>2, Charges DEF Failing, Coming
<1>4. CASE ReceiveMarker(k) \/ ReadMarker(k)
  <2>1. At \in {"receive", "read"} /\ ~Coming'
    BY <1>4, VictimReads DEF Coming
  <2> QED
    BY <1>1, <2>1, Charges DEF Failing
<1>5. CASE SendBreakMarker(k)
  <2>1. At = "break" /\ At' = "reset" /\ UNCHANGED <<stage, s2c>>
    BY <1>1, <1>5, Moves DEF SendBreakMarker, Steps
  <2> QED
    BY <1>1, <2>1, Charges DEF Failing, Coming
<1>6. CASE SendReset(k)
  <2>1. At' \in {"drain", "skip"} /\ UNCHANGED <<stage, s2c>>
    BY <1>6, Moves DEF SendReset, Steps
  <2> QED
    BY <1>1, <2>1, Charges DEF Failing, Coming
<1>7. CASE Drain(k)
  <2>1. At' \in {"drain", "skip"} /\ stage' = stage /\ s2c' = Tail(s2c) /\ s2c # <<>>
    BY <1>7, Moves DEF Drain, Steps, Consume, CanRead
  <2>2. /\ DOMAIN s2c = 1 .. Len(s2c) /\ Len(s2c) \in Nat \ {0}
        /\ \A i \in DOMAIN s2c' : s2c'[i] = s2c[i + 1] /\ i + 1 \in DOMAIN s2c
    BY <2>1, Shifted DEF IInv, TypeOK
  <2>3. Coming' => Coming
    BY <2>2 DEF Coming, Has
  <2> QED
    BY <1>1, <2>1, <2>3, Charges DEF Failing
<1>8. CASE SkipMarkers(k)
  <2>1. /\ At = "skip" /\ s2c # <<>> /\ Head(s2c).type = "cancelled" /\ stage' = stage
        /\ IF stage = "fail" THEN At' = "stop" /\ ~Has(s2c', {"cancelled"}) ELSE s2c' = s2c /\ At' = "read"
    BY <1>8, VictimSkips DEF SkipMarkers
  <2>2. CASE stage = "fail"
    <3>1. 1 \in DOMAIN s2c /\ s2c[1].type = "cancelled"
      BY <2>1, Shifted DEF IInv, TypeOK
    <3>2. Failing /\ ~Failing' /\ Coming /\ ~Coming'
      BY <2>1, <2>2, <3>1 DEF Failing, Coming, Has
    <3> QED
      BY <1>1, <3>2 DEF Charge
  <2>3. CASE stage # "fail"
    BY <1>1, <2>1, <2>3, Charges DEF Failing, Coming
  <2> QED
    BY <2>2, <2>3
<1> QED
  BY <1>2, <1>3, <1>4, <1>5, <1>6, <1>7, <1>8 DEF CallStep

\* A packet of a response: ORA-01013 hits the call, and is no longer coming.
LEMMA CountReads ==
  ASSUME OOB = FALSE, IInv, IInv', ResetInv, VictimInv, CountInv, NEW k \in Calls, ReadData(k) \/ ReadAborts(k)
  PROVE  CountInv'
<1> DEFINE p == Head(s2c)
<1>1. CallStep(k)
  BY DEF CallStep
<1>2. /\ Fired' \subseteq Fired /\ breaks' = breaks /\ srv' = srv /\ (alive' => alive)
      /\ Cardinality(Interrupts') <= Cardinality(Interrupts)
  BY <1>1, CallFrame, CallSends
<1>3. At \in {"receive", "read"} /\ ~Coming'
  BY VictimReads DEF Coming
<1>4. alive /\ s2c # <<>> /\ (answer' = answer \/ answer' = [answer EXCEPT ![k] = p.type])
  BY DEF ReadData, ReadAborts, Record, CanRead
<1>5. 1 \in DOMAIN s2c /\ s2c[1] = p
  BY <1>4, Shifted DEF IInv, TypeOK
<1>6. ~Failing
  BY <1>3 DEF Failing
<1>7. Charge' <= Charge /\ (p.type = "cancelled" => Charge' + 1 <= Charge)
  BY <1>2, <1>3, <1>5, <1>6 DEF Charge, Coming, Has
<1>8. IsFiniteSet(Victims) /\ IsFiniteSet(Fired)
  BY DEF CountInv
<1>9. /\ Cardinality(Interrupts) \in Nat /\ Cardinality(Interrupts') \in Nat
      /\ Charge \in Nat /\ Charge' \in Nat
  BY CostNumbers
<1>10. Victims' \subseteq Victims \cup {k} /\ (p.type # "cancelled" => Victims' \subseteq Victims)
  BY <1>4 DEF Victims, IInv, TypeOK
<1> HIDE DEF p
<1>11. CASE p.type = "cancelled"
  <2>1. Charge' + 1 <= Charge /\ Cardinality(Interrupts') <= Cardinality(Interrupts)
    BY <1>2, <1>7, <1>11
  <2> QED
    BY <1>2, <1>4, <1>10, <2>1, CountHit
<1>12. CASE p.type # "cancelled"
  <2>1. Cardinality(Interrupts') + Charge' <= Cardinality(Interrupts) + Charge
    BY <1>2, <1>7, <1>9
  <2> QED
    BY <1>2, <1>10, <1>12, <2>1, CountKept
<1> QED
  BY <1>11, <1>12

\* Every step of a call.
LEMMA CallStepCount ==
  ASSUME OOB = FALSE, IInv, IInv', ResetInv, VictimInv, CountInv, NEW k \in Calls, CallStep(k)
  PROVE  CountInv'
<1>1. CASE ReadData(k) \/ ReadAborts(k)
  BY <1>1, CountReads
<1>2. CASE ~ReadData(k) /\ ~ReadAborts(k)
  <2>1. answer' = answer
    BY <1>2 DEF CallStep, LockFails, Lock, WriteRequest, WriteDefers, ReadFails, ReceiveMarker, ReadMarker,
       SendFlush, SendBreakMarker, SendReset, Drain, SkipMarkers, Stop, Clear, history
  <2>2. Victims' \subseteq Victims
    BY <2>1 DEF Victims
  <2>3. /\ Fired' \subseteq Fired /\ breaks' = breaks /\ (alive' => alive)
        /\ Cardinality(Interrupts') <= Cardinality(Interrupts)
        /\ alive' => Charge' <= Charge
    BY <1>2, CallFrame, CallSends, CallCharges
  <2>4. /\ Cardinality(Interrupts) \in Nat /\ Cardinality(Interrupts') \in Nat
        /\ Charge \in Nat /\ Charge' \in Nat
    BY CostNumbers
  <2>5. alive' => Cardinality(Interrupts') + Charge' <= Cardinality(Interrupts) + Charge
    BY <2>3, <2>4
  <2> QED
    BY <2>2, <2>3, <2>5, CountKept
<1> QED
  BY <1>1, <1>2

\* Breaks are counted when they fire, and sent once.
LEMMA BreakStepCount ==
  ASSUME OOB = FALSE, IInv, IInv', ResetInv, CountInv, NEW b \in Breakers, BreakStep(b)
  PROVE  CountInv'
<1>1. UNCHANGED <<mu, pc, stage, answer, s2c, srv>>
  BY DEF BreakStep, SwapBreakSent, SendBreak, WatcherExits, clientVars, wireVars, serverVars, history
<1>2. Victims' = Victims /\ Charge' = Charge
  BY <1>1, Stays DEF Victims, Charge, Failing, Coming
<1>3. breaker \in [Breakers -> {"off", "armed", "stopping", "fired"}]
  BY DEF IInv, TypeOK
<1>4. CASE SwapBreakSent(b)
  <2>1. alive' = alive /\ c2s' = c2s
    BY <1>4 DEF SwapBreakSent, clientVars, wireVars
  <2>2. Interrupts' = Interrupts
    BY <2>1 DEF Interrupts
  <2>3. CASE breaks' = breaks + 1
    <3>1. Fired' \subseteq Fired \cup {b}
      BY <1>3, <1>4 DEF SwapBreakSent, Fired
    <3> QED
      BY <1>2, <2>1, <2>2, <2>3, <3>1, CountFires
  <2>4. CASE breaker' = [breaker EXCEPT ![b] = "off"] /\ breaks' = breaks
    <3>1. Fired' \subseteq Fired
      BY <1>3, <2>4 DEF Fired
    <3>2. Cardinality(Interrupts') + Charge' <= Cardinality(Interrupts) + Charge
      BY <1>2, <2>2, CostNumbers
    <3> QED
      BY <1>2, <2>1, <2>4, <3>1, <3>2, CountKept
  <2> QED
    BY <1>4, <2>3, <2>4 DEF SwapBreakSent
<1>5. CASE SendBreak(b)
  <2>1. breaker[b] = "fired" /\ breaker' = [breaker EXCEPT ![b] = "off"] /\ Send(Mark("interrupt")) /\ breaks' = breaks
    BY <1>5 DEF SendBreak, history
  <2>2. b \in Fired /\ Fired' = Fired \ {b}
    BY <1>3, <2>1 DEF Fired
  <2>3. Mark("interrupt") \in ToServer
    BY PacketTypes
  <2>4. alive' => alive
    BY <2>1, <2>3, Sent
  <2>5. IsFiniteSet(Interrupts) /\ Cardinality(Interrupts) \in Nat
    BY FiniteStream DEF IInv, TypeOK, Interrupts
  <2>6. Cardinality(Interrupts') <= Cardinality(Interrupts) + 1
    <3>1. CASE c2s' = c2s
      <4>1. Interrupts' = Interrupts
        BY <3>1 DEF Interrupts
      <4> QED
        BY <2>5, <4>1
    <3>2. CASE c2s' = Append(c2s, Mark("interrupt"))
      BY <2>3, <2>5, <3>2, InterruptSent
    <3> QED
      BY <2>1, <3>1, <3>2 DEF Send
  <2> QED
    BY <1>2, <2>1, <2>2, <2>4, <2>6, CountSends
<1>6. CASE WatcherExits(b)
  <2>1. breaker' = [breaker EXCEPT ![b] = "off"] /\ alive' = alive /\ c2s' = c2s /\ breaks' = breaks
    BY <1>6 DEF WatcherExits, clientVars, wireVars, history
  <2>2. Fired' \subseteq Fired
    BY <1>3, <2>1 DEF Fired
  <2>3. Interrupts' = Interrupts
    BY <2>1 DEF Interrupts
  <2>4. Cardinality(Interrupts') + Charge' <= Cardinality(Interrupts) + Charge
    BY <1>2, <2>3, CostNumbers
  <2> QED
    BY <1>2, <2>1, <2>2, <2>4, CountKept
<1> QED
  BY <1>4, <1>5, <1>6 DEF BreakStep

\* The server starts a handshake: an interrupt marker pays for it, or it is
\* that of a call which fails, and has no error response coming.
LEMMA CountStarts ==
  ASSUME OOB = FALSE, IInv, IInv', ResetInv, VictimInv, CountInv,
         UNCHANGED <<mu, pc, stage, alive, breaker, answer, breaks>>,
         Arrived({"interrupt", "break"}), srv # "resetting", c2s' = Tail(c2s), s2c' = Append(s2c, Ack("break"))
  PROVE  CountInv'
<1>1. peer /\ c2s # <<>> /\ Head(c2s).type \in {"interrupt", "break"}
  BY DEF Arrived
<1>2. /\ 1 \in DOMAIN c2s /\ Head(c2s) = c2s[1]
  BY <1>1, Shifted DEF IInv, TypeOK
<1>3. At' = At /\ Failing' = Failing /\ Victims' \subseteq Victims /\ Fired' \subseteq Fired
  BY Stays DEF Failing, Victims, Fired
<1>4. Coming' = Coming
  <2>1. Ack("break") \in ToClient /\ Ack("break").type # "cancelled"
    BY DEF Ack, ToClient
  <2>2. s2c \in Seq(ToClient)
    BY DEF IInv, TypeOK
  <2>3. /\ DOMAIN s2c = 1 .. Len(s2c) /\ Len(s2c) \in Nat
        /\ DOMAIN s2c' = 1 .. Len(s2c) + 1
        /\ \A i \in DOMAIN s2c : s2c'[i] = s2c[i]
        /\ s2c'[Len(s2c) + 1] = Ack("break")
    BY <2>1, <2>2, Appended
  <2>4. /\ \A i \in DOMAIN s2c : i \in DOMAIN s2c' /\ s2c'[i] = s2c[i]
        /\ \A i \in DOMAIN s2c' : i \in DOMAIN s2c \/ s2c'[i] = Ack("break")
    BY <2>3
  <2> QED
    BY <2>1, <2>4 DEF Coming, Has
<1>5. Charge' <= Charge + 1
  BY <1>3, <1>4 DEF Charge
<1>6. /\ Cardinality(Interrupts') <= Cardinality(Interrupts)
      /\ Head(c2s).type = "interrupt" => Cardinality(Interrupts') + 1 <= Cardinality(Interrupts)
  <2>1. IsFiniteSet(Interrupts)
    BY FiniteStream DEF IInv, TypeOK, Interrupts
  <2> QED
    BY <1>1, <2>1, InterruptTaken
<1>7. Head(c2s).type = "break" => Charge' = 0
  <2> SUFFICES ASSUME c2s[1].type = "break"
               PROVE  Failing /\ ~Coming
    BY <1>2, <1>3, <1>4 DEF Charge
  <2>1. /\ stage = "fail" /\ At \in {"reset", "drain"}
        /\ At = "drain" => \E j \in DOMAIN c2s : 1 < j /\ c2s[j].type = "reset"
    BY <1>1, <1>2 DEF VictimInv, OwnBreaks
  <2>2. alive
    BY <1>1 DEF ResetInv, PeerAlive
  <2>3. At = "drain" => \A i \in DOMAIN s2c : s2c[i].type # "reset"
    BY <1>1, <2>1 DEF ResetInv, ResetsFollow, Has
  <2>4. \A i \in DOMAIN s2c : s2c[i].type # "cancelled"
    BY <2>1, <2>2, <2>3 DEF VictimInv, Announced
  <2> QED
    BY <2>1, <2>4 DEF Failing, Coming, Has
<1>8. Cardinality(Interrupts') + Charge' <= Cardinality(Interrupts) + Charge
  <2>1. CASE Head(c2s).type = "interrupt"
    <3>1. Cardinality(Interrupts') + 1 <= Cardinality(Interrupts)
      BY <1>6, <2>1
    <3> QED
      BY <1>5, <3>1, CostNumbers
  <2>2. CASE Head(c2s).type = "break"
    <3>1. Charge' = 0
      BY <1>7, <2>2
    <3> QED
      BY <1>6, <3>1, CostNumbers
  <2> QED
    BY <1>1, <2>1, <2>2
<1> QED
  BY <1>3, <1>8, CountKept

\* The other packets that the server takes and sends cost nothing.
LEMMA CountServes ==
  ASSUME IInv, IInv', CountInv, UNCHANGED <<mu, pc, stage, alive, breaker, answer, breaks>>,
         c2s' = c2s \/ (c2s # <<>> /\ c2s' = Tail(c2s)), Charge' <= Charge
  PROVE  CountInv'
<1>1. IsFiniteSet(Interrupts) /\ Cardinality(Interrupts) \in Nat
  BY FiniteStream DEF IInv, TypeOK, Interrupts
<1>2. Cardinality(Interrupts') <= Cardinality(Interrupts)
  <2>1. CASE c2s' = c2s
    <3>1. Interrupts' = Interrupts
      BY <2>1 DEF Interrupts
    <3> QED
      BY <1>1, <3>1
  <2>2. CASE c2s # <<>> /\ c2s' = Tail(c2s)
    BY <1>1, <2>2, InterruptTaken
  <2> QED
    BY <2>1, <2>2
<1>3. Cardinality(Interrupts') + Charge' <= Cardinality(Interrupts) + Charge
  BY <1>2, CostNumbers
<1>4. Victims' \subseteq Victims /\ Fired' \subseteq Fired
  BY DEF Victims, Fired
<1> QED
  BY <1>3, <1>4, CountKept

\* Every step of the server.
LEMMA ServerStepCount ==
  ASSUME OOB = FALSE, IInv, IInv', ResetInv, VictimInv, CountInv, ServerStep
  PROVE  CountInv'
<1>1. UNCHANGED <<mu, pc, stage, alive, breaker, answer, breaks>>
  BY DEF ServerStep, ServerReceives, ServerExecutes, ServerReplies, ServerBreaks, ServerIdleMarker, ServerDiscards,
     ServerResets, clientVars, breakVars, history
<1>2. Failing' = Failing
  BY <1>1, Stays DEF Failing
<1>3. CASE ServerReceives \/ ServerDiscards
  <2>1. c2s # <<>> /\ c2s' = Tail(c2s) /\ s2c' = s2c /\ (srv' = "resetting" => srv = "resetting")
    BY <1>3 DEF ServerReceives, ServerDiscards, Arrived, serverVars
  <2>2. Charge' <= Charge
    BY <1>2, <2>1, Charges DEF Coming
  <2> QED
    BY <1>1, <2>1, <2>2, CountServes
<1>4. CASE ServerExecutes
  <2>1. c2s' = c2s /\ s2c' = s2c /\ srv' = "replying"
    BY <1>4 DEF ServerExecutes, wireVars
  <2>2. Charge' <= Charge
    BY <1>2, <2>1, Charges DEF Coming
  <2> QED
    BY <1>1, <2>1, <2>2, CountServes
<1>5. CASE ServerReplies
  <2> DEFINE p == [type |-> reply, from |-> req, last |-> left = 1]
  <2>1. c2s' = c2s /\ s2c' = Append(s2c, p) /\ srv' # "resetting"
    BY <1>5 DEF ServerReplies
  <2>2. p \in ToClient /\ p.type # "cancelled" /\ s2c \in Seq(ToClient)
    BY DEF IInv, TypeOK, ToClient
  <2> HIDE DEF p
  <2>3. /\ DOMAIN s2c = 1 .. Len(s2c) /\ Len(s2c) \in Nat
        /\ DOMAIN s2c' = 1 .. Len(s2c) + 1
        /\ \A i \in DOMAIN s2c : s2c'[i] = s2c[i]
        /\ s2c'[Len(s2c) + 1] = p
    BY <2>1, <2>2, Appended
  <2>4. \A i \in DOMAIN s2c' : s2c'[i] = p \/ (i \in DOMAIN s2c /\ s2c'[i] = s2c[i])
    BY <2>3
  <2>5. Coming' => Coming
    BY <2>2, <2>4 DEF Coming, Has
  <2>6. Charge' <= Charge
    BY <1>2, <2>1, <2>5, Charges
  <2> QED
    BY <1>1, <2>1, <2>6, CountServes
<1>6. CASE ServerBreaks
  <2>1. /\ srv # "resetting" /\ Arrived({"interrupt", "break"})
        /\ c2s' = Tail(c2s) /\ s2c' = Append(s2c, Ack("break"))
    BY <1>6 DEF ServerBreaks, VictimInv, InBand
  <2> QED
    BY <1>1, <2>1, CountStarts
<1>7. CASE ServerIdleMarker
  <2>1. srv # "resetting" /\ Arrived({"interrupt", "break"}) /\ c2s # <<>> /\ c2s' = Tail(c2s)
    BY <1>7 DEF ServerIdleMarker, Arrived
  <2>2. CASE s2c' = Append(s2c, Ack("break"))
    BY <1>1, <2>1, <2>2, CountStarts
  <2>3. CASE UNCHANGED <<s2c, srv>>
    <3>1. Charge' <= Charge
      BY <1>2, <2>3, Charges DEF Coming
    <3> QED
      BY <1>1, <2>1, <3>1, CountServes
  <2> QED
    BY <1>7, <2>2, <2>3 DEF ServerIdleMarker
<1>8. CASE ServerResets
  <2>1. ~Coming /\ c2s # <<>> /\ c2s' = Tail(c2s)
    BY <1>8, ResetTakenFirst DEF Coming, Has
  <2>2. srv = "resetting" /\ srv' = "idle"
    BY <1>8 DEF ServerResets
  <2>3. Charge' <= Charge
    BY <1>2, <2>1, <2>2 DEF Charge
  <2> QED
    BY <1>1, <2>1, <2>3, CountServes
<1> QED
  BY <1>3, <1>4, <1>5, <1>6, <1>7, <1>8 DEF ServerStep

\* A session begins without breaks, and without victims.
LEMMA InitCount == Init => CountInv
<1> SUFFICES ASSUME Init PROVE CountInv
  OBVIOUS
<1>1. Victims = {} /\ Fired = {} /\ Interrupts = {} /\ breaks = 0 /\ Charge = 0
  BY DEF Init, Victims, Fired, Interrupts, Charge, Coming, Has
<1>2. IsFiniteSet({}) /\ Cardinality({}) = 0
  BY FS_EmptySet
<1> QED
  BY <1>1, <1>2 DEF CountInv

\* Every step of the session.
LEMMA NextCount ==
  ASSUME OOB = FALSE, IInv, IInv', ResetInv, VictimInv, CountInv, [Next]_vars
  PROVE  CountInv'
<1>1. CASE \E k \in Calls : CallStep(k)
  BY <1>1, CallStepCount
<1>2. CASE (\E k \in Calls : CancelCtx(k)) \/ UNCHANGED vars
  <2>1. UNCHANGED <<mu, pc, stage, alive, breaker, answer, breaks, c2s, s2c, srv>>
    BY <1>2 DEF CancelCtx, vars, clientVars, breakVars, wireVars, serverVars, history
  <2>2. Charge' <= Charge
    BY <2>1, Stays, Charges DEF Failing, Coming
  <2> QED
    BY <2>1, <2>2, CountServes
<1>3. CASE \E b \in Breakers : BreakStep(b)
  BY <1>3, BreakStepCount
<1>4. CASE ServerStep
  BY <1>4, ServerStepCount
<1>5. CASE Lose
  <2>1. UNCHANGED <<mu, pc, stage, alive, breaker, answer, breaks, srv>> /\ c2s' = <<>> /\ (s2c' = s2c \/ s2c' = <<>>)
    BY <1>5 DEF Lose, clientVars, breakVars, serverVars, history
  <2>2. Charge' <= Charge
    <3>1. Coming' => Coming
      BY <2>1 DEF Coming, Has
    <3> QED
      BY <2>1, <3>1, Stays, Charges DEF Failing
  <2>3. Interrupts' = {} /\ Victims' \subseteq Victims /\ Fired' \subseteq Fired
    BY <2>1 DEF Interrupts, Victims, Fired
  <2>4. Cardinality(Interrupts') + Charge' <= Cardinality(Interrupts) + Charge
    BY <2>2, <2>3, CostNumbers, FS_EmptySet
  <2> QED
    BY <2>1, <2>3, <2>4, CountKept
<1> QED
  BY <1>1, <1>2, <1>3, <1>4, <1>5 DEF Next, Finished

\* With breaks as markers in the stream, one break fails at most one call with
\* ORA-01013, whatever else fails, resends, aborts or is flushed: no break is
\* acted on twice, and no error response is read by two calls.
THEOREM OneCallPerBreak == OOB = FALSE => (Spec => []OneVictimPerBreak)
<1> SUFFICES ASSUME OOB = FALSE PROVE Spec => []OneVictimPerBreak
  OBVIOUS
<1>1. IInv /\ IInv' /\ ResetInv /\ VictimInv /\ CountInv /\ [Next]_vars => CountInv'
  BY NextCount
<1>2. CountInv => OneVictimPerBreak
  BY DEF CountInv, Victims, OneVictimPerBreak
<1> QED
  BY <1>1, <1>2, InitVictim, NextVictim, InitCount, Invariance, ResetInvariance, PTL DEF Spec

=============================================================================
