------------------------------ MODULE Session ------------------------------
(***************************************************************************)
(* One authenticated Oracle session (ttc.Conn) shared by several           *)
(* goroutines: the call protocol of internal/ttc/conn.go, from Lock to     *)
(* Unlock of Conn.mu, and the cancellation that runs beside it.            *)
(*                                                                         *)
(* Every member of Calls is one round trip asked for by some goroutine     *)
(* (Execute, Fetch, Commit, Rollback, Ping, a LOB read: each of them is    *)
(* mu.Lock, processMessageCtx, mu.Unlock).  A call whose context can be    *)
(* cancelled has a watcher goroutine of its own; App is the application    *)
(* thread that calls Conn.Cancel.  The server is external: it is what the  *)
(* code of conn.go and its comments take an Oracle server to be.           *)
(***************************************************************************)
EXTENDS Naturals, Sequences, FiniteSets

CONSTANTS
  Calls,        \* the calls made on the session, each made once
  CtxCalls,     \* those whose context has a Done channel
  Deferrable,   \* those with a bind value that may fail to convert
  Abortable,    \* those whose response the client may fail to process
  NoCall,       \* "nobody holds Conn.mu"
  App,          \* the thread that calls Conn.Cancel
  OOB,          \* caps.SupportsOOB: breaks are TCP urgent bytes
  ReqPkts,      \* packets in a request
  RespPkts,     \* packets in a successful response
  Replies,      \* the answers the server may give, see Reply
  MaxCancels,   \* bound: how often App calls Cancel
  CanLose       \* may the network connection go down?

\* How a response ends.  "retry" is ORA-01007 or ORA-00932 on a query, for
\* which the message asks to be sent again; "flush" asks for FLUSH_OUT_BINDS;
\* "dead" is an error after which the session is gone (Error.IsSessionDead).
Reply == {"ok", "error", "retry", "flush", "dead"}

ASSUME SessionAssumption ==
  /\ CtxCalls \subseteq Calls /\ Deferrable \subseteq Calls /\ Abortable \subseteq Calls
  /\ NoCall \notin Calls /\ App \notin Calls
  /\ OOB \in BOOLEAN /\ CanLose \in BOOLEAN
  /\ ReqPkts \in Nat \ {0} /\ RespPkts \in Nat \ {0} /\ MaxCancels \in Nat
  /\ Replies \subseteq Reply /\ "ok" \in Replies

VARIABLES
  \* The client: Conn and the goroutines using it.
  mu,         \* Conn.mu: the call holding it
  pc,         \* where each call is
  stage,      \* which part of processMessageCtx the reading belongs to
  sent,       \* packets of the request already written
  cur,        \* type of rbuf.CurrentPacket
  rerr,       \* the sticky error of rbuf, which only reset() clears
  alive,      \* Transport.Connected
  res,        \* the error, or "ok", each call returns
  ctxDone,    \* ctx.Err() /= nil
  breaker,    \* the goroutines that may run sendBreak
  breakSent,  \* Conn.breakSent
  cancels,    \* calls of Conn.Cancel so far
  \* The wire.
  c2s, s2c,   \* the two directions of the TCP stream, packet by packet
  urgent,     \* an urgent byte has reached the server and is not handled
  peer,       \* the server's end of the connection is up
  \* The server.
  srv, req, reply, left, final, owed,
  \* History, read by properties only.
  got,        \* whose response each call has consumed
  answer,     \* how the response it consumed ended
  targeted,   \* calls in progress when a Cancel of App took effect
  breaks,     \* breaks that passed the breakSent.Swap
  ran         \* calls the server has executed

clientVars == <<mu, pc, stage, sent, cur, rerr, alive, res>>
breakVars  == <<ctxDone, breaker, breakSent, cancels>>
wireVars   == <<c2s, s2c, urgent, peer>>
serverVars == <<srv, req, reply, left, final, owed>>
history    == <<got, answer, targeted, breaks, ran>>
vars == <<clientVars, breakVars, wireVars, serverVars, history>>

---------------------------------------------------------------------------
(* Packets.  What the client sends is a request packet, the one-byte       *)
(* FLUSH_OUT_BINDS message or a marker; what the server sends is a marker  *)
(* or a DATA packet of a response.  A "cancelled" response is ORA-01013.   *)

ClientMarker == {"interrupt", "break", "reset"}
ServerMarker == {"break", "reset"}
Data == Reply \cup {"cancelled"}

ToServer ==
  [type: {"request", "flush"}, call: Calls, last: BOOLEAN]
    \cup [type: ClientMarker, call: {NoCall}, last: {TRUE}]
ToClient == [type: ServerMarker \cup Data, from: SUBSET Calls, last: BOOLEAN]

Mark(m) == [type |-> m, call |-> NoCall, last |-> TRUE]
Ack(m)  == [type |-> m, from |-> {}, last |-> TRUE]

IsMarker(p) == p.type \in ServerMarker

Breakers == Calls \cup {App}

---------------------------------------------------------------------------
(* The client: steps of the goroutine that runs call k.  A definition      *)
(* named Faulty... is a variant with a plausible bug, never part of Next:  *)
(* each one breaks a property that the real definition keeps.              *)

Goto(k, step) == pc' = [pc EXCEPT ![k] = step]

\* processMessageLocked is over for call k, with error (or "ok") r.
Leave(k, r) == Goto(k, "stop") /\ res' = [res EXCEPT ![k] = r]

\* The call returns r and Conn.mu is unlocked.
Return(k, r) ==
  /\ Goto(k, "done")
  /\ res' = [res EXCEPT ![k] = r]
  /\ mu' = NoCall

\* Transport.WritePacket of p: appended to the stream, or failed, in which
\* case the transport is closed.  Once the peer is gone a write may still be
\* buffered by the kernel: it succeeds and nobody reads it.
Send(p) ==
  \/ alive /\ peer /\ c2s' = Append(c2s, p) /\ UNCHANGED alive
  \/ alive /\ ~peer /\ UNCHANGED <<c2s, alive>>
  \/ ~(alive /\ peer) /\ alive' = FALSE /\ UNCHANGED c2s

FaultyUnlocked == TRUE

\* mu.Lock does not block.
Unlocked == mu = NoCall

\* Lock, and the checks of processMessageCtx before anything is sent.
LockFails(k) ==
  /\ pc[k] = "ready" /\ Unlocked
  /\ ~alive \/ ctxDone[k]
  /\ Return(k, IF ~alive THEN "closed" ELSE "ctx")
  /\ UNCHANGED <<stage, sent, cur, rerr, alive, breakVars, wireVars, serverVars, history>>

\* Lock, the watcher started, packets saved for the previous call dropped.
Lock(k) ==
  /\ pc[k] = "ready" /\ Unlocked
  /\ alive /\ ~ctxDone[k]
  /\ mu' = k
  /\ breaker' = IF k \in CtxCalls THEN [breaker EXCEPT ![k] = "armed"] ELSE breaker
  /\ Goto(k, "write")
  /\ stage' = "first" /\ sent' = 0 /\ cur' = "none"
  /\ UNCHANGED <<rerr, alive, res, ctxDone, breakSent, cancels, wireVars, serverVars, history>>

\* One packet of the request leaves: the buffer was full, or EndRequest.
WriteRequest(k) ==
  /\ pc[k] = "write"
  /\ Send([type |-> "request", call |-> k, last |-> sent + 1 = ReqPkts])
  /\ \/ /\ alive'
        /\ sent' = sent + 1
        /\ Goto(k, IF sent + 1 = ReqPkts THEN "receive" ELSE "write")
        /\ UNCHANGED res
     \/ ~alive' /\ Leave(k, "closed") /\ UNCHANGED sent
  /\ UNCHANGED <<mu, stage, cur, rerr, breakVars, s2c, urgent, peer, serverVars, history>>

\* A bind value does not convert while the message is being written: the
\* call ends with deferredErr, whatever packets have gone out already.
WriteDefers(k) ==
  /\ pc[k] = "write" /\ k \in Deferrable
  /\ Leave(k, "deferred")
  /\ UNCHANGED <<mu, stage, sent, cur, rerr, alive, breakVars, wireVars, serverVars, history>>

\* WaitForPackets has a packet to start.
CanRead == alive /\ rerr = "none" /\ s2c # <<>>

Consume ==
  /\ s2c' = Tail(s2c)
  /\ cur' = IF IsMarker(Head(s2c)) THEN Head(s2c).type ELSE "data"

\* ReadPacket fails, at EOF or on a transport closed by another goroutine,
\* or rbuf is already in error.  The error is the call's, unless the call
\* was only cleaning up.
ReadFails(k) ==
  /\ pc[k] \in {"receive", "read", "drain", "skip"}
  /\ rerr # "none" \/ ~alive \/ (~peer /\ s2c = <<>>)
  /\ IF rerr # "none" THEN UNCHANGED <<rerr, alive>> ELSE rerr' = "closed" /\ alive' = FALSE
  /\ CASE stage = "late" -> Goto(k, "clear") /\ UNCHANGED res
       [] stage = "fail" -> Goto(k, "stop") /\ UNCHANGED res
       [] OTHER -> Leave(k, rerr')
  /\ UNCHANGED <<mu, stage, sent, cur, breakVars, c2s, s2c, urgent, peer, serverVars, history>>

\* A marker where a response should start: receivePacket resets.
ReceiveMarker(k) ==
  /\ pc[k] = "receive" /\ CanRead /\ IsMarker(Head(s2c))
  /\ Consume
  /\ Goto(k, "reset")
  /\ UNCHANGED <<mu, stage, sent, rerr, alive, res, breakVars, c2s, urgent, peer, serverVars, history>>

\* A marker inside a response is ErrMarkerDetected.  The first time the call
\* resets and processes again; a second time it is an error like any other;
\* after FLUSH_OUT_BINDS it is returned, and after the call it is ignored.
ReadMarker(k) ==
  /\ pc[k] = "read" /\ CanRead /\ IsMarker(Head(s2c))
  /\ Consume
  /\ rerr' = "marker"
  /\ CASE stage = "first" -> Goto(k, "reset") /\ stage' = "again" /\ UNCHANGED res
       [] stage = "again" -> Goto(k, "break") /\ stage' = "fail" /\ res' = [res EXCEPT ![k] = "marker"]
       [] stage = "flush" -> Leave(k, "marker") /\ UNCHANGED stage
       [] OTHER -> Goto(k, "clear") /\ UNCHANGED <<stage, res>>
  /\ UNCHANGED <<mu, sent, alive, breakVars, c2s, urgent, peer, serverVars, history>>

\* The call has consumed response packet p as (part of) its own answer.
Record(k, p) ==
  /\ got' = IF stage = "late" THEN got ELSE [got EXCEPT ![k] = @ \cup p.from]
  /\ answer' = IF stage = "late" \/ ~p.last THEN answer ELSE [answer EXCEPT ![k] = p.type]
  /\ UNCHANGED <<targeted, breaks, ran>>

\* errorOccurred is not looked at.
FaultyComplete(k, p) == Leave(k, "ok") /\ UNCHANGED <<stage, sent, alive>>

\* What processMessageLocked does with a complete response: resend for
\* "retry", a second round for "flush", else return; a dead session also
\* closes the transport.
Complete(k, p) ==
  CASE stage = "late" -> Goto(k, "clear") /\ UNCHANGED <<stage, sent, alive, res>>
    [] stage # "late" /\ p.type = "retry" ->
         Goto(k, "write") /\ stage' = "first" /\ sent' = 0 /\ UNCHANGED <<alive, res>>
    [] stage # "late" /\ p.type = "flush" -> Goto(k, "flush") /\ UNCHANGED <<stage, sent, alive, res>>
    [] stage # "late" /\ p.type = "dead" -> Leave(k, "error") /\ alive' = FALSE /\ UNCHANGED <<stage, sent>>
    [] OTHER -> Leave(k, p.type) /\ UNCHANGED <<stage, sent, alive>>

\* A DATA packet of a response, taken by receivePacket or by process.
ReadData(k) ==
  /\ pc[k] \in {"receive", "read"} /\ CanRead /\ ~IsMarker(Head(s2c))
  /\ Consume
  /\ Record(k, Head(s2c))
  /\ IF Head(s2c).last THEN Complete(k, Head(s2c))
                       ELSE Goto(k, "read") /\ UNCHANGED <<stage, sent, alive, res>>
  /\ UNCHANGED <<mu, rerr, breakVars, c2s, urgent, peer, serverVars>>

\* The error is returned without breaking the server off.
FaultyReadAborts(k) ==
  /\ pc[k] \in {"receive", "read"} /\ CanRead /\ k \in Abortable /\ Head(s2c).type = "ok"
  /\ Consume
  /\ Record(k, Head(s2c))
  /\ Leave(k, "local")
  /\ UNCHANGED <<mu, stage, sent, rerr, alive, breakVars, c2s, urgent, peer, serverVars>>

\* The client cannot process a packet of rows.  Only the first round of a
\* call then breaks the server off; later rounds just return.
ReadAborts(k) ==
  /\ pc[k] \in {"receive", "read"} /\ CanRead /\ k \in Abortable /\ Head(s2c).type = "ok"
  /\ Consume
  /\ Record(k, Head(s2c))
  /\ CASE stage = "late" -> Goto(k, "clear") /\ UNCHANGED <<stage, res>>
       [] stage = "flush" -> Leave(k, "local") /\ UNCHANGED stage
       [] OTHER -> Goto(k, "break") /\ stage' = "fail" /\ res' = [res EXCEPT ![k] = "local"]
  /\ UNCHANGED <<mu, sent, rerr, alive, breakVars, c2s, urgent, peer, serverVars>>

\* FLUSH_OUT_BINDS, sent after a first round that asked for it.
SendFlush(k) ==
  /\ pc[k] = "flush"
  /\ Send([type |-> "flush", call |-> k, last |-> TRUE])
  /\ IF alive' THEN Goto(k, "receive") /\ UNCHANGED res ELSE Leave(k, "closed")
  /\ stage' = "flush"
  /\ UNCHANGED <<mu, sent, cur, rerr, breakVars, s2c, urgent, peer, serverVars, history>>

\* No break before the reset.
FaultySendBreakMarker(k) ==
  /\ pc[k] = "break"
  /\ Goto(k, IF alive THEN "reset" ELSE "stop")
  /\ UNCHANGED <<mu, stage, sent, cur, rerr, alive, res, breakVars, wireVars, serverVars, history>>

\* The error path breaks the server off, then resets.
SendBreakMarker(k) ==
  /\ pc[k] = "break"
  /\ IF alive THEN Send(Mark("break")) /\ Goto(k, "reset")
              ELSE UNCHANGED <<c2s, alive>> /\ Goto(k, "stop")
  /\ UNCHANGED <<mu, stage, sent, cur, rerr, res, breakVars, s2c, urgent, peer, serverVars, history>>

\* Without ClearErr.
FaultySendReset(k) ==
  /\ pc[k] = "reset"
  /\ Send(Mark("reset"))
  /\ Goto(k, IF cur = "reset" THEN "skip" ELSE "drain")
  /\ UNCHANGED <<mu, stage, sent, cur, rerr, res, breakVars, s2c, urgent, peer, serverVars, history>>

\* reset(): the sticky error is cleared and a reset marker sent ...
SendReset(k) ==
  /\ pc[k] = "reset"
  /\ Send(Mark("reset"))
  /\ rerr' = "none"
  /\ Goto(k, IF cur = "reset" THEN "skip" ELSE "drain")
  /\ UNCHANGED <<mu, stage, sent, cur, res, breakVars, s2c, urgent, peer, serverVars, history>>

\* ... packets are discarded up to the server's reset marker ...
Drain(k) ==
  /\ pc[k] = "drain" /\ CanRead
  /\ Consume
  /\ Goto(k, IF Head(s2c).type = "reset" THEN "skip" ELSE "drain")
  /\ UNCHANGED <<mu, stage, sent, rerr, alive, res, breakVars, c2s, urgent, peer, serverVars, history>>

\* The error response of a failing call is left in the stream.
FaultySkipMarkers(k) ==
  /\ pc[k] = "skip" /\ CanRead
  /\ IF IsMarker(Head(s2c)) THEN Consume /\ UNCHANGED pc
     ELSE Goto(k, IF stage = "fail" THEN "stop" ELSE "read") /\ UNCHANGED <<s2c, cur>>
  /\ UNCHANGED <<mu, stage, sent, rerr, alive, res, breakVars, c2s, urgent, peer, serverVars, history>>

\* ... and so are the markers behind it.  The packet after them is the error
\* response: left to process, or dropped if the call is failing anyway.
SkipMarkers(k) ==
  /\ pc[k] = "skip" /\ CanRead
  /\ IF IsMarker(Head(s2c)) THEN Consume /\ UNCHANGED pc
     ELSE IF stage = "fail" THEN Consume /\ Goto(k, "stop")
     ELSE Goto(k, "read") /\ UNCHANGED <<s2c, cur>>
  /\ UNCHANGED <<mu, stage, sent, rerr, alive, res, breakVars, c2s, urgent, peer, serverVars, history>>

\* An answer to the break is expected even after an error.
FaultyAwaitsAnswer(k) == alive

\* After a call without an error the server has yet to answer the break.
AwaitsAnswer(k) == alive /\ res[k] = "ok"

\* No interrupt marker pairs the urgent byte.
FaultyPairUrgent(k) == UNCHANGED <<c2s, alive>>

PairUrgent(k) ==
  IF OOB /\ alive /\ res[k] # "closed" THEN Send(Mark("interrupt")) ELSE UNCHANGED <<c2s, alive>>

\* Back in processMessageCtx: stop() tells the watcher to go, and if a break
\* went out the call cleans up after it before it returns.
Stop(k) ==
  /\ pc[k] = "stop"
  /\ breaker' = [breaker EXCEPT ![k] = IF @ = "armed" THEN "stopping" ELSE @]
  /\ \/ /\ ~breakSent
        /\ Return(k, res[k])
        /\ UNCHANGED <<stage, c2s, alive>>
     \/ /\ breakSent
        /\ PairUrgent(k)
        /\ IF AwaitsAnswer(k) THEN Goto(k, "receive") /\ stage' = "late"
                              ELSE Goto(k, "clear") /\ UNCHANGED stage
        /\ UNCHANGED <<mu, res>>
  /\ UNCHANGED <<sent, cur, rerr, ctxDone, breakSent, cancels, s2c, urgent, peer, serverVars, history>>

\* breakSent.Store(false); a call whose context is done returns its error.
Clear(k) ==
  /\ pc[k] = "clear"
  /\ breakSent' = FALSE
  /\ Return(k, IF ctxDone[k] THEN "ctx" ELSE res[k])
  /\ UNCHANGED <<stage, sent, cur, rerr, alive, ctxDone, breaker, cancels, wireVars, serverVars, history>>

CallStep(k) ==
  \/ LockFails(k) \/ Lock(k) \/ WriteRequest(k) \/ WriteDefers(k) \/ ReadFails(k)
  \/ ReceiveMarker(k) \/ ReadMarker(k) \/ ReadData(k) \/ ReadAborts(k) \/ SendFlush(k)
  \/ SendBreakMarker(k) \/ SendReset(k) \/ Drain(k) \/ SkipMarkers(k) \/ Stop(k) \/ Clear(k)

---------------------------------------------------------------------------
(* Cancellation: the contexts, their watchers and the application.         *)

\* A deadline passes, or the caller's cancel function runs: during the call,
\* before it or after it (the "defer cancel()" of every caller).
CancelCtx(k) ==
  /\ k \in CtxCalls /\ ~ctxDone[k]
  /\ ctxDone' = [ctxDone EXCEPT ![k] = TRUE]
  /\ UNCHANGED <<clientVars, breaker, breakSent, cancels, wireVars, serverVars, history>>

\* b enters sendBreak: a watcher whose context is done, even if stop() has
\* closed its other channel since (select takes either ready case), or App.
WantsBreak(b) ==
  IF b = App THEN breaker[App] = "off" /\ cancels < MaxCancels
             ELSE breaker[b] \in {"armed", "stopping"} /\ ctxDone[b]

\* sendBreak up to the Swap.  One break at a time may be outstanding.
SwapBreakSent(b) ==
  /\ WantsBreak(b)
  /\ cancels' = IF b = App THEN cancels + 1 ELSE cancels
  /\ IF ~alive \/ breakSent
     THEN breaker' = [breaker EXCEPT ![b] = "off"] /\ UNCHANGED <<breakSent, breaks, targeted>>
     ELSE /\ breaker' = [breaker EXCEPT ![b] = "fired"]
          /\ breakSent' = TRUE
          /\ breaks' = breaks + 1
          /\ targeted' = IF b = App THEN targeted \cup ({mu} \ {NoCall}) ELSE targeted
  /\ UNCHANGED <<clientVars, ctxDone, wireVars, serverVars, got, answer, ran>>

\* The rest of sendBreak: an urgent byte, or an interrupt marker written
\* through a buffer of its own, between any two packets of the call.
SendBreak(b) ==
  /\ breaker[b] = "fired"
  /\ breaker' = [breaker EXCEPT ![b] = "off"]
  /\ IF OOB /\ alive THEN urgent' = peer /\ UNCHANGED <<c2s, alive>>
                     ELSE Send(Mark("interrupt")) /\ UNCHANGED urgent
  /\ UNCHANGED <<mu, pc, stage, sent, cur, rerr, res, ctxDone, breakSent, cancels,
                 s2c, peer, serverVars, history>>

\* The watcher sees that the call is over.
WatcherExits(k) ==
  /\ k \in Calls /\ breaker[k] = "stopping"
  /\ breaker' = [breaker EXCEPT ![k] = "off"]
  /\ UNCHANGED <<clientVars, ctxDone, breakSent, cancels, wireVars, serverVars, history>>

BreakStep(b) == SwapBreakSent(b) \/ SendBreak(b) \/ WatcherExits(b)

---------------------------------------------------------------------------
(* The server, as conn.go and its comments describe it.  A break stops the *)
(* call it is executing: the server sends a break marker, discards what    *)
(* the client has sent until a reset marker, answers with one, and then    *)
(* with ORA-01013.  Between calls a marker starts the same handshake; an   *)
(* urgent byte is only noticed while a call runs or with its marker.       *)

Arrived(types) == peer /\ c2s # <<>> /\ Head(c2s).type \in types

\* A packet of a request.  Packets up to the one marked last are one request.
ServerReceives ==
  /\ srv \in {"idle", "partial"} /\ Arrived({"request", "flush"})
  /\ c2s' = Tail(c2s)
  /\ req' = req \cup {Head(c2s).call}
  /\ srv' = IF Head(c2s).last THEN "executing" ELSE "partial"
  /\ final' = (Head(c2s).type = "flush")
  /\ owed' = FALSE
  /\ UNCHANGED <<clientVars, breakVars, s2c, urgent, peer, reply, left, history>>

\* The call has run; a call is asked to flush its out binds only once.
ServerExecutes ==
  /\ peer /\ srv = "executing"
  /\ \E r \in Replies :
       /\ final => r # "flush"
       /\ reply' = r
       /\ left' = IF r = "ok" THEN RespPkts ELSE 1
  /\ srv' = "replying"
  /\ ran' = ran \cup req
  /\ UNCHANGED <<clientVars, breakVars, wireVars, req, final, owed, got, answer, targeted, breaks>>

\* The next packet of the response; a dead session is closed behind it.
ServerReplies ==
  /\ peer /\ srv = "replying"
  /\ s2c' = Append(s2c, [type |-> reply, from |-> req, last |-> left = 1])
  /\ left' = left - 1
  /\ IF left = 1 THEN srv' = "idle" /\ req' = {} /\ peer' = (reply # "dead")
                 ELSE UNCHANGED <<srv, req, peer>>
  /\ UNCHANGED <<clientVars, breakVars, c2s, urgent, reply, final, owed, history>>

\* A break reaches a call that is running or answering.  An urgent byte is
\* still owed the interrupt marker the client sends after it.
ServerBreaks ==
  /\ srv \in {"executing", "replying"}
  /\ \/ peer /\ urgent /\ urgent' = FALSE /\ owed' = TRUE /\ UNCHANGED c2s
     \/ ~urgent /\ Arrived({"interrupt", "break"}) /\ c2s' = Tail(c2s) /\ UNCHANGED <<urgent, owed>>
  /\ s2c' = Append(s2c, Ack("break"))
  /\ srv' = "resetting"
  /\ UNCHANGED <<clientVars, breakVars, peer, req, reply, left, final, history>>

\* A marker between calls: the one owed to an urgent byte already acted on
\* is absorbed, any other starts the handshake.
ServerIdleMarker ==
  /\ srv \in {"idle", "partial"} /\ Arrived({"interrupt", "break"})
  /\ c2s' = Tail(c2s)
  /\ IF owed /\ Head(c2s).type = "interrupt"
     THEN owed' = FALSE /\ UNCHANGED <<s2c, urgent, srv>>
     ELSE /\ s2c' = Append(s2c, Ack("break"))
          /\ urgent' = FALSE
          /\ srv' = "resetting"
          /\ UNCHANGED owed
  /\ UNCHANGED <<clientVars, breakVars, peer, req, reply, left, final, history>>

\* Everything before the reset marker is discarded.
ServerDiscards ==
  /\ srv = "resetting" /\ Arrived({"request", "flush", "interrupt", "break"})
  /\ c2s' = Tail(c2s)
  /\ UNCHANGED <<clientVars, breakVars, s2c, urgent, peer, serverVars, history>>

ServerResets ==
  /\ srv = "resetting" /\ Arrived({"reset"})
  /\ c2s' = Tail(c2s)
  /\ s2c' = s2c \o <<Ack("reset"), [type |-> "cancelled", from |-> req, last |-> TRUE]>>
  /\ srv' = "idle" /\ req' = {}
  /\ UNCHANGED <<clientVars, breakVars, urgent, peer, reply, left, final, owed, history>>

ServerStep ==
  \/ ServerReceives \/ ServerExecutes \/ ServerReplies \/ ServerBreaks
  \/ ServerIdleMarker \/ ServerDiscards \/ ServerResets

\* The connection goes down; what the server had sent may be lost with it.
Lose ==
  /\ CanLose /\ peer
  /\ peer' = FALSE
  /\ c2s' = <<>> /\ urgent' = FALSE
  /\ s2c' \in {s2c, <<>>}
  /\ UNCHANGED <<clientVars, breakVars, serverVars, history>>

---------------------------------------------------------------------------
Init ==
  /\ mu = NoCall
  /\ pc = [k \in Calls |-> "ready"]
  /\ stage = "first" /\ sent = 0 /\ cur = "none" /\ rerr = "none" /\ alive = TRUE
  /\ res = [k \in Calls |-> "none"]
  /\ ctxDone = [k \in Calls |-> FALSE]
  /\ breaker = [b \in Breakers |-> "off"]
  /\ breakSent = FALSE /\ cancels = 0
  /\ c2s = <<>> /\ s2c = <<>> /\ urgent = FALSE /\ peer = TRUE
  /\ srv = "idle" /\ req = {} /\ reply = "ok" /\ left = 0 /\ final = FALSE /\ owed = FALSE
  /\ got = [k \in Calls |-> {}]
  /\ answer = [k \in Calls |-> "none"]
  /\ targeted = {} /\ breaks = 0 /\ ran = {}

\* Every call has returned; the session stays as it is.
Finished == (\A k \in Calls : pc[k] = "done") /\ UNCHANGED vars

Next ==
  \/ \E k \in Calls : CallStep(k) \/ CancelCtx(k)
  \/ \E b \in Breakers : BreakStep(b)
  \/ ServerStep
  \/ Lose
  \/ Finished

Spec == Init /\ [][Next]_vars

\* Goroutines are scheduled, and the server works off what it receives.
\* Contexts, App and the network owe nobody anything.
Fairness ==
  /\ \A k \in Calls : WF_vars(CallStep(k))
  /\ \A b \in Breakers : WF_vars(SendBreak(b))
  /\ WF_vars(ServerStep)

FairSpec == Spec /\ Fairness

---------------------------------------------------------------------------
\* Where a call can be; "ready" and "done" are outside Conn.mu.
Steps == {"ready", "write", "receive", "read", "flush", "break", "reset", "drain", "skip",
          "stop", "clear", "done"}

\* What a call can end with, "none" before it has.
Results == {"none", "ctx", "deferred", "local", "marker", "closed"} \cup Data

\* Every variable of Conn, its buffers, the wire and the server has its type;
\* in particular no request ever exceeds its packets.
TypeOK ==
  /\ mu \in Calls \cup {NoCall}
  /\ pc \in [Calls -> Steps]
  /\ stage \in {"first", "again", "flush", "fail", "late"}
  /\ sent \in 0 .. ReqPkts
  /\ cur \in {"none", "data"} \cup ServerMarker
  /\ rerr \in {"none", "marker", "closed"}
  /\ alive \in BOOLEAN
  /\ res \in [Calls -> Results]
  /\ ctxDone \in [Calls -> BOOLEAN]
  /\ breaker \in [Breakers -> {"off", "armed", "stopping", "fired"}]
  /\ breakSent \in BOOLEAN
  /\ cancels \in 0 .. MaxCancels
  /\ c2s \in Seq(ToServer)
  /\ s2c \in Seq(ToClient)
  /\ urgent \in BOOLEAN /\ peer \in BOOLEAN
  /\ srv \in {"idle", "partial", "executing", "replying", "resetting"}
  /\ req \in SUBSET Calls
  /\ reply \in Reply
  /\ left \in 0 .. RespPkts
  /\ final \in BOOLEAN /\ owed \in BOOLEAN
  /\ got \in [Calls -> SUBSET Calls]
  /\ answer \in [Calls -> Data \cup {"none"}]
  /\ targeted \in SUBSET Calls
  /\ breaks \in Nat
  /\ ran \in SUBSET Calls

---------------------------------------------------------------------------
(* Safety.                                                                 *)

\* Conn.mu: a call is inside processMessageCtx exactly while it holds the
\* lock, so that the buffers, the transport and breakSent have one user.
Holder == \A k \in Calls : pc[k] \notin {"ready", "done"} <=> mu = k

\* Request and response stay paired: what a call consumes as its response was
\* sent for it, however breaks, resets, resends and failures interleave.
OwnResponse == \A k \in Calls : got[k] \subseteq {k}

\* On a live session every DATA packet under way, an ORA-01013 apart, answers
\* the call in progress: no call leaves a piece of its response to the next.
DataBelongsToHolder ==
  alive => \A i \in DOMAIN s2c : s2c[i].type \in Reply => mu # NoCall /\ s2c[i].from = {mu}

\* reset() and sendBreak never get out of step with the server: it receives a
\* reset marker only while it is discarding up to one.
ResetExpected == Arrived({"reset"}) => srv = "resetting"

\* With in-band breaks, one break fails at most one call with ORA-01013.
OneVictimPerBreak == Cardinality({k \in Calls : answer[k] = "cancelled"}) <= breaks

\* The sticky error of the read buffer does not outlive its call unless the
\* session is closed: the next call starts with a read buffer that reads.
UsableBetweenCalls == mu = NoCall /\ alive => rerr = "none"

\* The session as CallService: a call that fails before it is done reports
\* nothing yet, and every result but "ok" is a failure.
Outcome ==
  [k \in Calls |-> IF pc[k] # "done" THEN "none" ELSE IF res[k] = "ok" THEN "ok" ELSE "failed"]
Service == INSTANCE CallService WITH active <- mu, executed <- ran, outcome <- Outcome
Implements == Service!Spec

(* Liveness.                                                               *)

\* Every call returns: no handshake leaves client and server waiting for each
\* other, and no call waits for an answer to a break already consumed.
CallsReturn == \A k \in Calls : pc[k] = "ready" ~> pc[k] = "done"

---------------------------------------------------------------------------
(* What comments and tests of the repository say, and the code does not do *)

\* conn.go: "Cancel interrupts the call currently in progress", and "if ctx is
\* cancelled mid round trip a break is sent": only a call whose own context is
\* done, or during which Cancel was called, is answered ORA-01013.
CancelHitsOwnCall ==
  \A k \in Calls : answer[k] = "cancelled" => ctxDone[k] \/ k \in targeted

\* conn.go: "the server's marker/error response is consumed so the next
\* request starts clean": once breakSent is clear again and no goroutine is
\* inside sendBreak, nothing of a break is left behind between two calls.
NextRequestStartsClean ==
  alive /\ mu = NoCall /\ ~breakSent /\ (\A b \in Breakers : breaker[b] # "fired")
    => c2s = <<>> /\ s2c = <<>> /\ srv = "idle" /\ ~urgent

\* readbuf.go: ErrMarkerDetected is answered by the protocol layer, which
\* "resets the connection state": no call returns it.
MarkersAreReset == \A k \in Calls : res[k] # "marker"

\* conn.go: "processMessage sends a request and processes the complete
\* response": what the server executes is one call's request.
WholeRequests == Cardinality(req) <= 1

=============================================================================
