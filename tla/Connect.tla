------------------------------ MODULE Connect ------------------------------
(***************************************************************************)
(* Dial of internal/ttc/conn.go: the addresses tried in order, each with   *)
(* its TNS connect handshake (connectAddress, connect.go), redirects,      *)
(* resends and the second pass that turns native network encryption (ANO)  *)
(* on, then the messages of authenticate.  The listener and the server     *)
(* answer as the code expects they may, or not at all.                     *)
(***************************************************************************)
EXTENDS Naturals, Sequences

CONSTANTS
  Addresses,  \* the number of addresses in the configuration
  Levels,     \* the values of adbc.oracle.nne and its checksum equivalent
  Channels,   \* "tcp", or "tcps": the driver gives all addresses the same
  Sdus,       \* the packet sizes configured and accepted
  HashSize,   \* bytes of the checksum of a packet
  MaxHops     \* bound: redirects and resends the listeners answer with

Services == {"enc", "chk"}
Level == {"rejected", "accepted", "requested", "required"}
Granted == {"oob", "check", "fast", "eor"}

ASSUME ConnectAssumption ==
  /\ Addresses \in Nat \ {0} /\ MaxHops \in Nat
  /\ Levels \subseteq Level /\ Channels \subseteq {"tcp", "tcps"}
  /\ HashSize \in Nat /\ Sdus \subseteq Nat
  /\ \A s \in Sdus : s > HashSize + 18

VARIABLES
  conf,     \* Config: the level of each service, the channel, DisableOOB, SDU
  pc,       \* where Dial is
  addr,     \* the address in hand
  ano,      \* allowANO of the connectAddress in progress
  caps,     \* flags of Capabilities; "large" is ProtocolVersion >= 315
  sdu,      \* Capabilities.SDU
  room,     \* WriteBuffer.maxSize
  sock,     \* Conn.transport: none, open, or marked closed
  prot,     \* the services of Transport.security
  sent,     \* what the last CONNECT said: its framing, "oob", "ano"
  granted,  \* what the ACCEPT on this socket granted
  todo,     \* messages authenticate has yet to send
  saved,    \* supportsEOR of authenticate
  hops,     \* redirects and resends so far
  opened,   \* sockets of this process that nobody has closed
  dropped,  \* sockets marked closed by a failed read or write
  result    \* what Dial returned

vars == <<conf, pc, addr, ano, caps, sdu, room, sock, prot, sent, granted,
          todo, saved, hops, opened, dropped, result>>

Configured == \E s \in Services : conf.level[s] # "rejected"
ClientANO == \E s \in Services : conf.level[s] \in {"requested", "required"}
Required == {s \in Services : conf.level[s] = "required"}

Overhead(p) == IF p = {} THEN 0
               ELSE 1 + (IF "chk" \in p THEN HashSize ELSE 0)
                      + (IF "enc" \in p THEN 17 ELSE 0)

----------------------------------------------------------------------------
\* Fault: the flag of Transport is not looked at, or not kept.
FaultyCloseSocket == opened' = opened - 1 /\ UNCHANGED dropped

\* Transport.Close does nothing to a socket a failed read has marked closed.
CloseSocket ==
  /\ opened' = IF sock = "open" THEN opened - 1 ELSE opened
  /\ UNCHANGED dropped

\* The error of connectAddress: the next address, or the end.
NextAddress ==
  /\ sock' = "none" /\ prot' = {} /\ granted' = {}
  /\ IF addr < Addresses
     THEN /\ addr' = addr + 1 /\ pc' = "dial" /\ ano' = ClientANO
          /\ UNCHANGED result
     ELSE /\ pc' = "done" /\ result' = "error" /\ UNCHANGED <<addr, ano>>
  /\ UNCHANGED <<conf, sent, todo, saved, hops>>

\* The next address starts with the capabilities the last one left behind.
AddressFails == CloseSocket /\ NextAddress /\ UNCHANGED <<caps, sdu, room>>

DialFails == pc = "dial" /\ AddressFails

\* dialTCP: over tcps the TCP connection is only the start.
DialSucceeds ==
  /\ pc = "dial" /\ pc' = IF conf.channel = "tcps" THEN "tls" ELSE "connect"
  /\ sock' = "open" /\ opened' = opened + 1
  /\ prot' = {} /\ granted' = {} /\ room' = sdu
  /\ UNCHANGED <<conf, addr, ano, caps, sdu, sent, todo, saved, hops, dropped, result>>

\* UpgradeTLS, on dialling and on a renegotiation.  No deadline is set: the
\* peer may leave the handshake where it is, and Dial with it.
TlsSucceeds ==
  /\ pc = "tls" /\ pc' = "connect"
  /\ UNCHANGED <<conf, addr, ano, caps, sdu, room, sock, prot, sent, granted, todo,
                 saved, hops, opened, dropped, result>>

TlsFails == pc = "tls" /\ AddressFails

\* Fault: the length of a CONNECT is always short, whatever caps remembers.
FaultySendConnect ==
  /\ pc = "connect" /\ pc' = "await"
  /\ sent' = (caps \cap {"oob"}) \cup (IF ano THEN {"ano"} ELSE {})
  /\ UNCHANGED <<conf, addr, ano, caps, sdu, room, sock, prot, granted, todo,
                 saved, hops, opened, dropped, result>>

SendConnect ==
  /\ pc = "connect" /\ pc' = "await"
  /\ sent' = (caps \cap {"large", "oob"}) \cup (IF ano THEN {"ano"} ELSE {})
  /\ UNCHANGED <<conf, addr, ano, caps, sdu, room, sock, prot, granted, todo,
                 saved, hops, opened, dropped, result>>

\* A CONNECT with the length of an established session says nothing to a
\* listener: only a failed read ends the wait for its answer.
Answered == pc = "await" /\ "large" \notin sent

\* REFUSE, a version below 12.1, a redirect that cannot be followed.  The code
\* of a refusal is looked for in refuseMessage, which nothing sets: no refusal
\* ends the search.
Refuses == Answered /\ AddressFails

\* Fault: a redirect leaves the old socket to the new one.
FaultyRedirects ==
  /\ Answered /\ hops < MaxHops /\ hops' = hops + 1
  /\ sock' = "closed" /\ pc' = "dial"
  /\ UNCHANGED <<conf, addr, ano, caps, sdu, room, prot, sent, granted, todo,
                 saved, opened, dropped, result>>

Redirects ==
  /\ Answered /\ hops < MaxHops /\ hops' = hops + 1
  /\ CloseSocket /\ sock' = "closed" /\ pc' = "dial"
  /\ UNCHANGED <<conf, addr, ano, caps, sdu, room, prot, sent, granted, todo,
                 saved, result>>

\* RESEND; over tcps it may come with PacketFlagTLSReneg.
Resends ==
  /\ Answered /\ hops < MaxHops /\ hops' = hops + 1
  /\ pc' = "connect" \/ (conf.channel = "tcps" /\ pc' = "tls")
  /\ UNCHANGED <<conf, addr, ano, caps, sdu, room, sock, prot, sent, granted,
                 todo, saved, opened, dropped, result>>

\* AdjustForProtocol only ever adds, but for out-of-band breaks.
Adjusted(flags) == (caps \ {"oob"}) \cup flags \cup {"large"}

Accepts ==
  \E flags \in SUBSET Granted, size \in Sdus :
    /\ Answered
    /\ caps' = Adjusted(flags) /\ granted' = flags /\ sdu' = size
    /\ room' = size - Overhead(prot)
    /\ pc' = IF ano THEN "negotiate" ELSE "verify"
    /\ UNCHANGED <<conf, addr, ano, sock, prot, sent, todo, saved, hops, opened,
                   dropped, result>>

\* An ACCEPT that demands encryption of a client that has none configured.
AcceptsInVain ==
  \E flags \in SUBSET Granted, size \in Sdus :
    /\ Answered /\ ~ano /\ ~Configured
    /\ caps' = Adjusted(flags) /\ sdu' = size /\ room' = size - Overhead(prot)
    /\ CloseSocket /\ NextAddress

\* Fault: the retry passes clientANO on, as the first pass does.
FaultyRetryWithANO ==
  /\ Answered /\ ~ano /\ Configured
  /\ CloseSocket /\ sock' = "none"
  /\ caps' = {} /\ sdu' = conf.sdu /\ pc' = "dial"
  /\ UNCHANGED <<conf, addr, ano, room, prot, sent, granted, todo, saved, hops, result>>

\* errRetryWithANO: the same address again, with fresh capabilities.
RetryWithANO ==
  /\ Answered /\ ~ano /\ Configured
  /\ CloseSocket /\ sock' = "none"
  /\ caps' = {} /\ sdu' = conf.sdu /\ ano' = TRUE /\ pc' = "dial"
  /\ UNCHANGED <<conf, addr, room, prot, sent, granted, todo, saved, hops, result>>

----------------------------------------------------------------------------
\* Faults: out-of-band breaks stay on; the buffer keeps the size of the ACCEPT.
FaultyUrgent(p) ==
  /\ prot' = p /\ UNCHANGED caps
  /\ room' = IF p = {} THEN room ELSE sdu - Overhead(p)

FaultyRoom(p) ==
  /\ prot' = p /\ UNCHANGED room
  /\ caps' = IF p = {} THEN caps ELSE caps \ {"oob"}

Protect(p) ==
  /\ prot' = p
  /\ room' = IF p = {} THEN room ELSE sdu - Overhead(p)
  /\ caps' = IF p = {} THEN caps ELSE caps \ {"oob"}

Negotiates ==
  \E p \in SUBSET {s \in Services : conf.level[s] # "rejected"} :
    /\ pc = "negotiate" /\ pc' = "verify"
    /\ Protect(p)
    /\ UNCHANGED <<conf, addr, ano, sdu, sock, sent, granted, todo, saved, hops,
                   opened, dropped, result>>

NegotiationFails == pc = "negotiate" /\ AddressFails

\* Fault: some protection is taken for the one required.
FaultySatisfied == conf.channel = "tcps" \/ Required = {} \/ prot # {}

\* verifyNNERequirement, then the first half of authenticate.
Satisfied == conf.channel = "tcps" \/ Required \subseteq prot

\* A password takes a second authentication message, a token does not.
Messages == (IF "fast" \in caps THEN <<"fast">> ELSE <<"protocol", "types", "auth">>)
              \o (IF conf.logon = "password" THEN <<"auth">> ELSE <<>>)

StartsAuthentication ==
  \E oobFails \in BOOLEAN :
    /\ pc = "verify" /\ Satisfied /\ pc' = "auth"
    /\ LET plain == IF conf.channel = "tcps" THEN caps \ {"oob"} ELSE caps
           tried == IF oobFails /\ {"oob", "check"} \subseteq plain
                    THEN plain \ {"oob"} ELSE plain
       IN caps' = IF "fast" \in caps THEN tried ELSE tried \ {"eor"}
    /\ saved' = caps \cap {"eor"} /\ todo' = Messages
    /\ UNCHANGED <<conf, addr, ano, sdu, room, sock, prot, sent, granted, hops,
                   opened, dropped, result>>

\* Once the connection is made an error is final.
GivesUp ==
  /\ pc' = "done" /\ result' = "error"
  /\ UNCHANGED <<conf, addr, ano, caps, sdu, room, prot, sent, granted, todo,
                 saved, hops>>

Unsatisfied ==
  pc = "verify" /\ ~Satisfied /\ CloseSocket /\ sock' = "closed" /\ GivesUp

\* The server answers the message at the head of todo; a control packet may
\* come with the answer and say that urgent bytes do not get through.
Authenticates ==
  \E lost \in SUBSET {"oob"} :
    /\ pc = "auth" /\ todo # <<>>
    /\ todo' = Tail(todo)
    /\ caps' = (caps \cup (IF Tail(todo) # <<>> /\ Head(Tail(todo)) = "auth"
                           THEN saved ELSE {})) \ lost
    /\ UNCHANGED <<conf, pc, addr, ano, sdu, room, sock, prot, sent, granted,
                   saved, hops, opened, dropped, result>>

Rejects ==
  pc = "auth" /\ todo # <<>> /\ CloseSocket /\ sock' = "closed" /\ GivesUp

Connected ==
  /\ pc = "auth" /\ todo = <<>>
  /\ pc' = "done" /\ result' = "ok"
  /\ UNCHANGED <<conf, addr, ano, caps, sdu, room, sock, prot, sent, granted,
                 todo, saved, hops, opened, dropped>>

\* A timeout, an end of file or a broken socket: Transport marks itself
\* closed, and Close, which comes next, takes it at its word.
Drop == dropped' = dropped + 1 /\ UNCHANGED opened

LinkFails ==
  \/ /\ pc \in {"connect", "await", "negotiate"}
     /\ Drop /\ NextAddress /\ UNCHANGED <<caps, sdu, room>>
  \/ /\ pc = "auth" /\ todo # <<>>
     /\ Drop /\ sock' = "closed" /\ GivesUp

----------------------------------------------------------------------------
Conf == [level: [Services -> Levels], channel: Channels, urgent: BOOLEAN,
         logon: {"password", "token"}, sdu: Sdus]

Init ==
  /\ conf \in Conf
  /\ pc = "dial" /\ addr = 1 /\ ano = ClientANO
  /\ caps = IF conf.channel = "tcp" /\ conf.urgent /\ ~ClientANO THEN {"oob"} ELSE {}
  /\ sdu = conf.sdu /\ room = 0
  /\ sock = "none" /\ prot = {} /\ sent = {} /\ granted = {}
  /\ todo = <<>> /\ saved = {} /\ hops = 0
  /\ opened = 0 /\ dropped = 0 /\ result = "none"

Handshake ==
  \/ DialFails \/ DialSucceeds \/ SendConnect \/ Refuses \/ Redirects \/ Resends
  \/ Accepts \/ AcceptsInVain \/ RetryWithANO \/ Negotiates \/ NegotiationFails

TlsHandshake == TlsSucceeds \/ TlsFails

Logon ==
  StartsAuthentication \/ Unsatisfied \/ Authenticates \/ Rejects \/ Connected

Done == pc = "done" /\ UNCHANGED vars

Next == Handshake \/ TlsHandshake \/ Logon \/ LinkFails \/ Done

Spec == Init /\ [][Next]_vars

\* ConnectTimeout bounds the dialling and every ReadPacket, so that these steps
\* are not put off for ever.  It does not bound a TLS handshake: no fairness.
FairSpec == Spec /\ WF_vars(Handshake \/ Logon \/ LinkFails)

----------------------------------------------------------------------------
\* Types of the variables.
TypeOK ==
  /\ conf \in Conf
  /\ pc \in {"dial", "tls", "connect", "await", "negotiate", "verify", "auth", "done"}
  /\ addr \in 1..Addresses /\ ano \in BOOLEAN
  /\ caps \subseteq Granted \cup {"large"} /\ sdu \in Sdus /\ room \in Nat
  /\ sock \in {"none", "open", "closed"} /\ prot \subseteq Services
  /\ sent \subseteq {"large", "oob", "ano"} /\ granted \subseteq Granted
  /\ todo \in Seq({"fast", "protocol", "types", "auth"}) /\ saved \subseteq {"eor"}
  /\ hops \in 0..MaxHops /\ opened \in Nat /\ dropped \in Nat
  /\ result \in {"none", "ok", "error"}

\* verifyNNERequirement fails closed: no message of the logon is sent, and no
\* connection returned, unless every required service protects this very
\* socket or TLS does.
FailClosed ==
  pc = "auth" \/ result = "ok" =>
    sock = "open" /\ (conf.channel = "tcps" \/ Required \subseteq prot)

\* A raw urgent byte never bypasses protected packets: a connection that
\* breaks calls out of band is plain TCP without security (conn.go:490-494).
UrgentOnlyInClear ==
  result = "ok" /\ "oob" \in caps => conf.channel = "tcp" /\ prot = {}

\* A full write buffer makes a packet of exactly the negotiated size once
\* checksum, padding and key byte are added, after every change of either.
PacketsFit == sock = "open" => room + Overhead(prot) = sdu

\* Fast authentication and end-of-response are used with a server exactly if
\* the ACCEPT on this socket granted them, whatever an earlier address said
\* and although the flags are put off for the first messages.
CapabilitiesAreServers ==
  result = "ok" => caps \cap {"fast", "eor"} = granted \cap {"fast", "eor"}

\* Through redirects, retries and failed addresses Dial closes each socket
\* before it opens the next, except those a failed read marked closed.
SocketsAccounted == opened = dropped + (IF sock = "open" THEN 1 ELSE 0)

\* Dial returns, each address being left after one retry at most; only a peer
\* that goes silent in a TLS handshake can keep it for ever.
DialEnds == <>(pc = "done") \/ <>[](pc = "tls")

\* README.md, connect_timeout: "Dial timeout".  Violated: nothing bounds a TLS
\* handshake.
EveryDialEnds == <>(pc = "done")

\* "Close closes the socket." (transport.go:66): an error of Dial leaves none.
SocketsClosed == result = "error" => opened = 0

\* A listener is sent a CONNECT "framed as an initial handshake" (conn.go:162).
InitialFraming == pc = "await" => "large" \notin sent
============================================================================
