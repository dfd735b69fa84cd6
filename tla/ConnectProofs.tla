--------------------------- MODULE ConnectProofs ---------------------------
(***************************************************************************)
(* Proofs about Connect for any number of addresses, levels, packet sizes  *)
(* and redirects: the types, and that a connection is protected as the     *)
(* configuration requires, breaks calls in a way its protection allows,    *)
(* sends packets that fit, and accounts for every socket.                  *)
(***************************************************************************)
EXTENDS Connect, SequenceTheorems, TLAPS

Returned == pc = "auth" \/ result = "ok"

\* The transport is open from the dial to the end of a connection.
Lives ==
  /\ sock = "open" <=> pc \in {"tls", "connect", "await", "negotiate", "verify", "auth"} \/ result = "ok"
  /\ result = "none" <=> pc # "done"

\* Security is installed by the negotiation alone, and rules out urgent bytes.
Secured ==
  /\ pc \in {"dial", "tls", "connect", "await", "negotiate"} => prot = {}
  /\ pc = "verify" \/ Returned => prot = {} \/ "oob" \notin caps
  /\ Returned => conf.channel = "tcp" \/ "oob" \notin caps

\* Flags of an ACCEPT are there only with its protocol version, which makes
\* the next CONNECT unintelligible: so they never meet another ACCEPT.
Fresh ==
  /\ "large" \in caps \/ caps \cap {"fast", "eor"} = {}
  /\ pc \in {"negotiate", "verify"} \/ Returned => "large" \in caps
  /\ pc = "await" => ("large" \in sent <=> "large" \in caps)
  /\ pc \in {"negotiate", "verify"} => caps \cap {"fast", "eor"} = granted \cap {"fast", "eor"}

\* What is left of the logon, and where end-of-response is put off.
PutOff == {<<"protocol", "types", "auth", "auth">>, <<"protocol", "types", "auth">>,
           <<"types", "auth", "auth">>, <<"types", "auth">>}
PutBack == {<<"fast", "auth">>, <<"fast">>, <<"auth", "auth">>, <<"auth">>, <<>>}

Logging ==
  Returned =>
    /\ "fast" \in caps <=> "fast" \in granted
    /\ saved = granted \cap {"eor"}
    /\ todo \in PutOff \cup PutBack
    /\ todo \in PutBack => ("eor" \in caps <=> "eor" \in granted)
    /\ todo \notin PutBack => "eor" \notin caps
    /\ result = "ok" => todo = <<>>

IInv == /\ TypeOK /\ Lives /\ Secured /\ FailClosed /\ PacketsFit
        /\ SocketsAccounted /\ Fresh /\ Logging

----------------------------------------------------------------------------
\* Overhead fits into every packet size.
LEMMA OverheadFits ==
  ASSUME NEW p \in SUBSET Services, NEW s \in Sdus
  PROVE  Overhead(p) \in Nat /\ s - Overhead(p) \in Nat /\ Overhead({}) = 0
<1>1. HashSize \in Nat /\ s \in Nat /\ s > HashSize + 18
  BY ConnectAssumption
<1> QED
  BY <1>1 DEF Overhead

LEMMA InitInv == Init => IInv
<1> SUFFICES ASSUME Init PROVE IInv
  OBVIOUS
<1>1. ano \in BOOLEAN
  BY Zenon DEF Init, ClientANO
<1>2. /\ conf \in Conf /\ pc = "dial" /\ addr = 1 /\ addr \in 1..Addresses
      /\ caps \subseteq {"oob"} /\ sdu = conf.sdu /\ room = 0 /\ sock = "none"
      /\ prot = {} /\ sent = {} /\ granted = {} /\ todo = <<>> /\ saved = {}
      /\ hops = 0 /\ opened = 0 /\ dropped = 0 /\ result = "none"
  BY ConnectAssumption DEF Init
<1>3. sdu \in Sdus
  BY <1>2 DEF Conf
<1>4. TypeOK
  BY <1>1, <1>2, <1>3, ConnectAssumption, EmptySeq DEF TypeOK, Granted, Services
<1> QED
  BY <1>2, <1>4 DEF IInv, Lives, Secured, FailClosed, PacketsFit, SocketsAccounted,
    Fresh, Logging, Returned

----------------------------------------------------------------------------
\* Whatever fails before a connection is made, the sockets still add up.
LEMMA NextAddressInv ==
  ASSUME IInv, NextAddress, result = "none", caps' \subseteq Granted \cup {"large"},
         sdu' \in Sdus, room' \in Nat, dropped' \in Nat, opened' \in Nat, opened' = dropped',
         "large" \in caps' \/ caps' \cap {"fast", "eor"} = {}
  PROVE  IInv'
<1>1. ano' \in BOOLEAN
  BY Zenon DEF NextAddress, ClientANO, IInv, TypeOK
<1>2. /\ sock' = "none" /\ prot' = {} /\ granted' = {} /\ pc' \in {"dial", "done"}
      /\ pc' = "dial" => result' = "none"
      /\ pc' = "done" => result' = "error"
      /\ addr' \in 1..Addresses
      /\ conf' = conf /\ sent' = sent /\ todo' = todo /\ saved' = saved /\ hops' = hops
  BY ConnectAssumption DEF NextAddress, IInv, TypeOK
<1>3. TypeOK'
  BY <1>1, <1>2 DEF IInv, TypeOK
<1>4. SocketsAccounted' /\ PacketsFit'
  <2>1. sock' # "open"
    BY <1>2
  <2>3. \A d \in Nat : d = d + 0
    OBVIOUS
  <2>2. opened' = dropped' + 0
    BY <2>3, Zenon
  <2> QED
    BY <2>1, <2>2 DEF SocketsAccounted, PacketsFit
<1>8. Lives'
  <2>1. CASE pc' = "dial"
    BY <1>2, <2>1 DEF Lives
  <2>2. CASE pc' = "done"
    BY <1>2, <2>2 DEF Lives
  <2> QED
    BY <1>2, <2>1, <2>2
<1>5. ~Returned' /\ pc' \notin {"tls", "connect", "await", "negotiate", "verify"}
  BY <1>2 DEF Returned
<1>6. Secured' /\ FailClosed' /\ Logging'
  BY <1>2, <1>5 DEF Secured, FailClosed, Logging, Returned
<1>7. Fresh'
  BY <1>2, <1>5 DEF Fresh, Returned
<1> QED
  BY <1>3, <1>4, <1>6, <1>7, <1>8 DEF IInv

LEMMA AddressFailsInv ==
  ASSUME IInv, AddressFails \/ (Drop /\ NextAddress /\ UNCHANGED <<caps, sdu, room>>),
         pc \in {"dial", "tls", "connect", "await", "negotiate"},
         pc = "dial" => AddressFails
  PROVE  IInv'
<1>1. result = "none" /\ (sock = "open" <=> pc # "dial")
  BY DEF IInv, Lives, TypeOK
<1>2. opened = dropped + (IF sock = "open" THEN 1 ELSE 0) /\ opened \in Nat /\ dropped \in Nat
  BY DEF IInv, SocketsAccounted, TypeOK
<1>3. dropped' \in Nat /\ opened' = dropped'
  BY <1>1, <1>2 DEF AddressFails, CloseSocket, Drop
<1>4. NextAddress /\ caps' = caps /\ sdu' = sdu /\ room' = room
  BY DEF AddressFails
<1> QED
  BY <1>1, <1>3, <1>4, NextAddressInv DEF IInv, TypeOK, Fresh

LEMMA DialInv ==
  ASSUME IInv, DialSucceeds \/ TlsSucceeds \/ SendConnect \/ Redirects \/ Resends
  PROVE  IInv'
<1>0. Overhead({}) = 0
  BY DEF Overhead
<1>1. CASE DialSucceeds
  <2>1. TypeOK'
    BY <1>1, ConnectAssumption DEF DialSucceeds, IInv, TypeOK
  <2> QED
    BY <1>0, <1>1, <2>1 DEF DialSucceeds, IInv, TypeOK, Lives, Secured, FailClosed,
      PacketsFit, SocketsAccounted, Fresh, Logging, Returned
<1>2. CASE SendConnect
  <2>1. TypeOK'
    BY <1>2 DEF SendConnect, IInv, TypeOK
  <2> QED
    BY <1>2, <2>1 DEF SendConnect, IInv, TypeOK, Lives, Secured, FailClosed,
      PacketsFit, SocketsAccounted, Fresh, Logging, Returned
<1>3. CASE Redirects
  <2>1. sock = "open" /\ opened' = dropped /\ dropped' = dropped
    BY <1>3 DEF Redirects, Answered, CloseSocket, IInv, Lives, SocketsAccounted, TypeOK
  <2>2. TypeOK'
    BY <1>3, <2>1, ConnectAssumption DEF Redirects, IInv, TypeOK
  <2> QED
    BY <1>3, <2>1, <2>2 DEF Redirects, Answered, IInv, TypeOK, Lives, Secured,
      FailClosed, PacketsFit, SocketsAccounted, Fresh, Logging, Returned
<1>4. CASE Resends
  <2>1. TypeOK'
    BY <1>4, ConnectAssumption DEF Resends, IInv, TypeOK
  <2> QED
    BY <1>4, <2>1 DEF Resends, Answered, IInv, TypeOK, Lives, Secured, FailClosed,
      PacketsFit, SocketsAccounted, Fresh, Logging, Returned
<1>5. CASE TlsSucceeds
  <2>1. TypeOK'
    BY <1>5 DEF TlsSucceeds, IInv, TypeOK
  <2> QED
    BY <1>5, <2>1 DEF TlsSucceeds, IInv, TypeOK, Lives, Secured, FailClosed,
      PacketsFit, SocketsAccounted, Fresh, Logging, Returned
<1> QED
  BY <1>1, <1>2, <1>3, <1>4, <1>5

LEMMA AcceptsInv ==
  ASSUME IInv, Accepts \/ AcceptsInVain \/ RetryWithANO
  PROVE  IInv'
<1>1. /\ pc = "await" /\ "large" \notin sent /\ result = "none" /\ sock = "open"
      /\ prot = {} /\ caps \cap {"fast", "eor"} = {} /\ "large" \notin caps
      /\ opened = dropped + 1
  BY DEF Accepts, AcceptsInVain, RetryWithANO, Answered, IInv, Lives, Secured, Fresh,
    SocketsAccounted, TypeOK
<1>2. ASSUME NEW size \in Sdus PROVE size \in Nat /\ size - Overhead(prot) = size
  BY <1>1, ConnectAssumption DEF Overhead
<1>3. ASSUME NEW flags \in SUBSET Granted
      PROVE  /\ Adjusted(flags) \subseteq Granted \cup {"large"} /\ "large" \in Adjusted(flags)
             /\ Adjusted(flags) \cap {"fast", "eor"} = flags \cap {"fast", "eor"}
  BY <1>1 DEF Adjusted, IInv, TypeOK
<1>4. CASE Accepts
  <2>1. PICK flags \in SUBSET Granted, size \in Sdus :
          /\ caps' = Adjusted(flags) /\ granted' = flags /\ sdu' = size
          /\ room' = size - Overhead(prot) /\ pc' \in {"negotiate", "verify"}
          /\ UNCHANGED <<conf, addr, ano, sock, prot, sent, todo, saved, hops, opened,
                         dropped, result>>
    BY <1>4 DEF Accepts
  <2>2. TypeOK'
    BY <1>2, <1>3, <2>1 DEF IInv, TypeOK
  <2>3. PacketsFit'
    BY <1>1, <1>2, <2>1, OverheadFits DEF PacketsFit
  <2>4. Fresh'
    BY <1>3, <2>1 DEF Fresh, Returned
  <2> QED
    BY <1>1, <2>1, <2>2, <2>3, <2>4 DEF IInv, TypeOK, Lives, Secured, FailClosed,
      SocketsAccounted, Logging, Returned
<1>5. CASE AcceptsInVain
  <2>1. PICK flags \in SUBSET Granted, size \in Sdus :
          /\ caps' = Adjusted(flags) /\ sdu' = size /\ room' = size - Overhead(prot)
          /\ CloseSocket /\ NextAddress
    BY <1>5 DEF AcceptsInVain
  <2>2. dropped' \in Nat /\ opened' = dropped'
    BY <1>1, <2>1 DEF CloseSocket, IInv, TypeOK
  <2> QED
    BY <1>1, <1>2, <1>3, <2>1, <2>2, NextAddressInv
<1>6. CASE RetryWithANO
  <2>1. ano' \in BOOLEAN
    BY <1>6, Zenon DEF RetryWithANO
  <2>2. /\ opened' = dropped /\ dropped' = dropped /\ sock' = "none" /\ caps' = {}
        /\ sdu' = conf.sdu /\ sdu' \in Sdus /\ pc' = "dial"
        /\ UNCHANGED <<conf, addr, room, prot, sent, granted, todo, saved, hops, result>>
    BY <1>1, <1>6 DEF RetryWithANO, CloseSocket, IInv, TypeOK, Conf
  <2>3. TypeOK'
    BY <2>1, <2>2 DEF IInv, TypeOK
  <2> QED
    BY <1>1, <2>2, <2>3 DEF IInv, TypeOK, Lives, Secured, FailClosed, PacketsFit,
      SocketsAccounted, Fresh, Logging, Returned
<1> QED
  BY <1>4, <1>5, <1>6

LEMMA NegotiatesInv ==
  ASSUME IInv, Negotiates
  PROVE  IInv'
<1>1. PICK p \in SUBSET Services :
        /\ pc = "negotiate" /\ pc' = "verify" /\ Protect(p)
        /\ UNCHANGED <<conf, addr, ano, sdu, sock, sent, granted, todo, saved, hops,
                       opened, dropped, result>>
  BY DEF Negotiates
<1>2. /\ prot' = p /\ caps' \subseteq caps /\ (p = {} \/ "oob" \notin caps')
      /\ caps \ {"oob"} \subseteq caps'
  BY <1>1 DEF Protect
<1>3. room' \in Nat /\ room' + Overhead(p) = sdu
  <2>1. /\ room \in Nat /\ sdu \in Nat /\ sdu \in Sdus /\ prot = {}
        /\ room + Overhead(prot) = sdu
    BY <1>1, ConnectAssumption DEF IInv, TypeOK, Lives, Secured, PacketsFit
  <2>2. Overhead(p) \in Nat /\ sdu - Overhead(p) \in Nat
    BY <2>1, OverheadFits
  <2>3. CASE p = {}
    BY <1>1, <2>1, <2>3 DEF Protect
  <2>4. CASE p # {}
    BY <1>1, <2>1, <2>2, <2>4 DEF Protect
  <2> QED
    BY <2>3, <2>4
<1>4. TypeOK'
  BY <1>1, <1>2, <1>3 DEF IInv, TypeOK
<1> QED
  BY <1>1, <1>2, <1>3, <1>4 DEF IInv, TypeOK, Lives, Secured, FailClosed, PacketsFit,
    SocketsAccounted, Fresh, Logging, Returned

\* The messages of the logon, and what is left of them after one.
LEMMA WithPassword ==
  /\ <<"protocol", "types", "auth">> \o <<"auth">> = <<"protocol", "types", "auth", "auth">>
  /\ <<"fast">> \o <<"auth">> = <<"fast", "auth">>
<1> DEFINE M == {"fast", "protocol", "types", "auth"}
           p == <<"protocol", "types", "auth">>
           q == <<"protocol", "types", "auth", "auth">>
           a == <<"auth">>
<1>1. p \in Seq(M) /\ a \in Seq(M) /\ q \in Seq(M) /\ Len(p) = 3 /\ Len(a) = 1 /\ Len(q) = 4
  OBVIOUS
<1>2. /\ p \o a \in Seq(M) /\ Len(p \o a) = 4
      /\ \A i \in 1..4 : (p \o a)[i] = IF i <= 3 THEN p[i] ELSE a[i - 3]
  BY <1>1, ConcatProperties
<1>3. \A i \in 1..4 : (p \o a)[i] = q[i]
  BY <1>2
<1>4. p \o a = q
  BY <1>1, <1>2, <1>3, SeqEqual
<1> DEFINE f == <<"fast">>
           g == <<"fast", "auth">>
<1>5. f \in Seq(M) /\ g \in Seq(M) /\ Len(f) = 1 /\ Len(g) = 2
  OBVIOUS
<1>6. /\ f \o a \in Seq(M) /\ Len(f \o a) = 2
      /\ \A i \in 1..2 : (f \o a)[i] = IF i <= 1 THEN f[i] ELSE a[i - 1]
  BY <1>1, <1>5, ConcatProperties
<1>7. \A i \in 1..2 : (f \o a)[i] = g[i]
  BY <1>6
<1>8. f \o a = g
  BY <1>5, <1>6, <1>7, SeqEqual
<1> QED
  BY <1>4, <1>8

LEMMA MessagesLeft ==
  /\ Messages \in PutOff \cup PutBack
  /\ Messages \in PutBack <=> "fast" \in caps
<1>1. /\ <<"protocol", "types", "auth">> \o <<>> = <<"protocol", "types", "auth">>
      /\ <<"fast">> \o <<>> = <<"fast">>
  OBVIOUS
<1>2. CASE "fast" \in caps
  BY <1>1, <1>2, WithPassword DEF Messages, PutBack
<1>3. CASE "fast" \notin caps
  <2>1. Messages \in {<<"protocol", "types", "auth", "auth">>, <<"protocol", "types", "auth">>}
    BY <1>1, <1>3, WithPassword DEF Messages
  <2>2. Messages \in PutOff
    BY <2>1 DEF PutOff
  <2>3. Messages \notin PutBack
    BY <2>1 DEF PutBack
  <2> QED
    BY <1>3, <2>2, <2>3
<1> QED
  BY <1>2, <1>3

LEMMA AfterPutOff ==
  ASSUME NEW s \in PutOff
  PROVE  /\ s # <<>> /\ Tail(s) \in PutOff \cup PutBack
         /\ Tail(s) \in PutBack <=> Tail(s) # <<>> /\ Head(Tail(s)) = "auth"
<1>1. CASE s = <<"protocol", "types", "auth", "auth">>
  BY <1>1 DEF PutOff, PutBack
<1>2. CASE s = <<"protocol", "types", "auth">>
  BY <1>2 DEF PutOff, PutBack
<1>3. CASE s = <<"types", "auth", "auth">>
  BY <1>3 DEF PutOff, PutBack
<1>4. CASE s = <<"types", "auth">>
  BY <1>4 DEF PutOff, PutBack
<1> QED
  BY <1>1, <1>2, <1>3, <1>4 DEF PutOff

LEMMA AfterPutBack ==
  ASSUME NEW s \in PutBack, s # <<>>
  PROVE  Tail(s) \in PutBack
<1>1. CASE s = <<"fast", "auth">>
  BY <1>1 DEF PutBack
<1>2. CASE s = <<"fast">>
  BY <1>2 DEF PutBack
<1>3. CASE s = <<"auth", "auth">>
  BY <1>3 DEF PutBack
<1>4. CASE s = <<"auth">>
  BY <1>4 DEF PutBack
<1> QED
  BY <1>1, <1>2, <1>3, <1>4 DEF PutBack

LEMMA LeftTyped ==
  ASSUME NEW s \in PutOff \cup PutBack
  PROVE  s \in Seq({"fast", "protocol", "types", "auth"})
<1> DEFINE M == {"fast", "protocol", "types", "auth"}
<1>1. PutOff \subseteq Seq(M)
  BY DEF PutOff
<1>2. /\ <<"fast", "auth">> \in Seq(M) /\ <<"fast">> \in Seq(M) /\ <<"auth", "auth">> \in Seq(M)
      /\ <<"auth">> \in Seq(M) /\ <<>> \in Seq(M)
  BY EmptySeq
<1> QED
  BY <1>1, <1>2 DEF PutBack

----------------------------------------------------------------------------
LEMMA StartsInv ==
  ASSUME IInv, StartsAuthentication
  PROVE  IInv'
<1>1. /\ pc = "verify" /\ Satisfied /\ pc' = "auth" /\ todo' = Messages
      /\ saved' = caps \cap {"eor"}
      /\ UNCHANGED <<conf, addr, ano, sdu, room, sock, prot, sent, granted, hops,
                     opened, dropped, result>>
  BY DEF StartsAuthentication
<1>2. /\ caps' \subseteq caps
      /\ conf.channel = "tcps" => "oob" \notin caps'
      /\ caps \ {"oob", "eor"} \subseteq caps'
      /\ "fast" \in caps => caps \ {"oob"} \subseteq caps'
      /\ "fast" \notin caps => "eor" \notin caps'
  BY DEF StartsAuthentication
<1>3. conf.channel \in {"tcp", "tcps"} /\ result = "none" /\ sock = "open"
  BY <1>1, ConnectAssumption DEF IInv, TypeOK, Conf, Lives
<1>4. /\ caps \cap {"fast", "eor"} = granted \cap {"fast", "eor"}
      /\ prot = {} \/ "oob" \notin caps
  BY <1>1 DEF IInv, Fresh, Secured
<1>5. TypeOK'
  BY <1>1, <1>2, MessagesLeft, LeftTyped DEF IInv, TypeOK
<1>6. Logging'
  BY <1>1, <1>2, <1>3, <1>4, MessagesLeft DEF Logging
<1>7. Fresh' /\ Secured'
  BY <1>1, <1>2, <1>3, <1>4 DEF IInv, Fresh, Secured, Returned
<1>8. Lives' /\ FailClosed' /\ PacketsFit' /\ SocketsAccounted'
  BY <1>1, <1>3 DEF IInv, Lives, FailClosed, Satisfied, Required, PacketsFit, SocketsAccounted
<1> QED
  BY <1>5, <1>6, <1>7, <1>8 DEF IInv

LEMMA AuthenticatesInv ==
  ASSUME IInv, Authenticates
  PROVE  IInv'
<1>1. /\ pc = "auth" /\ todo # <<>> /\ todo' = Tail(todo)
      /\ UNCHANGED <<conf, pc, addr, ano, sdu, room, sock, prot, sent, granted,
                     saved, hops, opened, dropped, result>>
  BY DEF Authenticates
<1> DEFINE back == Tail(todo) # <<>> /\ Head(Tail(todo)) = "auth"
<1>2. /\ caps' \subseteq caps \cup saved
      /\ caps \ {"oob"} \subseteq caps'
      /\ back => saved \ {"oob"} \subseteq caps'
      /\ ~back => caps' \subseteq caps
  BY DEF Authenticates
<1>3. /\ saved = granted \cap {"eor"} /\ todo \in PutOff \cup PutBack
      /\ todo \in PutBack => ("eor" \in caps <=> "eor" \in granted)
      /\ todo \notin PutBack => "eor" \notin caps
      /\ "fast" \in caps <=> "fast" \in granted
      /\ result = "none" /\ sock = "open"
  BY <1>1 DEF IInv, Logging, Returned, Lives
<1>4. todo' \in PutOff \cup PutBack
  BY <1>1, <1>3, AfterPutOff, AfterPutBack
<1>5. todo' \in PutBack => ("eor" \in caps' <=> "eor" \in granted)
  <2>1. CASE todo \in PutBack
    BY <1>2, <1>3, <2>1
  <2>2. CASE todo \in PutOff /\ todo' \in PutBack
    <3>1. back
      BY <1>1, <2>2, AfterPutOff
    <3>2. "eor" \in granted => "eor" \in caps'
      BY <1>2, <1>3, <3>1
    <3>3. "eor" \in caps' => "eor" \in granted
      <4>1. "eor" \in caps' => "eor" \in caps \/ "eor" \in saved
        BY <1>2
      <4>2. todo \in PutOff => todo \notin PutBack
        BY DEF PutOff, PutBack
      <4> QED
        BY <1>3, <2>2, <4>1, <4>2
    <3> QED
      BY <3>2, <3>3
  <2> QED
    BY <1>3, <2>1, <2>2
<1>10. todo' \notin PutBack => "eor" \notin caps'
  <2>1. CASE todo \in PutBack
    BY <1>1, <2>1, AfterPutBack
  <2>2. CASE todo \notin PutBack /\ todo' \notin PutBack
    <3>1. ~back
      BY <1>1, <1>3, <2>2, AfterPutOff
    <3> QED
      BY <1>2, <1>3, <2>2, <3>1
  <2> QED
    BY <2>1, <2>2
<1>6. TypeOK'
  BY <1>1, <1>2, <1>3, <1>4, LeftTyped DEF IInv, TypeOK, Granted
<1>7. Logging'
  BY <1>1, <1>2, <1>3, <1>4, <1>5, <1>10 DEF Logging
<1>8. Fresh' /\ Secured'
  BY <1>1, <1>2, <1>3 DEF IInv, Fresh, Secured, Returned
<1>9. Lives' /\ FailClosed' /\ PacketsFit' /\ SocketsAccounted'
  BY <1>1, <1>3 DEF IInv, Lives, FailClosed, Required, PacketsFit, SocketsAccounted
<1> QED
  BY <1>6, <1>7, <1>8, <1>9 DEF IInv

LEMMA EndsInv ==
  ASSUME IInv, \/ Unsatisfied \/ Rejects \/ Connected
               \/ pc = "auth" /\ todo # <<>> /\ Drop /\ sock' = "closed" /\ GivesUp
  PROVE  IInv'
<1>1. /\ pc \in {"verify", "auth"} /\ sock = "open" /\ result = "none"
      /\ opened \in Nat /\ dropped \in Nat /\ opened = dropped + 1
  BY DEF Unsatisfied, Rejects, Connected, IInv, Lives, SocketsAccounted, TypeOK
<1>2. CASE Connected
  <2>1. TypeOK'
    BY <1>2 DEF Connected, IInv, TypeOK
  <2> QED
    BY <1>1, <1>2, <2>1 DEF Connected, IInv, TypeOK, Lives, Secured, FailClosed,
      Required, PacketsFit, SocketsAccounted, Fresh, Logging, Returned
<1>3. CASE ~Connected
  <2>1. /\ GivesUp /\ sock' = "closed" /\ dropped' \in Nat /\ opened' \in Nat
        /\ opened' = dropped' + 0
    BY <1>1, <1>3 DEF Unsatisfied, Rejects, CloseSocket, Drop
  <2>2. TypeOK'
    BY <2>1 DEF GivesUp, IInv, TypeOK
  <2> QED
    BY <2>1, <2>2 DEF GivesUp, IInv, TypeOK, Lives, Secured, FailClosed, PacketsFit,
      SocketsAccounted, Fresh, Logging, Returned
<1> QED
  BY <1>2, <1>3

LEMMA NextInv == IInv /\ [Next]_vars => IInv'
<1> SUFFICES ASSUME IInv, [Next]_vars PROVE IInv'
  OBVIOUS
<1>1. CASE DialFails \/ TlsFails \/ Refuses \/ NegotiationFails
  BY <1>1, AddressFailsInv DEF DialFails, TlsFails, Refuses, Answered, NegotiationFails
<1>2. CASE DialSucceeds \/ TlsSucceeds \/ SendConnect \/ Redirects \/ Resends
  BY <1>2, DialInv
<1>3. CASE Accepts \/ AcceptsInVain \/ RetryWithANO
  BY <1>3, AcceptsInv
<1>4. CASE Negotiates
  BY <1>4, NegotiatesInv
<1>5. CASE StartsAuthentication
  BY <1>5, StartsInv
<1>6. CASE Authenticates
  BY <1>6, AuthenticatesInv
<1>7. CASE Unsatisfied \/ Rejects \/ Connected
  BY <1>7, EndsInv
<1>8. CASE LinkFails
  <2>1. CASE pc = "auth"
    BY <1>8, <2>1, EndsInv DEF LinkFails
  <2>2. CASE pc # "auth"
    BY <1>8, <2>2, AddressFailsInv DEF LinkFails
  <2> QED
    BY <2>1, <2>2
<1>9. CASE UNCHANGED vars
  <2>1. TypeOK'
    BY <1>9 DEF vars, IInv, TypeOK
  <2> QED
    BY <1>9, <2>1 DEF vars, IInv, Lives, Secured, FailClosed, Required, PacketsFit,
      SocketsAccounted, Fresh, Logging, Returned
<1> QED
  BY <1>1, <1>2, <1>3, <1>4, <1>5, <1>6, <1>7, <1>8, <1>9
     DEF Next, Handshake, TlsHandshake, Logon, Done

----------------------------------------------------------------------------
\* The inductive invariant holds of every Dial.
THEOREM Invariance == Spec => []IInv
BY InitInv, NextInv, PTL DEF Spec

\* Every variable keeps its type: no socket is closed twice, no overhead is
\* larger than a packet (CloseSocket, SizeForSDU).
THEOREM TypeCorrect == Spec => []TypeOK
<1>1. IInv => TypeOK
  BY DEF IInv
<1> QED
  BY <1>1, Invariance, PTL

\* Dial fails closed (verifyNNERequirement), for any list of addresses and
\* any sequence of redirects, retries and failed handshakes before.
THEOREM Protected == Spec => []FailClosed
<1>1. IInv => FailClosed
  BY DEF IInv
<1> QED
  BY <1>1, Invariance, PTL

\* No protected connection breaks calls with raw urgent bytes, whatever the
\* ACCEPT granted (negotiateANO, authenticate).
THEOREM InBandIfProtected == Spec => []UrgentOnlyInClear
<1>1. IInv => UrgentOnlyInClear
  BY ConnectAssumption DEF IInv, Secured, Returned, UrgentOnlyInClear, TypeOK, Conf
<1> QED
  BY <1>1, Invariance, PTL

\* Full packets have the negotiated size (SizeForSDU).
THEOREM Fitting == Spec => []PacketsFit
<1>1. IInv => PacketsFit
  BY DEF IInv
<1> QED
  BY <1>1, Invariance, PTL

\* The flags of an earlier address never reach the logon with a later one:
\* they always come with a CONNECT that no listener answers.
THEOREM OwnCapabilities == Spec => []CapabilitiesAreServers
<1>1. IInv => CapabilitiesAreServers
  <2>1. <<>> \in PutBack
    BY DEF PutBack
  <2> QED
    BY <2>1 DEF IInv, Logging, Returned, CapabilitiesAreServers
<1> QED
  BY <1>1, Invariance, PTL

\* Every socket but those a failed read marked closed is closed before the
\* next one is opened (Dial, connectAddress).
THEOREM NoOtherSocket == Spec => []SocketsAccounted
<1>1. IInv => SocketsAccounted
  BY DEF IInv
<1> QED
  BY <1>1, Invariance, PTL
============================================================================
