--------------------------- MODULE SecureSession ---------------------------
(***************************************************************************)
(* A session under Native Network Encryption, internal/tns/security.go.    *)
(* The checksum of a DATA packet takes a keystream that both ends advance  *)
(* by one step per packet and start again at a reset: the client in        *)
(* reset(), right behind its reset marker, the server, as the comment in   *)
(* reset() says, when it takes that marker.  Markers are not protected.    *)
(*                                                                         *)
(* The two directions are FIFO and every DATA packet is wrapped and        *)
(* unwrapped once, so that of a keystream only its epoch matters: how      *)
(* often it has been started.  A packet is stamped with the epoch it was   *)
(* wrapped in; one that is unwrapped in another one fails the integrity    *)
(* check, and ReadPacket closes the transport.                             *)
(***************************************************************************)
EXTENDS Session

VARIABLES
  clientEpoch, serverEpoch,  \* Security.Reset so far, at either end
  c2sStamps, s2cStamps       \* the epochs of the packets under way

secureVars == <<vars, clientEpoch, serverEpoch, c2sStamps, s2cStamps>>

ClientResets == \E k \in Calls : pc[k] = "reset" /\ pc'[k] # "reset"

\* Only reset() of a failing call starts the keystream again.
FaultyClientEpoch ==
  clientEpoch' = IF ClientResets /\ stage = "fail" THEN clientEpoch + 1 ELSE clientEpoch

\* Conn.reset: Security.Reset, before the next packet is read.
ClientEpoch == clientEpoch' = IF ClientResets THEN clientEpoch + 1 ELSE clientEpoch

ServerEpoch ==
  serverEpoch' = IF srv = "resetting" /\ srv' = "idle" THEN serverEpoch + 1 ELSE serverEpoch

\* The stamps of a direction as its packets are taken, lost and added.
Stamped(stamps, packets, next, epoch) ==
  IF Len(next) < Len(packets) THEN SubSeq(stamps, Len(packets) - Len(next) + 1, Len(packets))
  ELSE stamps \o [i \in 1 .. Len(next) - Len(packets) |-> epoch]

\* WritePacket wraps in the epoch the sender is in before its step: the reset
\* marker leaves before Security.Reset.  The server's ORA-01013 is behind its
\* own, and so in the new epoch.
Stamps ==
  /\ c2sStamps' = Stamped(c2sStamps, c2s, c2s', clientEpoch)
  /\ s2cStamps' = Stamped(s2cStamps, s2c, s2c', serverEpoch')

SecureInit == Init /\ clientEpoch = 0 /\ serverEpoch = 0 /\ c2sStamps = <<>> /\ s2cStamps = <<>>

SecureNext == Next /\ ClientEpoch /\ ServerEpoch /\ Stamps

SecureSpec == SecureInit /\ [][SecureNext]_secureVars /\ Fairness

---------------------------------------------------------------------------
\* security.go: "exactly one compute per outgoing and one validate per incoming
\* DATA packet must happen, in order": a DATA packet that either end is about
\* to read was wrapped in the epoch that end is in, so that no break, reset or
\* resend makes the session fail its integrity check.
InStep ==
  /\ alive /\ s2c # <<>> /\ ~IsMarker(Head(s2c))
       /\ (\E k \in Calls : pc[k] \in {"receive", "read", "drain", "skip"})
     => Head(s2cStamps) = clientEpoch
  /\ Arrived({"request", "flush"}) => Head(c2sStamps) = serverEpoch

=============================================================================
