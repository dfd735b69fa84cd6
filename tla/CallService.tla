---------------------------- MODULE CallService ----------------------------
(***************************************************************************)
(* What a session promises its callers, whatever happens on the wire: the  *)
(* calls are served one at a time, the server works for a call only while  *)
(* that call is being served, and a call that reports success has been     *)
(* executed.  A call that reports a failure may or may not have been.      *)
(***************************************************************************)
CONSTANTS Calls, NoCall

VARIABLES
  active,    \* the call being served
  executed,  \* the calls the server has executed
  outcome    \* what each call has reported to its caller

vars == <<active, executed, outcome>>

Init ==
  /\ active = NoCall
  /\ executed = {}
  /\ outcome = [k \in Calls |-> "none"]

Begin(k) ==
  /\ active = NoCall /\ outcome[k] = "none"
  /\ active' = k
  /\ UNCHANGED <<executed, outcome>>

\* The session is closed, or the caller has given up already.
Refuse(k) ==
  /\ active = NoCall /\ outcome[k] = "none"
  /\ outcome' = [outcome EXCEPT ![k] = "failed"]
  /\ UNCHANGED <<active, executed>>

Execute(k) ==
  /\ active = k
  /\ executed' = executed \cup {k}
  /\ UNCHANGED <<active, outcome>>

End(k) ==
  /\ active = k
  /\ active' = NoCall
  /\ \E o \in {"ok", "failed"} :
       /\ o = "ok" => k \in executed
       /\ outcome' = [outcome EXCEPT ![k] = o]
  /\ UNCHANGED executed

Next == \E k \in Calls : Begin(k) \/ Refuse(k) \/ Execute(k) \/ End(k)

Spec == Init /\ [][Next]_vars
=============================================================================
