----------------------------- MODULE RowStream -----------------------------
(***************************************************************************)
(* What a record reader promises its consumer: the rows of the result, in  *)
(* order and each once, in batches that are not empty; that the stream is  *)
(* at its end only after the last row; and nothing after the end, or after *)
(* an error or a release has cut it short.                                 *)
(***************************************************************************)
EXTENDS Naturals

CONSTANT Total  \* rows of the result

VARIABLES
  given,   \* rows handed out so far: rows 1 to given
  status   \* "open", "end", or "cut"

Init == given = 0 /\ status = "open"

Emit ==
  /\ status = "open"
  /\ \E n \in 1 .. Total - given : given' = given + n
  /\ UNCHANGED status

End == status = "open" /\ given = Total /\ status' = "end" /\ UNCHANGED given

Cut == status = "open" /\ status' = "cut" /\ UNCHANGED given

Next == Emit \/ End \/ Cut

Spec == Init /\ [][Next]_<<given, status>>
=============================================================================
