----------------------------- MODULE RelayStream -----------------------------
(***************************************************************************)
(* What the server promises a client about one tunnelled connection: the   *)
(* connect request is answered at most once, target data is delivered in   *)
(* order without loss or duplication, only after a positive answer, and    *)
(* nothing is delivered once the stream is shut, which happens once.       *)
(* TargetConnection implements it.                                         *)
(***************************************************************************)
EXTENDS Naturals

VARIABLES
  reply,      \* the answer to the connect request, "none" until it is given
  source,     \* number of packets the target has produced so far
  delivered,  \* number of packets handed to the client, in order
  shut        \* has the client been told that the stream is over?

vars == <<reply, source, delivered, shut>>

Replies == {"none", "ok", "fail"}

TypeOK ==
  /\ reply \in Replies
  /\ source \in Nat
  /\ delivered \in Nat
  /\ shut \in BOOLEAN

Init ==
  /\ reply = "none"
  /\ source = 0
  /\ delivered = 0
  /\ shut = FALSE

\* The request is answered; an early shutdown may overtake the answer.
Answer ==
  /\ reply = "none"
  /\ reply' \in {"ok", "fail"}
  /\ UNCHANGED <<source, delivered, shut>>

\* The target produces one more packet (nobody promises it will be delivered).
Produce ==
  /\ source' = source + 1
  /\ UNCHANGED <<reply, delivered, shut>>

\* The next packet in order reaches the client.
Deliver ==
  /\ reply = "ok"
  /\ ~shut
  /\ delivered < source
  /\ delivered' = delivered + 1
  /\ UNCHANGED <<reply, source, shut>>

Shut ==
  /\ ~shut
  /\ shut' = TRUE
  /\ UNCHANGED <<reply, source, delivered>>

Next == Answer \/ Produce \/ Deliver \/ Shut

Spec == Init /\ [][Next]_vars

==============================================================================
