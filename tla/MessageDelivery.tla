--------------------------- MODULE MessageDelivery ---------------------------
(***************************************************************************)
(* What one direction of an RTMP connection promises (ChunkStreamer.Write   *)
(* at one end, ChunkStreamer.Read at the other): on each chunk stream the   *)
(* messages arrive unchanged and in the order in which they were written,   *)
(* until the connection fails.                                              *)
(***************************************************************************)
EXTENDS Naturals, Sequences

CONSTANTS Streams, Messages

VARIABLES
  sent, got,   \* by chunk stream: the messages written, and those read
  sound        \* whether the connection has not failed

vars == <<sent, got, sound>>

\* Types: what was written and what was read, by chunk stream (ChunkStreamer).
TypeOK ==
  /\ sent \in [Streams -> Seq(Messages)] /\ got \in [Streams -> Seq(Messages)]
  /\ sound \in BOOLEAN

Init ==
  /\ sent = [s \in Streams |-> <<>>] /\ got = [s \in Streams |-> <<>>]
  /\ sound = TRUE

Send(s, m) ==
  /\ sent' = [sent EXCEPT ![s] = Append(@, m)]
  /\ UNCHANGED <<got, sound>>

Deliver(s) ==
  /\ sound
  /\ Len(got[s]) < Len(sent[s])
  /\ got' = [got EXCEPT ![s] = Append(@, sent[s][Len(@) + 1])]
  /\ UNCHANGED sent /\ sound' \in BOOLEAN

Fail == sound' = FALSE /\ UNCHANGED <<sent, got>>

\* What a failed connection delivers is not promised.
Failed == ~sound /\ ~sound'

Next == Fail \/ Failed \/ \E s \in Streams : Deliver(s) \/ \E m \in Messages : Send(s, m)

Spec == Init /\ [][Next]_vars /\ \A s \in Streams : WF_vars(Deliver(s))
=============================================================================
