--------------------------- MODULE MessageChannel ---------------------------
(***************************************************************************)
(* What a lane promises to the two chains it connects, with no relayers,   *)
(* proofs, queues or limits: every payload that was sent is received at    *)
(* most once and in the order of sending, the sender learns only of        *)
(* receptions that have happened, and it forgets only payloads whose       *)
(* reception it has learned of.                                            *)
(***************************************************************************)
EXTENDS Integers, Sequences

CONSTANT Payloads

VARIABLES
  sent,       \* payloads in the order in which they were sent
  received,   \* payloads in the order in which they were received
  confirmed,  \* how many receptions the sender knows of
  forgotten   \* how many payloads the sender has dropped

channelVars == <<sent, received, confirmed, forgotten>>

Init ==
  /\ sent = <<>>
  /\ received = <<>>
  /\ confirmed = 0
  /\ forgotten = 0

Send ==
  /\ \E payload \in Payloads : sent' = Append(sent, payload)
  /\ UNCHANGED <<received, confirmed, forgotten>>

Receive ==
  /\ \E n \in (Len(received) + 1)..Len(sent) : received' = [i \in 1..n |-> sent[i]]
  /\ UNCHANGED <<sent, confirmed, forgotten>>

Confirm ==
  /\ confirmed' \in (confirmed + 1)..Len(received)
  /\ UNCHANGED <<sent, received, forgotten>>

Forget ==
  /\ forgotten' \in (forgotten + 1)..confirmed
  /\ UNCHANGED <<sent, received, confirmed>>

Next == Send \/ Receive \/ Confirm \/ Forget

Spec == Init /\ [][Next]_channelVars
=============================================================================
