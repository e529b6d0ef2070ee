----------------------------- MODULE LossyFifo -----------------------------
(***************************************************************************)
(* What send_message() promises once it has returned true ("message queued *)
(* for sending"): messages leave the client in the order in which they     *)
(* were queued, each at most once; one may be dropped instead of sent, but *)
(* only when its turn comes.                                               *)
(***************************************************************************)
EXTENDS Sequences

CONSTANTS
    Message

VARIABLES
    pending,      \* queued, in order
    sent,         \* handed to the network, in order
    dropped       \* taken and not sent

fifoVars == <<pending, sent, dropped>>

Init == pending = <<>> /\ sent = <<>> /\ dropped = {}

Queue(m) == pending' = Append(pending, m) /\ UNCHANGED <<sent, dropped>>

Send ==
    /\ pending # <<>>
    /\ pending' = Tail(pending)
    /\ sent' = Append(sent, Head(pending))
    /\ UNCHANGED dropped

Drop ==
    /\ pending # <<>>
    /\ pending' = Tail(pending)
    /\ dropped' = dropped \cup {Head(pending)}
    /\ UNCHANGED sent

Next == (\E m \in Message : Queue(m)) \/ Send \/ Drop

Spec == Init /\ [][Next]_fifoVars
=============================================================================
