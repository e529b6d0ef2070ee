--------------------------- MODULE ClientSessions ---------------------------
(***************************************************************************)
(* What the server promises to its clients, with nothing of how it does it *)
(* (threads, descriptors, epoll, the map): a connection waits, is taken,   *)
(* registered and held until the client ends it; shutting down refuses     *)
(* those that wait and ends every session before it is over.  HFTServer    *)
(* with one worker implements this module.                                 *)
(***************************************************************************)
CONSTANTS
    Clients       \* the connections clients make

VARIABLES
    session,      \* session[p]: how far the server is with p
    ended,        \* the clients that have closed their end
    server        \* "up", "closing" or "down"

sessionVars == <<session, ended, server>>

Init ==
    /\ session = [p \in Clients |-> "none"]
    /\ ended = {}
    /\ server = "up"

Move(p, from, to) ==
    /\ session[p] = from
    /\ session' = [session EXCEPT ![p] = to]

Arrive(p)   == server = "up" /\ Move(p, "none", "waiting") /\ UNCHANGED <<ended, server>>
Take(p)     == server = "up" /\ Move(p, "waiting", "new") /\ UNCHANGED <<ended, server>>
Register(p) == server # "down" /\ Move(p, "new", "held") /\ UNCHANGED <<ended, server>>

\* The client closes or resets its end.
End(p) ==
    /\ session[p] \in {"waiting", "new", "held"}
    /\ ended' = ended \cup {p}
    /\ UNCHANGED <<session, server>>

\* A connection that cannot be registered is dropped at once.
Reject(p) ==
    /\ server # "down"
    /\ Move(p, "new", "over")
    /\ ended' = ended \ {p}
    /\ UNCHANGED server

\* A held connection is released because its client has ended it.
Release(p) ==
    /\ server # "down"
    /\ p \in ended
    /\ Move(p, "held", "over")
    /\ ended' = ended \ {p}
    /\ UNCHANGED server

Closing ==
    /\ server = "up"
    /\ server' = "closing"
    /\ session' = [p \in Clients |-> IF session[p] = "waiting" THEN "over" ELSE session[p]]
    /\ ended' = {p \in ended : session[p] # "waiting"}

\* The last step of a shutdown: nobody is being registered any more, and all
\* sessions end.
Down ==
    /\ server = "closing"
    /\ \A p \in Clients : session[p] # "new"
    /\ server' = "down"
    /\ session' = [p \in Clients |-> IF session[p] = "held" THEN "over" ELSE session[p]]
    /\ ended' = {}

Next ==
    \/ \E p \in Clients : Arrive(p) \/ Take(p) \/ Register(p) \/ End(p) \/ Reject(p) \/ Release(p)
    \/ Closing
    \/ Down

Spec == Init /\ [][Next]_sessionVars
=============================================================================
