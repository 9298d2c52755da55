------------------------------- MODULE PubSub -------------------------------
(***************************************************************************)
(* What Broker promises: a bus in lock step.  A message is posted only     *)
(* when every subscriber has received the one before; a subscriber         *)
(* receives what is posted while it is subscribed, all of it, once each    *)
(* and in order, and leaves only when it has.                              *)
(***************************************************************************)
EXTENDS Naturals, Sequences

CONSTANTS Clients, Messages

VARIABLES log,   \* the messages posted
          sub,   \* "out", "in" or "left", per client
          from,  \* the length of log when the client subscribed
          got    \* what the client received

vars == <<log, sub, from, got>>

Init == /\ log = <<>>
        /\ sub = [c \in Clients |-> "out"]
        /\ from = [c \in Clients |-> 0]
        /\ got = [c \in Clients |-> <<>>]

CaughtUp(c) == from[c] + Len(got[c]) = Len(log)

Subscribe(c) == /\ sub[c] = "out"
                /\ sub' = [sub EXCEPT ![c] = "in"]
                /\ from' = [from EXCEPT ![c] = Len(log)]
                /\ UNCHANGED <<log, got>>

Unsubscribe(c) == /\ sub[c] = "in" /\ CaughtUp(c)
                  /\ sub' = [sub EXCEPT ![c] = "left"]
                  /\ UNCHANGED <<log, from, got>>

Post(m) == /\ \A c \in Clients : sub[c] = "in" => CaughtUp(c)
           /\ log' = Append(log, m)
           /\ UNCHANGED <<sub, from, got>>

Receive(c) == /\ sub[c] = "in" /\ ~CaughtUp(c)
              /\ got' = [got EXCEPT ![c] = Append(@, log[Len(log)])]
              /\ UNCHANGED <<log, sub, from>>

Next == \/ \E c \in Clients : Subscribe(c) \/ Unsubscribe(c) \/ Receive(c)
        \/ \E m \in Messages : Post(m)

Spec == Init /\ [][Next]_vars

FairSpec == Spec /\ \A c \in Clients : WF_vars(Receive(c))
=============================================================================
