------------------------------- MODULE Broker -------------------------------
(***************************************************************************)
(* The hub of syncSSE.go: a listener goroutine owns the map of clients and *)
(* serves three unbuffered channels, newClients, closingClients and        *)
(* message; each request has a handler that registers a channel of its     *)
(* own, then receives from it and publishes WebSocket events, and a closer *)
(* that waits for the request to be done.  The forwarders of SyncEngine    *)
(* are the senders on message.  What a handler does between registering    *)
(* and receiving is SyncEngine's subject: here it is one step.             *)
(***************************************************************************)
EXTENDS Naturals, Sequences

CONSTANTS Clients,     \* requests to /sync/start and /sync/stop
          Forwarders,  \* goroutines that send on message
          MaxMessages  \* bound: messages offered

ASSUME MaxMessagesAssumption == MaxMessages \in Nat

VARIABLES
    lpc,      \* the listener: "select" or "send"
    msg,      \* the message it broadcasts
    todo,     \* the clients its range loop has still to send to
    clients,  \* Broker.clients
    shut,     \* client channels that are closed
    hpc,      \* the handlers
    done,     \* requests whose context is done
    closer,   \* the goroutines that wait for that
    pend,     \* the message a forwarder offers; 0: none
    offered,  \* messages offered so far: their names are 1, 2, ...
    log,      \* history: messages taken from the channel
    from,     \* history: how many were taken when a client joined
    got       \* history: what each client's handler received

listener == <<lpc, msg, todo>>
history == <<log, from, got>>
vars == <<listener, clients, shut, hpc, done, closer, pend, offered, history>>

Messages == 1..MaxMessages

Init == /\ lpc = "select" /\ msg = 0 /\ todo = {}
        /\ clients = {} /\ shut = {} /\ done = {}
        /\ hpc = [c \in Clients |-> "away"]
        /\ closer = [c \in Clients |-> "none"]
        /\ pend = [f \in Forwarders |-> 0] /\ offered = 0
        /\ log = <<>>
        /\ from = [c \in Clients |-> 0]
        /\ got = [c \in Clients |-> <<>>]

-----------------------------------------------------------------------------
\* Clients

\* A request arrives; its handler blocks on newClients.
Arrive(c) == /\ hpc[c] = "away"
             /\ hpc' = [hpc EXCEPT ![c] = "join"]
             /\ UNCHANGED <<listener, clients, shut, done, closer, pend, offered, history>>

\* The rest of the handler up to its receive loop; it starts the closer.
Serve(c) == /\ hpc[c] = "start"
            /\ hpc' = [hpc EXCEPT ![c] = "receive"]
            /\ closer' = [closer EXCEPT ![c] = "wait"]
            /\ UNCHANGED <<listener, clients, shut, done, pend, offered, history>>

\* PublishWebSocketEvent returns.
Publish(c) == /\ hpc[c] = "publish"
              /\ hpc' = [hpc EXCEPT ![c] = "receive"]
              /\ UNCHANGED <<listener, clients, shut, done, closer, pend, offered, history>>

\* Mutant: the handler returns as soon as its request is done.
EndEarly(c) == /\ hpc[c] = "receive" /\ c \in done
               /\ hpc' = [hpc EXCEPT ![c] = "ended"]
               /\ UNCHANGED <<listener, clients, shut, done, closer, pend, offered, history>>

\* The receive finds the channel closed.
End(c) == /\ hpc[c] = "receive" /\ c \in shut
          /\ hpc' = [hpc EXCEPT ![c] = "ended"]
          /\ UNCHANGED <<listener, clients, shut, done, closer, pend, offered, history>>

\* The request is done (external: the connection); it may never be.
Hangup(c) == /\ hpc[c] # "away" /\ c \notin done
             /\ done' = done \cup {c}
             /\ UNCHANGED <<listener, clients, shut, hpc, closer, pend, offered, history>>

Notice(c) == /\ closer[c] = "wait" /\ c \in done
             /\ closer' = [closer EXCEPT ![c] = "closing"]
             /\ UNCHANGED <<listener, clients, shut, hpc, done, pend, offered, history>>

\* A forwarder blocks on message.
Offer(f) == /\ pend[f] = 0 /\ offered < MaxMessages
            /\ offered' = offered + 1
            /\ pend' = [pend EXCEPT ![f] = offered + 1]
            /\ UNCHANGED <<listener, clients, shut, hpc, done, closer, history>>

-----------------------------------------------------------------------------
\* The listener

Join(c) == /\ lpc = "select" /\ hpc[c] = "join"
           /\ clients' = clients \cup {c}
           /\ hpc' = [hpc EXCEPT ![c] = "start"]
           /\ from' = [from EXCEPT ![c] = Len(log)]
           /\ UNCHANGED <<listener, shut, done, closer, pend, offered, log, got>>

\* Mutant: the channel is closed and the client stays in the map.
LeaveListed(c) == /\ lpc = "select" /\ closer[c] = "closing"
                  /\ shut' = shut \cup {c}
                  /\ closer' = [closer EXCEPT ![c] = "ended"]
                  /\ UNCHANGED <<listener, clients, hpc, done, pend, offered, history>>

\* Mutant: the channel is not closed.
LeaveOpen(c) == /\ lpc = "select" /\ closer[c] = "closing"
                /\ clients' = clients \ {c}
                /\ closer' = [closer EXCEPT ![c] = "ended"]
                /\ UNCHANGED <<listener, shut, hpc, done, pend, offered, history>>

\* Mutant: the closer removes the client itself, whatever the listener does.
LeaveAtOnce(c) == /\ closer[c] = "closing"
                  /\ clients' = clients \ {c}
                  /\ shut' = shut \cup {c}
                  /\ closer' = [closer EXCEPT ![c] = "ended"]
                  /\ UNCHANGED <<listener, hpc, done, pend, offered, history>>

Leave(c) == /\ lpc = "select" /\ closer[c] = "closing"
            /\ clients' = clients \ {c}
            /\ shut' = shut \cup {c}
            /\ closer' = [closer EXCEPT ![c] = "ended"]
            /\ UNCHANGED <<listener, hpc, done, pend, offered, history>>

Take(f) == /\ lpc = "select" /\ pend[f] # 0
           /\ lpc' = "send" /\ msg' = pend[f] /\ todo' = clients
           /\ pend' = [pend EXCEPT ![f] = 0]
           /\ log' = Append(log, pend[f])
           /\ UNCHANGED <<clients, shut, hpc, done, closer, offered, from, got>>

\* Mutant: the listener does not wait for the handler, which misses it.
SendNonblocking(c) == /\ lpc = "send" /\ c \in todo
                      /\ todo' = todo \ {c}
                      /\ IF hpc[c] = "receive"
                         THEN /\ got' = [got EXCEPT ![c] = Append(@, msg)]
                              /\ hpc' = [hpc EXCEPT ![c] = "publish"]
                         ELSE UNCHANGED <<got, hpc>>
                      /\ UNCHANGED <<lpc, msg, clients, shut, done, closer, pend,
                                     offered, log, from>>

\* client <- msg, which the handler must receive.
Send(c) == /\ lpc = "send" /\ c \in todo /\ hpc[c] = "receive"
           /\ todo' = todo \ {c}
           /\ got' = [got EXCEPT ![c] = Append(@, msg)]
           /\ hpc' = [hpc EXCEPT ![c] = "publish"]
           /\ UNCHANGED <<lpc, msg, clients, shut, done, closer, pend, offered, log, from>>

\* The range loop is over.
Broadcasted == /\ lpc = "send" /\ todo = {}
               /\ lpc' = "select"
               /\ UNCHANGED <<msg, todo, clients, shut, hpc, done, closer, pend,
                              offered, history>>

Listen == Broadcasted \/ \E c \in Clients : Send(c)

Next == \/ \E c \in Clients : \/ Arrive(c) \/ Serve(c) \/ Publish(c) \/ End(c)
                              \/ Hangup(c) \/ Notice(c)
                              \/ Join(c) \/ Leave(c)
        \/ \E f \in Forwarders : Offer(f) \/ Take(f)
        \/ Listen

Spec == Init /\ [][Next]_vars

\* Goroutines are scheduled, a published event returns, and the listener's
\* select, which picks among the ready cases at random, passes none over for
\* ever.  Requests need not arrive, be done, or messages be offered.
Fairness == /\ WF_vars(Listen)
            /\ \A c \in Clients :
                  /\ WF_vars(Serve(c) \/ Publish(c) \/ End(c)) /\ WF_vars(Notice(c))
                  /\ SF_vars(Join(c)) /\ SF_vars(Leave(c))
            /\ \A f \in Forwarders : SF_vars(Take(f))

FairSpec == Spec /\ Fairness

-----------------------------------------------------------------------------
TypeOK == /\ lpc \in {"select", "send"}
          /\ msg \in Messages \cup {0}
          /\ todo \subseteq clients
          /\ clients \subseteq Clients /\ shut \subseteq Clients /\ done \subseteq Clients
          /\ hpc \in [Clients -> {"away", "join", "start", "receive", "publish", "ended"}]
          /\ closer \in [Clients -> {"none", "wait", "closing", "ended"}]
          /\ pend \in [Forwarders -> Messages \cup {0}]
          /\ offered \in 0..MaxMessages
          /\ log \in Seq(Messages)
          /\ from \in [Clients -> Nat]
          /\ got \in [Clients -> Seq(Messages)]

\* The listener, which no recover protects, never sends on a closed channel
\* and never closes one twice: a client it has still to send to, or one that
\* waits to be removed, is in the map and open.
OpenWhenUsed == /\ todo \cap shut = {}
                /\ \A c \in Clients : closer[c] = "closing" => c \in clients \ shut

\* Nothing a forwarder offers is held up for ever, by the other forwarders,
\* by slow clients or by clients that come and go: SyncEngine's Relay.
OffersTaken == \A f \in Forwarders : pend[f] # 0 ~> pend[f] = 0

\* A client that hung up is removed and its handler ends.
HangupEnds == \A c \in Clients : c \in done ~> hpc[c] = "ended"

\* Each client receives what is broadcast from when it joined until it left.
Bus == INSTANCE PubSub WITH
    sub <- [c \in Clients |-> IF c \in clients THEN "in"
                              ELSE IF c \in shut THEN "left" ELSE "out"]
LockStep == Bus!FairSpec
=============================================================================
