---------------------------- MODULE BrokerProofs ----------------------------
(***************************************************************************)
(* Broker implements PubSub for any number of clients, forwarders and      *)
(* messages.  The invariant behind it: between two broadcasts every client *)
(* in the map has received all that was taken since it joined, and during  *)
(* one, exactly those the range loop has still to reach lack its message.  *)
(***************************************************************************)
EXTENDS Broker, TLAPS

\* PubSub's sub, as Bus reads it off the hub.
Status == [c \in Clients |-> IF c \in clients THEN "in"
                          ELSE IF c \in shut THEN "left" ELSE "out"]

\* During a broadcast the listener holds the last message taken.
Holds == lpc = "send" => Len(log) > 0 /\ msg = log[Len(log)]

\* Outside one, the loop has nobody left to send to.
Idle == lpc = "select" => todo = {}

\* What a client in the map has received, against what was taken.
Counts == \A c \in Clients : c \in clients =>
    from[c] + Len(got[c]) = IF c \in todo THEN Len(log) - 1 ELSE Len(log)

\* A handler joins once, before its closer is started.
Fresh == \A c \in Clients :
    /\ hpc[c] \in {"away", "join"} =>
          c \notin clients \cup shut /\ got[c] = <<>>
    /\ hpc[c] \in {"away", "join", "start"} => closer[c] = "none"
    /\ hpc[c] = "start" => c \in clients
    /\ c \in clients => c \notin shut
    /\ closer[c] \in {"wait", "closing"} => c \in clients

BusInv == TypeOK /\ Holds /\ Idle /\ Counts /\ Fresh

\* Each action keeps the types and the invariant.
LEMMA BusStep == BusInv /\ [Next]_vars => BusInv'
<1> SUFFICES ASSUME BusInv, [Next]_vars PROVE BusInv'
  OBVIOUS
<1> USE MaxMessagesAssumption DEF BusInv, TypeOK, Holds, Idle, Counts, Fresh,
      listener, history, Messages
<1>1. ASSUME NEW c \in Clients, Arrive(c) PROVE BusInv'
  BY <1>1 DEF Arrive
<1>2. ASSUME NEW c \in Clients, Serve(c) PROVE BusInv'
  BY <1>2 DEF Serve
<1>3. ASSUME NEW c \in Clients, Publish(c) PROVE BusInv'
  BY <1>3 DEF Publish
<1>4. ASSUME NEW c \in Clients, End(c) PROVE BusInv'
  BY <1>4 DEF End
<1>5. ASSUME NEW c \in Clients, Hangup(c) PROVE BusInv'
  BY <1>5 DEF Hangup
<1>6. ASSUME NEW c \in Clients, Notice(c) PROVE BusInv'
  BY <1>6 DEF Notice
<1>7. ASSUME NEW c \in Clients, Join(c) PROVE BusInv'
  BY <1>7 DEF Join
<1>8. ASSUME NEW c \in Clients, Leave(c) PROVE BusInv'
  BY <1>8 DEF Leave
<1>9. ASSUME NEW f \in Forwarders, Offer(f) PROVE BusInv'
  BY <1>9 DEF Offer
<1>10. ASSUME NEW f \in Forwarders, Take(f) PROVE BusInv'
  BY <1>10 DEF Take
<1>11. ASSUME NEW c \in Clients, Send(c) PROVE BusInv'
  <2>1. msg \in Messages /\ got[c] \in Seq(Messages)
    BY <1>11 DEF Send
  <2>2. /\ Append(got[c], msg) \in Seq(Messages)
        /\ Len(Append(got[c], msg)) = Len(got[c]) + 1
    BY <2>1
  <2>3. TypeOK'
    BY <1>11, <2>2 DEF Send
  <2>4. Holds' /\ Idle' /\ Fresh'
    BY <1>11 DEF Send
  <2>5. Counts'
    BY <1>11, <2>2 DEF Send
  <2>6. QED
    BY <2>3, <2>4, <2>5
<1>12. CASE Broadcasted
  BY <1>12 DEF Broadcasted
<1>13. CASE UNCHANGED vars
  BY <1>13 DEF vars
<1>14. QED
  BY <1>1, <1>2, <1>3, <1>4, <1>5, <1>6, <1>7, <1>8, <1>9, <1>10, <1>11,
      <1>12, <1>13 DEF Next, Listen

\* The invariant holds of every behaviour of the hub.
THEOREM BusInvariant == Spec => []BusInv
<1>1. Init => BusInv
  BY MaxMessagesAssumption DEF Init, BusInv, TypeOK, Holds, Idle, Counts,
      Fresh, Messages
<1>2. BusInv /\ [Next]_vars => BusInv'
  BY BusStep
<1>3. QED
  BY <1>1, <1>2, PTL DEF Spec

\* The hub's variables keep their types.
THEOREM TypeCorrect == Spec => []TypeOK
<1>1. BusInv => TypeOK
  BY DEF BusInv
<1>2. QED
  BY <1>1, BusInvariant, PTL

\* The listener never sends on a closed channel and closes none twice.
THEOREM NoClosedSend == Spec => []OpenWhenUsed
<1>1. BusInv => OpenWhenUsed
  BY DEF BusInv, TypeOK, Fresh, OpenWhenUsed
<1>2. QED
  BY <1>1, BusInvariant, PTL

\* Each action is an action of PubSub or leaves its variables alone.
LEMMA BusMaps == BusInv /\ BusInv' /\ [Next]_vars => [Bus!Next]_(Bus!vars)
<1> SUFFICES ASSUME BusInv, BusInv', [Next]_vars PROVE [Bus!Next]_(Bus!vars)
  OBVIOUS
<1> USE DEF BusInv, TypeOK, Holds, Idle, Counts, Fresh, listener, history,
      Messages, Bus!vars
<1>1. ASSUME NEW c \in Clients, Arrive(c) PROVE [Bus!Next]_(Bus!vars)
  BY <1>1 DEF Arrive
<1>2. ASSUME NEW c \in Clients, Serve(c) PROVE [Bus!Next]_(Bus!vars)
  BY <1>2 DEF Serve
<1>3. ASSUME NEW c \in Clients, Publish(c) PROVE [Bus!Next]_(Bus!vars)
  BY <1>3 DEF Publish
<1>4. ASSUME NEW c \in Clients, End(c) PROVE [Bus!Next]_(Bus!vars)
  BY <1>4 DEF End
<1>5. ASSUME NEW c \in Clients, Hangup(c) PROVE [Bus!Next]_(Bus!vars)
  BY <1>5 DEF Hangup
<1>6. ASSUME NEW c \in Clients, Notice(c) PROVE [Bus!Next]_(Bus!vars)
  BY <1>6 DEF Notice
<1>7. ASSUME NEW c \in Clients, Join(c) PROVE [Bus!Next]_(Bus!vars)
  <2>1. Status[c] = "out"
    BY <1>7 DEF Join, Status
  <2>2. Status' = [Status EXCEPT ![c] = "in"]
    BY <1>7 DEF Join, Status
  <2>3. Bus!Subscribe(c)
    BY <1>7, <2>1, <2>2 DEF Join, Status, Bus!Subscribe
  <2>4. QED
    BY <2>3 DEF Bus!Next
<1>8. ASSUME NEW c \in Clients, Leave(c) PROVE [Bus!Next]_(Bus!vars)
  <2>1. Status[c] = "in" /\ Bus!CaughtUp(c)
    BY <1>8 DEF Leave, Status, Bus!CaughtUp
  <2>2. Status' = [Status EXCEPT ![c] = "left"]
    BY <1>8 DEF Leave, Status
  <2>3. Bus!Unsubscribe(c)
    BY <1>8, <2>1, <2>2 DEF Leave, Status, Bus!Unsubscribe
  <2>4. QED
    BY <2>3 DEF Bus!Next
<1>9. ASSUME NEW f \in Forwarders, Offer(f) PROVE [Bus!Next]_(Bus!vars)
  BY <1>9 DEF Offer
<1>10. ASSUME NEW f \in Forwarders, Take(f) PROVE [Bus!Next]_(Bus!vars)
  BY <1>10 DEF Take, Bus!Next, Bus!Post, Bus!CaughtUp
<1>11. ASSUME NEW c \in Clients, Send(c) PROVE [Bus!Next]_(Bus!vars)
  <2>1. Status[c] = "in" /\ ~Bus!CaughtUp(c)
    BY <1>11 DEF Send, Status, Bus!CaughtUp
  <2>2. got' = [got EXCEPT ![c] = Append(@, log[Len(log)])]
    BY <1>11 DEF Send
  <2>3. Status' = Status
    BY <1>11 DEF Send, Status
  <2>4. Bus!Receive(c)
    BY <1>11, <2>1, <2>2, <2>3 DEF Send, Status, Bus!Receive
  <2>5. QED
    BY <2>4 DEF Bus!Next
<1>12. CASE Broadcasted
  BY <1>12 DEF Broadcasted
<1>13. CASE UNCHANGED vars
  BY <1>13 DEF vars
<1>14. QED
  BY <1>1, <1>2, <1>3, <1>4, <1>5, <1>6, <1>7, <1>8, <1>9, <1>10, <1>11,
      <1>12, <1>13 DEF Next, Listen

\* The hub implements the bus: each client gets what was taken while it was
\* in the map, all of it, once each and in order.
THEOREM BrokerImplementsPubSub == Spec => Bus!Spec
<1>1. Init => Bus!Init
  BY DEF Init, Bus!Init
<1>2. BusInv /\ BusInv' /\ [Next]_vars => [Bus!Next]_(Bus!vars)
  BY BusMaps
<1>3. QED
  BY <1>1, <1>2, BusInvariant, PTL DEF Spec, Bus!Spec
=============================================================================
