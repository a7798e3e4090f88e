--------------------------- MODULE MqttClientProofs ---------------------------
(***************************************************************************)
(* `connected' follows the state of the library's client, for any number   *)
(* of topics, sockets, calls and faults, with the callbacks of the threads *)
(* run a step or more after what they tell of.  And the broker takes one   *)
(* message for another only if their topics differ, or the identifiers     *)
(* have come round between the two.                                        *)
(***************************************************************************)
EXTENDS MqttClient, SequenceTheorems, TLAPS

LEMMA ClosedClient == Closed \in Clients /\ Closed.state = "INIT"
BY DEF Closed, Clients

LEMMA InitSession == Init => SessionInv
<1>. SUFFICES ASSUME Init PROVE SessionInv
  OBVIOUS
<1>1. /\ connected = FALSE /\ overtaken = FALSE /\ lib = Closed
      /\ event = [x \in Threads |-> "none"]
  BY DEF Init
<1>. QED BY <1>1, ClosedClient DEF SessionInv, Threads

\* A thread loses the session: client_thread when it is in no callback, another
\* when the library has the session.
LEMMA Disconnecting ==
  ASSUME SessionInv, NEW self \in Threads, client_disconnect(self),
         UNCHANGED connected, event[self] = "none",
         self = Client => lib.state # "INIT", self # Client => lib.state = "CONNECTED"
  PROVE  SessionInv'
<1>1. /\ lib' = Closed /\ event' = [event EXCEPT ![self] = "DISCONNECT"]
      /\ overtaken' = (overtaken \/ event[Client] = "CONNACK")
  BY DEF client_disconnect
<1>2. /\ \A x \in Threads : event'[x] = IF x = self THEN "DISCONNECT" ELSE event[x]
      /\ event' \in [Threads -> {"none", "CONNACK", "DISCONNECT"}]
  BY <1>1 DEF SessionInv
<1>3. lib.state # "INIT" /\ \A t \in Topics : event[t] = "none"
  BY DEF SessionInv
<1>4. Client \in Threads /\ Client \notin Topics /\ Topics \subseteq Threads
  BY MqttAssumption DEF Threads, Client
<1>5. CASE self = Client
  BY <1>1, <1>2, <1>3, <1>4, <1>5, ClosedClient DEF SessionInv, LossUntold, Threads
<1>6. CASE self # Client
  <2>1. event[Client] # "DISCONNECT"
    BY <1>6 DEF SessionInv
  <2>2. event'[Client] = event[Client] /\ self \in Topics
    BY <1>2, <1>4, <1>6 DEF Threads
  <2>3. event[Client] = "CONNACK" \/ connected
    BY <1>6 DEF SessionInv
  <2>. QED BY <1>1, <1>2, <1>3, <1>4, <2>1, <2>2, <2>3, ClosedClient
           DEF SessionInv, LossUntold, Threads
<1>. QED BY <1>5, <1>6

LEMMA Unchanging == SessionInv /\ UNCHANGED <<connected, libVars>> => SessionInv'
BY DEF SessionInv, LossUntold, libVars

\* client_thread reads some of a payload.
LEMMA Reading ==
  ASSUME SessionInv, NEW b \in BOOLEAN, lib' = [lib EXCEPT !.remaining = b],
         UNCHANGED <<connected, event, overtaken>>
  PROVE  SessionInv'
<1>1. lib' \in Clients /\ lib'.state = lib.state
  BY DEF SessionInv, Clients
<1>. QED BY <1>1 DEF SessionInv, LossUntold

LEMMA Writing ==
  ASSUME SessionInv, NEW self \in Threads, NEW packet, NEW rest,
         client_write(self, packet, rest), UNCHANGED connected, event[self] = "none",
         self = Client => lib.state # "INIT", self # Client => lib.state = "CONNECTED"
  PROVE  SessionInv'
BY Disconnecting, Unchanging DEF client_write

LEMMA Receiving ==
  ASSUME SessionInv, NEW p, NEW rest, Publish(p, rest),
         UNCHANGED connected, event[Client] = "none", lib.state # "INIT"
  PROVE  SessionInv'
<1>1. CASE client_disconnect(Client)
  BY <1>1, Disconnecting DEF Threads
<1>2. CASE p.payload \in {"late", "empty"}
  BY <1>2, Reading DEF Publish
<1>3. CASE p.payload \notin {"late", "empty"}
  BY <1>1, <1>3, Reading DEF Publish
<1>. QED BY <1>2, <1>3

LEMMA Handling ==
  ASSUME SessionInv, NEW p, NEW rest, event_handler(p, rest),
         UNCHANGED connected, event[Client] = "none", lib.state # "INIT"
  PROVE  SessionInv'
<1>. Client \in Threads /\ Client \notin Topics /\ Topics \subseteq Threads
  BY MqttAssumption DEF Threads, Client
<1>1. CASE p.type = "CONNACK" /\ p.accepted
  <2>1. /\ event' = [event EXCEPT ![Client] = "CONNACK"]
        /\ lib' = [lib EXCEPT !.state = "CONNECTED"] /\ UNCHANGED overtaken
    BY <1>1 DEF event_handler
  <2>2. lib' \in Clients /\ lib'.state = "CONNECTED"
    BY <2>1 DEF SessionInv, Clients
  <2>3. /\ \A x \in Threads : event'[x] = IF x = Client THEN "CONNACK" ELSE event[x]
        /\ event' \in [Threads -> {"none", "CONNACK", "DISCONNECT"}]
    BY <2>1 DEF SessionInv
  <2>4. \A t \in Topics : event'[t] = "none"
    BY <2>3 DEF SessionInv
  <2>5. event'[Client] = "CONNACK" /\ connected' \in BOOLEAN /\ overtaken' \in BOOLEAN
    BY <2>1, <2>3 DEF SessionInv
  <2>6. \A x \in Threads : event'[x] # "DISCONNECT"
    BY <2>4, <2>5 DEF Threads
  <2>. QED BY <2>2, <2>3, <2>4, <2>5, <2>6 DEF SessionInv
<1>2. CASE p.type = "CONNACK" /\ ~p.accepted
  BY <1>2, Disconnecting DEF event_handler
<1>3. CASE p.type = "PUBREC"
  BY <1>3, Writing DEF event_handler, Pubrec
<1>4. CASE p.type = "PUBLISH"
  BY <1>4, Receiving DEF event_handler
<1>5. CASE p.type \notin {"CONNACK", "PUBREC", "PUBLISH"}
  BY <1>5, Unchanging DEF event_handler, Quietly
<1>. QED BY <1>1, <1>2, <1>3, <1>4, <1>5

LEMMA Polling ==
  ASSUME SessionInv, wait_poll_input, UNCHANGED connected, event[Client] = "none"
  PROVE  SessionInv'
<1>. Client \in Threads
  BY DEF Threads
<1>1. CASE mqtt_input
  BY <1>1, Handling, Disconnecting, Unchanging DEF mqtt_input
<1>2. CASE ~mqtt_input
  BY <1>2, Unchanging DEF wait_poll_input
<1>. QED BY <1>1, <1>2

\* Without a session and with no callback of its own, client_thread makes a new
\* connection: no other thread is about to clear the flag.
LEMMA Connecting ==
  ASSUME SessionInv, ~connected, event[Client] = "none",
         UNCHANGED <<connected, event, overtaken>>, lib' \in Clients,
         lib'.state # "CONNECTED"
  PROVE  SessionInv'
<1>1. \A t \in Topics : event[t] = "none"
  BY DEF SessionInv
<1>. QED BY <1>1 DEF SessionInv, LossUntold

LEMMA CallingBack == ASSUME SessionInv, NEW self \in Threads, Callback(self) PROVE SessionInv'
<1>1. /\ event[self] # "none" /\ connected' = (event[self] = "CONNACK")
      /\ event' = [event EXCEPT ![self] = "none"] /\ UNCHANGED <<lib, overtaken>>
  BY DEF Callback, Flag
<1>2. /\ \A x \in Threads : event'[x] = IF x = self THEN "none" ELSE event[x]
      /\ event' \in [Threads -> {"none", "CONNACK", "DISCONNECT"}]
  BY <1>1 DEF SessionInv
<1>3. Client \in Threads /\ Client \notin Topics /\ Topics \subseteq Threads
  BY MqttAssumption DEF Threads, Client
<1>4. CASE event[self] = "CONNACK"
  <2>1. self = Client /\ connected' = TRUE
    BY <1>1, <1>4 DEF SessionInv, Threads
  <2>2. lib.state # "TCP"
    BY <1>4, <2>1 DEF SessionInv
  <2>3. event'[Client] = "none" /\ \A t \in Topics : event'[t] = event[t]
    BY <1>2, <1>3, <2>1
  <2>4. lib.state = "INIT" => overtaken
    BY <1>4, <2>1 DEF SessionInv
  <2>5. lib.state \in {"INIT", "CONNECTED"}
    BY <2>2 DEF SessionInv, Clients
  <2>. QED BY <1>1, <1>2, <1>3, <2>1, <2>2, <2>3, <2>4, <2>5 DEF SessionInv, LossUntold
<1>5. CASE event[self] = "DISCONNECT"
  <2>1. connected' = FALSE /\ lib.state = "INIT"
    <3>1. connected' = FALSE
      BY <1>1, <1>5
    <3>2. CASE self = Client
      BY <1>5, <3>1, <3>2 DEF SessionInv, Clients
    <3>3. CASE self # Client
      BY <1>5, <3>1, <3>3 DEF SessionInv, Clients, Threads
    <3>. QED BY <3>2, <3>3, <3>1
  <2>2. \A x \in Threads : event'[x] # "DISCONNECT"
    BY <1>2, <1>5 DEF SessionInv
  <2>3. \A t \in Topics : event'[t] = "none"
    BY <1>2, <1>3, <2>2 DEF SessionInv
  <2>. QED BY <1>1, <1>2, <1>3, <2>1, <2>2, <2>3 DEF SessionInv, LossUntold
<1>. QED BY <1>1, <1>4, <1>5 DEF SessionInv

\* A step of any thread, of the broker or of the network.
LEMMA StepSession == SessionInv /\ [Next]_vars => SessionInv'
<1>. SUFFICES ASSUME SessionInv, [Next]_vars PROVE SessionInv'
  OBVIOUS
<1>1. CASE Poll
  BY <1>1, Polling DEF Poll, At
<1>2. CASE Loop \/ Live
  BY <1>2, Unchanging DEF Loop, Live
<1>3. CASE LiveFails
  BY <1>3, Disconnecting DEF LiveFails, At, Threads
<1>4. CASE ConnectFails
  BY <1>4, Connecting, ClosedClient DEF ConnectFails, At
<1>5. CASE MqttClient_connect
  <2>1. PICK s \in Fds : lib' = [state |-> "TCP", sock |-> s, remaining |-> FALSE]
    BY <1>5 DEF MqttClient_connect
  <2>2. lib' \in Clients /\ lib'.state = "TCP"
    BY <2>1 DEF Clients
  <2>. QED BY <1>5, <2>2, Connecting DEF MqttClient_connect, At
<1>6. ASSUME NEW t \in Topics, MqttClient_publish(t) PROVE SessionInv'
  BY <1>6, Unchanging DEF MqttClient_publish
<1>7. ASSUME NEW t \in Topics, PublishSend(t) PROVE SessionInv'
  <2>1. CASE UNCHANGED libVars
    BY <1>7, <2>1, Unchanging DEF PublishSend
  <2>2. CASE lib.state = "CONNECTED" /\ client_write(t, pub[t][1], down)
    <3>1. t \in Threads /\ t # Client /\ event[t] = "none" /\ UNCHANGED connected
      BY <1>7, <2>2, MqttAssumption DEF PublishSend, Threads, Client, SessionInv
    <3>. QED BY <2>2, <3>1, Writing
  <2>. QED BY <1>7, <2>1, <2>2 DEF PublishSend
<1>8. ASSUME NEW s \in Fds, BrokerReads(s) \/ BrokerCloses(s) PROVE SessionInv'
  BY <1>8, Unchanging DEF BrokerReads, BrokerCloses
<1>9. CASE BrokerPublishes
  BY <1>9, Unchanging DEF BrokerPublishes
<1>10. ASSUME NEW x \in Threads, Callback(x) PROVE SessionInv'
  BY <1>10, CallingBack
<1>11. CASE UNCHANGED vars
  BY <1>11, Unchanging DEF vars
<1>. QED BY <1>1, <1>2, <1>3, <1>4, <1>5, <1>6, <1>7, <1>8, <1>9, <1>10, <1>11 DEF Next, Thread

\* Were the flag clear with a session, client_thread would connect over it
\* (MqttClient.c:284); and it is set without one only until the thread that lost the
\* session writes it (line 49), or for good when line 43 comes after that loss.
THEOREM FlagFollowsSession == Spec => []FlagFollows
<1>1. SessionInv => FlagFollows
  BY DEF SessionInv, FlagFollows
<1>. QED BY InitSession, StepSession, <1>1, PTL DEF Spec

-----------------------------------------------------------------------------
(* The types of the packets. *)

LEMMA ToBrokerKinds ==
  ASSUME NEW p \in ToBroker
  PROVE  /\ p.type = "PUBLISH" => p \in Messages
         /\ p.type \in {"PUBREL", "PUBREC"} => p.id \in Nat
BY DEF ToBroker, Messages

LEMMA FromBrokerKinds ==
  ASSUME NEW p \in FromBroker
  PROVE  /\ p.type = "PUBLISH" => /\ p.id \in 1 .. MaxReceived
                                  /\ p.qos \in 0 .. 2 /\ p.payload \in Payloads
         /\ p.type = "PUBREC" => p.id \in Nat
BY DEF FromBroker

LEMMA ToBrokerMade ==
  /\ [type |-> "CONNECT"] \in ToBroker
  /\ \A i \in Nat : /\ [type |-> "PUBREL", id |-> i] \in ToBroker
                   /\ [type |-> "PUBREC", id |-> i] \in ToBroker
  /\ \A m \in Messages : m \in ToBroker
BY DEF ToBroker

LEMMA FromBrokerMade ==
  /\ \A b \in BOOLEAN : [type |-> "CONNACK", accepted |-> b] \in FromBroker
  /\ \A i \in Nat, k \in {"PUBACK", "PUBREC", "PUBREL", "PUBCOMP"} :
       [type |-> k, id |-> i] \in FromBroker
  /\ \A i \in 1 .. MaxReceived, q \in 0 .. 2, l \in Payloads :
       [type |-> "PUBLISH", id |-> i, qos |-> q, payload |-> l] \in FromBroker
BY DEF FromBroker

LEMMA HeadTail ==
  ASSUME NEW S, NEW q \in Seq(S), q # << >>
  PROVE  /\ Len(q) \in Nat \ {0} /\ Head(q) = q[1] /\ Head(q) \in S
         /\ Tail(q) \in Seq(S) /\ Len(Tail(q)) = Len(q) - 1
         /\ \A i \in 1 .. Len(Tail(q)) : Tail(q)[i] = q[i + 1]
BY HeadTailProperties, EmptySeq

LEMMA TailKeeps ==
  ASSUME NEW S, NEW q \in Seq(S), q # << >>, NEW i \in 1 .. Len(Tail(q))
  PROVE  \E j \in 1 .. Len(q) : Tail(q)[i] = q[j]
<1> DEFINE t == Tail(q)
<1>1. /\ Len(q) \in Nat \ {0} /\ Len(t) = Len(q) - 1
      /\ \A k \in 1 .. Len(t) : t[k] = q[k + 1]
  BY HeadTail
<1> HIDE DEF t
<1>2. ASSUME NEW k \in 1 .. Len(t) PROVE k + 1 \in 1 .. Len(q)
  BY <1>1
<1>3. i \in 1 .. Len(t)
  BY DEF t
<1> QED
  BY <1>1, <1>2, <1>3 DEF t

LEMMA Appended ==
  ASSUME NEW S, NEW q \in Seq(S), NEW e \in S
  PROVE  /\ Len(q) \in Nat
         /\ Append(q, e) \in Seq(S) /\ Len(Append(q, e)) = Len(q) + 1
         /\ \A i \in 1 .. Len(Append(q, e)) :
              Append(q, e)[i] = IF i = Len(q) + 1 THEN e ELSE q[i]
BY AppendProperties, LenProperties

-----------------------------------------------------------------------------
(* The types of the sockets and of what is on them. *)

NetTypes ==
  /\ link \in [Fds -> {"free", "open", "hup"}]
  /\ up \in [Fds -> Seq(ToBroker)]
  /\ down \in [Fds -> Seq(FromBroker)]
  /\ \A s \in Fds : link[s] = "free" => up[s] = << >> /\ down[s] = << >>

NetInv == lib \in Clients /\ session \in Fds \cup {None} /\ NetTypes /\ LinkInv

\* The packets that are left after some were read.
Fewer(rest) ==
  /\ rest \in [Fds -> Seq(FromBroker)]
  /\ \A s \in Fds :
       /\ down[s] = << >> => rest[s] = << >>
       /\ \A i \in 1 .. Len(rest[s]) :
            \E j \in 1 .. Len(down[s]) : rest[s][i] = down[s][j]

LEMMA NoneRead == NetInv => Fewer(down)
BY DEF NetInv, NetTypes, Fewer

LEMMA OneRead ==
  ASSUME NetInv, lib.sock \in Fds, down[lib.sock] # << >>
  PROVE  /\ Fewer([down EXCEPT ![lib.sock] = Tail(@)])
         /\ Head(down[lib.sock]) = down[lib.sock][1]
         /\ Head(down[lib.sock]) \in FromBroker
         /\ Len(down[lib.sock]) \in Nat \ {0}
<1> DEFINE rest == [down EXCEPT ![lib.sock] = Tail(@)]
<1>1. /\ down[lib.sock] \in Seq(FromBroker)
      /\ \A s \in Fds : Len(down[s]) \in Nat
  BY LenProperties DEF NetInv, NetTypes
<1>2. /\ Len(down[lib.sock]) \in Nat \ {0}
      /\ Head(down[lib.sock]) = down[lib.sock][1] /\ Head(down[lib.sock]) \in FromBroker
      /\ Tail(down[lib.sock]) \in Seq(FromBroker)
      /\ Len(Tail(down[lib.sock])) = Len(down[lib.sock]) - 1
      /\ \A i \in 1 .. Len(Tail(down[lib.sock])) :
           Tail(down[lib.sock])[i] = down[lib.sock][i + 1]
  BY <1>1, HeadTail
<1>3. /\ rest \in [Fds -> Seq(FromBroker)]
      /\ \A s \in Fds : rest[s] = IF s = lib.sock THEN Tail(down[s]) ELSE down[s]
  BY <1>2 DEF NetInv, NetTypes
<1> HIDE DEF rest
<1>4. ASSUME NEW s \in Fds, NEW i \in 1 .. Len(rest[s])
      PROVE  \E j \in 1 .. Len(down[s]) : rest[s][i] = down[s][j]
  <2>1. CASE s = lib.sock
    <3>1. rest[s] = Tail(down[s]) /\ down[s] \in Seq(FromBroker) /\ down[s] # << >>
      BY <2>1, <1>1, <1>3
    <3> QED
      BY <3>1, TailKeeps
  <2>2. CASE s # lib.sock
    BY <2>2, <1>3
  <2> QED
    BY <2>1, <2>2
<1>5. \A s \in Fds : down[s] = << >> => rest[s] = << >>
  BY <1>3
<1>6. Fewer(rest)
  BY <1>3, <1>4, <1>5 DEF Fewer
<1> QED
  BY <1>2, <1>6 DEF rest

\* The library closes a socket only when the broker's end is closed.
LEMMA NetDisconnecting ==
  ASSUME NetInv, UNCHANGED session, lib.sock \in Fds, link[lib.sock] = "hup",
         NEW self, client_disconnect(self)
  PROVE  NetInv'
<1>1. /\ link' = [link EXCEPT ![lib.sock] = "free"]
      /\ up' = [up EXCEPT ![lib.sock] = << >>]
      /\ down' = [down EXCEPT ![lib.sock] = << >>]
      /\ lib' = Closed
  BY DEF client_disconnect
<1>2. NetTypes'
  BY <1>1, EmptySeq DEF NetInv, NetTypes
<1>3. lib' \in Clients /\ lib'.state = "INIT"
  BY <1>1, ClosedClient DEF Closed
<1>4. \A s \in Fds : IF s = lib.sock THEN up'[s] = << >> /\ down'[s] = << >>
                     ELSE link'[s] = link[s] /\ up'[s] = up[s] /\ down'[s] = down[s]
  BY <1>1 DEF NetInv, NetTypes
<1>5. LinkInv'
  BY <1>3, <1>4, EmptySeq DEF NetInv, LinkInv, None
<1> QED
  BY <1>2, <1>3, <1>5 DEF NetInv

\* A packet other than CONNECT is written, or none is, and packets are read.
LEMMA NetSending ==
  ASSUME NetInv, UNCHANGED <<session, link>>, NEW s \in Fds, NEW packet \in ToBroker,
         packet.type # "CONNECT", Fewer(down'),
         up' = up \/ (link[s] = "open" /\ up' = [up EXCEPT ![s] = Append(@, packet)]),
         lib' \in Clients, lib'.state # "INIT" => lib'.sock \in Fds
  PROVE  NetInv'
<1>1. CASE up' = up
  BY <1>1 DEF NetInv, NetTypes, LinkInv, Fewer
<1>2. CASE link[s] = "open" /\ up' = [up EXCEPT ![s] = Append(@, packet)]
  <2>1. /\ Len(up[s]) \in Nat
        /\ Append(up[s], packet) \in Seq(ToBroker) /\ Len(Append(up[s], packet)) = Len(up[s]) + 1
        /\ \A i \in 1 .. Len(Append(up[s], packet)) :
             Append(up[s], packet)[i] = IF i = Len(up[s]) + 1 THEN packet ELSE up[s][i]
    BY Appended DEF NetInv, NetTypes
  <2>2. /\ \A r \in Fds : up'[r] = IF r = s THEN Append(up[s], packet) ELSE up[r]
        /\ up' \in [Fds -> Seq(ToBroker)]
    BY <1>2, <2>1 DEF NetInv, NetTypes
  <2>3. NetTypes'
    BY <1>2, <2>2 DEF NetInv, NetTypes, Fewer
  <2>4. \A r \in Fds : \A i \in 1 .. Len(up'[r]) :
          up'[r][i].type = "CONNECT" => i = 1 /\ r # session'
    <3>1. \A r \in Fds : \A i \in 1 .. Len(up[r]) :
            up[r][i].type = "CONNECT" => i = 1 /\ r # session
      BY DEF NetInv, LinkInv
    <3> DEFINE q == Append(up[s], packet)
    <3>2. /\ Len(up[s]) \in Nat /\ Len(q) = Len(up[s]) + 1
          /\ \A i \in 1 .. Len(q) : q[i] = IF i = Len(up[s]) + 1 THEN packet ELSE up[s][i]
      BY <2>1
    <3>3. \A r \in Fds : up'[r] = IF r = s THEN q ELSE up[r]
      BY <2>2
    <3> HIDE DEF q
    <3>4. \A i \in 1 .. Len(q) : q[i] = packet \/ (i \in 1 .. Len(up[s]) /\ q[i] = up[s][i])
      BY <3>2
    <3>5. \A i \in 1 .. Len(q) : q[i].type = "CONNECT" => i = 1 /\ s # session
      BY <3>1, <3>4
    <3>6. UNCHANGED session /\ up'[s] = q /\ \A r \in Fds : r # s => up'[r] = up[r]
      BY <3>3
    <3> QED
      BY <3>1, <3>5, <3>6
  <2>5. \A r \in Fds : \A i \in 1 .. Len(down'[r]) :
          down'[r][i].type = "CONNACK" /\ ~down'[r][i].accepted => link'[r] = "hup"
    <3>1. ASSUME NEW r \in Fds, NEW i \in 1 .. Len(down'[r]),
                 down'[r][i].type = "CONNACK", ~down'[r][i].accepted
          PROVE  link[r] = "hup"
      <4>1. PICK j \in 1 .. Len(down[r]) : down'[r][i] = down[r][j]
        BY DEF Fewer
      <4> QED
        BY <3>1, <4>1 DEF NetInv, LinkInv
    <3> QED
      BY <3>1
  <2> QED
    BY <2>3, <2>4, <2>5 DEF NetInv, LinkInv
<1> QED
  BY <1>1, <1>2

LEMMA NetWriting ==
  ASSUME NetInv, UNCHANGED session, lib.sock \in Fds, NEW packet \in ToBroker,
         packet.type # "CONNECT", NEW rest, Fewer(rest), NEW self,
         client_write(self, packet, rest)
  PROVE  NetInv'
<1>1. CASE client_disconnect(self) /\ link[lib.sock] = "hup"
  BY <1>1, NetDisconnecting
<1>2. CASE ~(client_disconnect(self) /\ link[lib.sock] = "hup")
  <2>1. /\ UNCHANGED <<link, lib>> /\ down' = rest
        /\ up' = up \/ (link[lib.sock] = "open" /\ up' = [up EXCEPT ![lib.sock] = Append(@, packet)])
    BY <1>2 DEF client_write, libVars
  <2>2. Fewer(down') /\ lib' \in Clients /\ (lib'.state # "INIT" => lib'.sock \in Fds)
    BY <2>1 DEF NetInv, LinkInv
  <2> QED
    BY <2>1, <2>2, NetSending
<1> QED
  BY <1>1, <1>2

LEMMA NetReceiving ==
  ASSUME NetInv, UNCHANGED session, lib.sock \in Fds, NEW p \in FromBroker,
         p.type = "PUBLISH", NEW rest, Fewer(rest), Publish(p, rest)
  PROVE  NetInv'
<1> DEFINE packet == [type |-> "PUBREC", id |-> p.id]
<1>1. packet \in ToBroker /\ packet.type # "CONNECT"
  <2>1. p.id \in Nat
    BY FromBrokerKinds, MqttAssumption
  <2> QED
    BY <2>1, ToBrokerMade
<1>2. CASE client_disconnect(Client) /\ link[lib.sock] = "hup"
  BY <1>2, NetDisconnecting
<1>3. ASSUME NEW b \in BOOLEAN, lib' = [lib EXCEPT !.remaining = b], down' = rest, UNCHANGED link,
             up' = up \/ (link[lib.sock] = "open" /\ up' = [up EXCEPT ![lib.sock] = Append(@, packet)])
      PROVE  NetInv'
  <2>1. lib' \in Clients /\ lib'.sock = lib.sock
    BY <1>3 DEF NetInv, Clients
  <2> QED
    BY <1>1, <1>3, <2>1, NetSending
<1>4. CASE p.payload \in {"late", "empty"}
  BY <1>3, <1>4 DEF Publish
<1>5. CASE p.payload \notin {"late", "empty"}
  BY <1>2, <1>3, <1>5 DEF Publish
<1> QED
  BY <1>4, <1>5

LEMMA NetHandling ==
  ASSUME NetInv, UNCHANGED session, lib.sock \in Fds, NEW p \in FromBroker,
         p.type = "CONNACK" /\ ~p.accepted => link[lib.sock] = "hup",
         NEW rest, Fewer(rest), event_handler(p, rest)
  PROVE  NetInv'
<1>1. ASSUME UNCHANGED <<link, up>>, down' = rest, lib' \in Clients, lib'.sock = lib.sock
      PROVE  NetInv'
  <2>1. [type |-> "PUBREL", id |-> 0] \in ToBroker
    BY ToBrokerMade
  <2> QED
    BY <1>1, <2>1, NetSending
<1>2. CASE p.type = "CONNACK" /\ p.accepted
  <2>1. lib' = [lib EXCEPT !.state = "CONNECTED"] /\ down' = rest /\ UNCHANGED <<link, up>>
    BY <1>2 DEF event_handler
  <2>2. lib' \in Clients /\ lib'.sock = lib.sock
    BY <2>1 DEF NetInv, Clients
  <2> QED
    BY <1>1, <2>1, <2>2
<1>3. CASE p.type = "CONNACK" /\ ~p.accepted
  BY <1>3, NetDisconnecting DEF event_handler
<1>4. CASE p.type = "PUBREC"
  <2>1. [type |-> "PUBREL", id |-> p.id] \in ToBroker
    BY <1>4, ToBrokerMade, FromBrokerKinds
  <2>2. client_write(Client, [type |-> "PUBREL", id |-> p.id], rest)
    BY <1>4 DEF event_handler, Pubrec
  <2> QED
    BY <2>1, <2>2, NetWriting
<1>5. CASE p.type = "PUBLISH"
  BY <1>5, NetReceiving DEF event_handler
<1>6. CASE p.type \notin {"CONNACK", "PUBREC", "PUBLISH"}
  <2>1. down' = rest /\ UNCHANGED <<link, up, lib>>
    BY <1>6 DEF event_handler, Quietly, libVars
  <2> QED
    BY <1>1, <2>1 DEF NetInv
<1> QED
  BY <1>2, <1>3, <1>4, <1>5, <1>6

LEMMA NetUnchanging ==
  NetInv /\ UNCHANGED <<lib, session, netVars>> => NetInv'
BY DEF NetInv, NetTypes, LinkInv, netVars

LEMMA NetPolling == ASSUME NetInv, UNCHANGED session, wait_poll_input PROVE NetInv'
<1>1. CASE UNCHANGED <<libVars, netVars>>
  BY <1>1, NetUnchanging DEF libVars
<1>2. ASSUME lib.state # "INIT", down[lib.sock] # << >>,
             event_handler(Head(down[lib.sock]), [down EXCEPT ![lib.sock] = Tail(@)])
      PROVE  NetInv'
  <2> DEFINE p == Head(down[lib.sock])
             rest == [down EXCEPT ![lib.sock] = Tail(@)]
  <2>1. lib.sock \in Fds
    BY <1>2 DEF NetInv, LinkInv
  <2>2. /\ Fewer(rest) /\ p = down[lib.sock][1] /\ p \in FromBroker
        /\ 1 \in 1 .. Len(down[lib.sock])
    BY <1>2, <2>1, OneRead
  <2>3. p.type = "CONNACK" /\ ~p.accepted => link[lib.sock] = "hup"
    BY <2>1, <2>2 DEF NetInv, LinkInv
  <2>4. event_handler(p, rest)
    BY <1>2
  <2> HIDE DEF p, rest
  <2> QED
    BY <2>1, <2>2, <2>3, <2>4, NetHandling
<1>3. ASSUME lib.state # "INIT", link[lib.sock] = "hup", client_disconnect(Client)
      PROVE  NetInv'
  BY <1>3, NetDisconnecting DEF NetInv, LinkInv
<1> QED
  BY <1>1, <1>2, <1>3 DEF wait_poll_input, mqtt_input

\* The threads.
LEMMA NetThread == ASSUME NetInv, SessionInv, Thread PROVE NetInv'
<1>1. CASE Poll
  BY <1>1, NetPolling DEF Poll, brokerVars
<1>2. CASE Loop \/ Live
  BY <1>2, NetUnchanging DEF Loop, Live, brokerVars, libVars
<1>3. CASE LiveFails
  BY <1>3, NetDisconnecting DEF LiveFails, brokerVars, NetInv, LinkInv
<1>4. CASE ConnectFails
  BY <1>4, ClosedClient DEF ConnectFails, netVars, NetInv, NetTypes, LinkInv, Closed
<1>5. CASE MqttClient_connect
  <2>1. PICK s \in Fds : /\ link[s] = "free" /\ link' = [link EXCEPT ![s] = "open"]
                         /\ lib' = [state |-> "TCP", sock |-> s, remaining |-> FALSE]
                         /\ up' = [up EXCEPT ![s] = <<[type |-> "CONNECT"]>>]
    BY <1>5 DEF MqttClient_connect
  <2>2. UNCHANGED <<down, session>> /\ up[s] = << >> /\ down[s] = << >> /\ s # session
    BY <1>5, <2>1 DEF MqttClient_connect, brokerVars, NetInv, NetTypes, LinkInv, None, Fds
  <2>3. <<[type |-> "CONNECT"]>> \in Seq(ToBroker)
    BY ToBrokerMade
  <2>4. /\ NetTypes' /\ lib' \in Clients /\ lib'.sock \in Fds
        /\ \A r \in Fds : IF r = s THEN link'[r] = "open" /\ up'[r] = <<[type |-> "CONNECT"]>>
                          ELSE link'[r] = link[r] /\ up'[r] = up[r]
    BY <2>1, <2>2, <2>3 DEF NetInv, NetTypes, Clients
  <2>5. session' # None => link'[session'] = "open"
    BY <2>2, <2>4 DEF NetInv, LinkInv
  <2>6. \A r \in Fds : \A i \in 1 .. Len(up'[r]) :
          up'[r][i].type = "CONNECT" => i = 1 /\ r # session'
    BY <2>2, <2>4 DEF NetInv, LinkInv
  <2>7. \A r \in Fds : \A i \in 1 .. Len(down'[r]) :
          down'[r][i].type = "CONNACK" /\ ~down'[r][i].accepted => link'[r] = "hup"
    BY <2>2, <2>4, EmptySeq DEF NetInv, LinkInv
  <2> QED
    BY <2>2, <2>4, <2>5, <2>6, <2>7 DEF NetInv, LinkInv
<1> QED
  BY <1>1, <1>2, <1>3, <1>4, <1>5 DEF Thread

LEMMA NetApp ==
  ASSUME NetInv, pub \in [Topics -> {<< >>} \cup {<<m>> : m \in Messages}],
         NEW t \in Topics, MqttClient_publish(t) \/ PublishSend(t)
  PROVE  NetInv'
<1>1. CASE MqttClient_publish(t)
  BY <1>1, NetUnchanging DEF MqttClient_publish, brokerVars, libVars
<1>2. CASE PublishSend(t)
  <2>1. CASE lib.state = "CONNECTED" /\ client_write(t, pub[t][1], down)
    <3>1. pub[t][1] \in Messages /\ pub[t][1] \in ToBroker /\ pub[t][1].type # "CONNECT"
      BY <1>2, ToBrokerMade DEF PublishSend, Messages
    <3>2. lib.sock \in Fds /\ UNCHANGED session
      BY <1>2, <2>1 DEF PublishSend, brokerVars, NetInv, LinkInv
    <3> QED
      BY <2>1, <3>1, <3>2, NoneRead, NetWriting
  <2>2. CASE UNCHANGED <<lib, netVars>>
    BY <1>2, <2>2, NetUnchanging DEF PublishSend, brokerVars, libVars
  <2> QED
    BY <1>2, <2>1, <2>2 DEF PublishSend, libVars
<1> QED
  BY <1>1, <1>2

-----------------------------------------------------------------------------
(* The broker reads one packet and answers. *)

LEMMA BrokerRead ==
  ASSUME NetInv, NEW s \in Fds, up[s] # << >>, up' = [up EXCEPT ![s] = Tail(@)]
  PROVE  /\ up' \in [Fds -> Seq(ToBroker)]
         /\ Head(up[s]) = up[s][1] /\ Head(up[s]) \in ToBroker
         /\ \A r \in Fds : r # s => up'[r] = up[r]
         /\ \A i \in 1 .. Len(up'[s]) : up'[s][i].type # "CONNECT"
<1> DEFINE t == Tail(up[s])
<1>1. /\ Len(up[s]) \in Nat \ {0} /\ Head(up[s]) = up[s][1] /\ Head(up[s]) \in ToBroker
      /\ t \in Seq(ToBroker) /\ Len(t) = Len(up[s]) - 1
      /\ \A i \in 1 .. Len(t) : t[i] = up[s][i + 1]
  BY HeadTail DEF NetInv, NetTypes
<1>2. up'[s] = t /\ \A r \in Fds : r # s => up'[r] = up[r]
  BY DEF NetInv, NetTypes
<1>3. up' \in [Fds -> Seq(ToBroker)]
  BY <1>1 DEF NetInv, NetTypes
<1> HIDE DEF t
<1>4. ASSUME NEW i \in 1 .. Len(t) PROVE t[i].type # "CONNECT"
  <2>1. i + 1 \in 1 .. Len(up[s]) /\ i + 1 # 1
    BY <1>1
  <2> QED
    BY <1>1, <2>1 DEF NetInv, LinkInv
<1> QED
  BY <1>1, <1>2, <1>3, <1>4

LEMMA BrokerAnswered ==
  ASSUME NetInv, NEW s \in Fds, NEW packet \in FromBroker, Answer(s, packet)
  PROVE  /\ down' \in [Fds -> Seq(FromBroker)]
         /\ \A r \in Fds : r # s => down'[r] = down[r]
         /\ \A i \in 1 .. Len(down'[s]) :
              down'[s][i] = packet \/ \E j \in 1 .. Len(down[s]) : down'[s][i] = down[s][j]
<1> DEFINE q == Append(down[s], packet)
<1>1. /\ Len(down[s]) \in Nat /\ q \in Seq(FromBroker) /\ Len(q) = Len(down[s]) + 1
      /\ \A i \in 1 .. Len(q) : q[i] = IF i = Len(down[s]) + 1 THEN packet ELSE down[s][i]
  BY Appended DEF NetInv, NetTypes
<1>2. down'[s] = q /\ \A r \in Fds : r # s => down'[r] = down[r]
  BY DEF NetInv, NetTypes, Answer
<1>3. down' \in [Fds -> Seq(FromBroker)]
  BY <1>1 DEF NetInv, NetTypes, Answer
<1> HIDE DEF q
<1>4. ASSUME NEW i \in 1 .. Len(q), q[i] # packet
      PROVE  \E j \in 1 .. Len(down[s]) : q[i] = down[s][j]
  <2>1. i \in 1 .. Len(down[s])
    BY <1>1, <1>4
  <2> QED
    BY <1>1, <2>1
<1> QED
  BY <1>2, <1>3, <1>4

\* The broker has read a packet and says something that is not a CONNACK.
LEMMA NetAnswering ==
  ASSUME NetInv, UNCHANGED <<lib, session, link>>, NEW s \in Fds, link[s] = "open",
         up[s] # << >>, up' = [up EXCEPT ![s] = Tail(@)],
         NEW packet \in FromBroker, packet.type # "CONNACK",
         Answer(s, packet) \/ UNCHANGED down
  PROVE  NetInv'
<1>1. /\ up' \in [Fds -> Seq(ToBroker)]
      /\ \A r \in Fds : r # s => up'[r] = up[r]
      /\ \A i \in 1 .. Len(up'[s]) : up'[s][i].type # "CONNECT"
  BY BrokerRead
<1>2. /\ down' \in [Fds -> Seq(FromBroker)]
      /\ \A r \in Fds : r # s => down'[r] = down[r]
      /\ \A i \in 1 .. Len(down'[s]) :
           down'[s][i] = packet \/ \E j \in 1 .. Len(down[s]) : down'[s][i] = down[s][j]
  <2>1. CASE Answer(s, packet)
    BY <2>1, BrokerAnswered
  <2>2. CASE UNCHANGED down
    BY <2>2 DEF NetInv, NetTypes
  <2> QED
    BY <2>1, <2>2
<1>3. NetTypes'
  BY <1>1, <1>2 DEF NetInv, NetTypes
<1>4. ASSUME NEW r \in Fds, NEW i \in 1 .. Len(down'[r]),
             down'[r][i].type = "CONNACK", ~down'[r][i].accepted
      PROVE  link'[r] = "hup"
  <2>1. \E j \in 1 .. Len(down[r]) : down'[r][i] = down[r][j]
    BY <1>2, <1>4
  <2> QED
    BY <1>4, <2>1 DEF NetInv, LinkInv
<1>5. \A r \in Fds : \A i \in 1 .. Len(up'[r]) :
        up'[r][i].type = "CONNECT" => i = 1 /\ r # session'
  BY <1>1 DEF NetInv, LinkInv
<1> QED
  BY <1>3, <1>4, <1>5 DEF NetInv, LinkInv

LEMMA NetConnecting ==
  ASSUME NetInv, UNCHANGED lib, NEW s \in Fds, link[s] = "open",
         up[s] # << >>, up' = [up EXCEPT ![s] = Tail(@)], Head(up[s]).type = "CONNECT",
         BrokerAccepts(s) \/ BrokerRefuses(s)
  PROVE  NetInv'
<1>1. /\ up' \in [Fds -> Seq(ToBroker)]
      /\ Head(up[s]) = up[s][1]
      /\ \A r \in Fds : r # s => up'[r] = up[r]
      /\ \A i \in 1 .. Len(up'[s]) : up'[s][i].type # "CONNECT"
  BY BrokerRead
<1>2. s # session
  <2>1. 1 \in 1 .. Len(up[s])
    BY HeadTail DEF NetInv, NetTypes
  <2> QED
    BY <1>1, <2>1 DEF NetInv, LinkInv
<1>3. CASE BrokerAccepts(s)
  <2> DEFINE packet == [type |-> "CONNACK", accepted |-> TRUE]
  <2>1. /\ packet \in FromBroker /\ packet.accepted
        /\ Answer(s, packet) /\ session' = s
        /\ link' = [r \in Fds |-> IF r = session THEN "hup" ELSE link[r]]
    BY <1>3, FromBrokerMade DEF BrokerAccepts
  <2> HIDE DEF packet
  <2>2. /\ down' \in [Fds -> Seq(FromBroker)]
        /\ \A r \in Fds : r # s => down'[r] = down[r]
        /\ \A i \in 1 .. Len(down'[s]) :
             down'[s][i] = packet \/ \E j \in 1 .. Len(down[s]) : down'[s][i] = down[s][j]
    BY <2>1, BrokerAnswered
  <2>3. /\ link' \in [Fds -> {"free", "open", "hup"}] /\ link'[s] = "open"
        /\ \A r \in Fds : r # session => link'[r] = link[r]
        /\ \A r \in Fds : r = session => link'[r] = "hup" /\ link[r] = "open"
    BY <1>2, <2>1 DEF NetInv, NetTypes, LinkInv, None, Fds
  <2>4. NetTypes'
    <3>1. \A r \in Fds : link'[r] = "free" => r # s /\ link[r] = "free"
      BY <2>3
    <3>2. \A r \in Fds : link'[r] = "free" => up'[r] = << >> /\ down'[r] = << >>
      BY <1>1, <2>2, <3>1 DEF NetInv, NetTypes
    <3> QED
      BY <1>1, <2>2, <2>3, <3>2 DEF NetTypes
  <2>5. \A r \in Fds : \A i \in 1 .. Len(down'[r]) :
          down'[r][i].type = "CONNACK" /\ ~down'[r][i].accepted => link'[r] = "hup"
    <3>1. ASSUME NEW r \in Fds, NEW i \in 1 .. Len(down'[r]),
                 down'[r][i].type = "CONNACK", ~down'[r][i].accepted
          PROVE  link[r] = "hup"
      <4>1. PICK j \in 1 .. Len(down[r]) : down'[r][i] = down[r][j]
        <5>1. CASE r = s
          BY <2>1, <2>2, <3>1, <5>1
        <5>2. CASE r # s
          BY <2>2, <5>2
        <5> QED
          BY <5>1, <5>2
      <4> QED
        BY <3>1, <4>1 DEF NetInv, LinkInv
    <3>2. \A r \in Fds : link[r] = "hup" => link'[r] = "hup"
      BY <2>3
    <3> QED
      BY <3>1, <3>2
  <2>6. \A r \in Fds : \A i \in 1 .. Len(up'[r]) :
          up'[r][i].type = "CONNECT" => i = 1 /\ r # session'
    BY <1>1, <2>1 DEF NetInv, LinkInv
  <2> QED
    BY <2>1, <2>3, <2>4, <2>5, <2>6 DEF NetInv, LinkInv
<1>4. CASE BrokerRefuses(s)
  <2> DEFINE packet == [type |-> "CONNACK", accepted |-> FALSE]
  <2>1. /\ packet \in FromBroker
        /\ Answer(s, packet) /\ UNCHANGED session /\ link' = [link EXCEPT ![s] = "hup"]
    BY <1>4, FromBrokerMade DEF BrokerRefuses
  <2> HIDE DEF packet
  <2>2. /\ down' \in [Fds -> Seq(FromBroker)]
        /\ \A r \in Fds : r # s => down'[r] = down[r]
    BY <2>1, BrokerAnswered
  <2>3. link' \in [Fds -> {"free", "open", "hup"}]
        /\ \A r \in Fds : link'[r] = IF r = s THEN "hup" ELSE link[r]
    BY <2>1 DEF NetInv, NetTypes
  <2>4. NetTypes'
    BY <1>1, <2>2, <2>3 DEF NetInv, NetTypes
  <2>5. \A r \in Fds : \A i \in 1 .. Len(down'[r]) :
          down'[r][i].type = "CONNACK" /\ ~down'[r][i].accepted => link'[r] = "hup"
    <3>1. \A r \in Fds : \A i \in 1 .. Len(down[r]) :
            down[r][i].type = "CONNACK" /\ ~down[r][i].accepted => link[r] = "hup"
      BY DEF NetInv, LinkInv
    <3>2. \A i \in 1 .. Len(down'[s]) : link'[s] = "hup"
      BY <2>3
    <3>3. \A r \in Fds : r # s => down'[r] = down[r] /\ link'[r] = link[r]
      BY <2>2, <2>3
    <3> QED
      BY <3>1, <3>2, <3>3
  <2>6. \A r \in Fds : \A i \in 1 .. Len(up'[r]) :
          up'[r][i].type = "CONNECT" => i = 1 /\ r # session'
    <3>1. \A r \in Fds : \A i \in 1 .. Len(up[r]) :
            up[r][i].type = "CONNECT" => i = 1 /\ r # session
      BY DEF NetInv, LinkInv
    <3> QED
      BY <1>1, <2>1, <3>1
  <2>7. session' # None => link'[session'] = "open"
    BY <1>2, <2>1, <2>3 DEF NetInv, LinkInv
  <2> QED
    BY <2>1, <2>4, <2>5, <2>6, <2>7 DEF NetInv, LinkInv
<1> QED
  BY <1>3, <1>4

LEMMA NetReads == ASSUME NetInv, NEW s \in Fds, BrokerReads(s) PROVE NetInv'
<1> DEFINE p == Head(up[s])
<1>1. /\ link[s] = "open" /\ up[s] # << >> /\ up' = [up EXCEPT ![s] = Tail(@)]
      /\ UNCHANGED lib
      /\ \/ p.type = "CONNECT" /\ (BrokerAccepts(s) \/ BrokerRefuses(s))
         \/ BrokerGetsMessage(s, p) \/ BrokerReleases(s, p) \/ BrokerGetsPubrec(s, p)
  BY DEF BrokerReads, libVars
<1>2. p \in ToBroker
  BY <1>1, BrokerRead
<1> HIDE DEF p
<1>3. CASE p.type = "CONNECT" /\ (BrokerAccepts(s) \/ BrokerRefuses(s))
  BY <1>1, <1>3, NetConnecting DEF p
<1>4. ASSUME NEW i \in Nat, NEW k \in {"PUBACK", "PUBREC", "PUBREL", "PUBCOMP"},
             UNCHANGED <<link, session>>,
             Answer(s, [type |-> k, id |-> i]) \/ UNCHANGED down
      PROVE  NetInv'
  <2>1. [type |-> k, id |-> i] \in FromBroker /\ [type |-> k, id |-> i].type # "CONNACK"
    BY FromBrokerMade
  <2> QED
    BY <1>1, <1>4, <2>1, NetAnswering
<1>5. CASE BrokerGetsMessage(s, p)
  <2>1. p.id \in Nat
    BY <1>2, <1>5, ToBrokerKinds, MqttAssumption DEF BrokerGetsMessage, Messages, Ids
  <2>2. /\ UNCHANGED <<link, session>>
        /\ \/ Answer(s, [type |-> "PUBREC", id |-> p.id])
           \/ Answer(s, [type |-> "PUBACK", id |-> p.id])
           \/ UNCHANGED down
    BY <1>5 DEF BrokerGetsMessage
  <2> QED
    BY <1>4, <2>1, <2>2
<1>6. CASE BrokerReleases(s, p)
  BY <1>2, <1>4, <1>6, ToBrokerKinds DEF BrokerReleases
<1>7. CASE BrokerGetsPubrec(s, p)
  BY <1>2, <1>4, <1>7, ToBrokerKinds DEF BrokerGetsPubrec
<1> QED
  BY <1>1, <1>3, <1>5, <1>6, <1>7

LEMMA NetBroker ==
  ASSUME NetInv, received \in 0 .. MaxReceived,
         BrokerPublishes \/ \E s \in Fds : BrokerCloses(s)
  PROVE  NetInv'
<1>1. CASE BrokerPublishes
  <2>1. PICK m \in Received :
          Answer(session, [type |-> "PUBLISH", id |-> received', qos |-> m.qos,
                           payload |-> m.payload])
    BY <1>1 DEF BrokerPublishes
  <2> DEFINE packet == [type |-> "PUBLISH", id |-> received', qos |-> m.qos, payload |-> m.payload]
  <2>2. received' \in 1 .. MaxReceived /\ m.qos \in 0 .. 2 /\ m.payload \in Payloads
    BY <1>1, MqttAssumption DEF BrokerPublishes, Payloads
  <2>3. packet \in FromBroker /\ packet.type = "PUBLISH"
    BY <2>2, FromBrokerMade
  <2>4. /\ session \in Fds /\ link[session] = "open" /\ Answer(session, packet)
        /\ UNCHANGED <<lib, link, up, session>>
    BY <1>1, <2>1 DEF BrokerPublishes, NetInv, LinkInv, libVars
  <2> HIDE DEF packet
  <2>5. /\ down' \in [Fds -> Seq(FromBroker)]
        /\ \A r \in Fds : r # session => down'[r] = down[r]
        /\ \A i \in 1 .. Len(down'[session]) :
             down'[session][i] = packet \/ \E j \in 1 .. Len(down[session]) : down'[session][i] = down[session][j]
    BY <2>3, <2>4, BrokerAnswered
  <2>6. NetTypes'
    BY <2>4, <2>5 DEF NetInv, NetTypes
  <2>7. \A r \in Fds : \A i \in 1 .. Len(down'[r]) :
          down'[r][i].type = "CONNACK" /\ ~down'[r][i].accepted => link'[r] = "hup"
    BY <2>3, <2>4, <2>5 DEF NetInv, LinkInv
  <2> QED
    BY <2>4, <2>6, <2>7 DEF NetInv, LinkInv
<1>2. ASSUME NEW s \in Fds, BrokerCloses(s) PROVE NetInv'
  <2>1. /\ link[s] = "open" /\ link' = [link EXCEPT ![s] = "hup"] /\ up' = [up EXCEPT ![s] = << >>]
        /\ down' = down \/ down' = [down EXCEPT ![s] = << >>]
        /\ session' = IF session = s THEN None ELSE session
        /\ UNCHANGED lib
    BY <1>2 DEF BrokerCloses, libVars
  <2>2. /\ NetTypes'
        /\ \A r \in Fds : /\ link'[r] = IF r = s THEN "hup" ELSE link[r]
                          /\ up'[r] = IF r = s THEN << >> ELSE up[r]
                          /\ down'[r] = down[r] \/ r = s
    BY <2>1, EmptySeq DEF NetInv, NetTypes
  <2>3. \A r \in Fds : \A i \in 1 .. Len(down'[r]) :
          down'[r][i].type = "CONNACK" /\ ~down'[r][i].accepted => link'[r] = "hup"
    BY <2>1, <2>2 DEF NetInv, LinkInv
  <2>4. \A r \in Fds : \A i \in 1 .. Len(up'[r]) :
          up'[r][i].type = "CONNECT" => i = 1 /\ r # session'
    BY <2>1, <2>2, EmptySeq DEF NetInv, LinkInv, None, Fds
  <2>5. session' \in Fds \cup {None} /\ (session' # None => link'[session'] = "open")
    BY <2>1, <2>2 DEF NetInv, LinkInv
  <2> QED
    BY <2>1, <2>2, <2>3, <2>4, <2>5 DEF NetInv, LinkInv
<1> QED
  BY <1>1, <1>2

-----------------------------------------------------------------------------
(* The types of the rest. *)

RestTypes ==
  /\ fd \in Fds \cup {None}
  /\ pc \in {"loop", "connecting", "poll1", "live", "poll2"}
  /\ msg_id \in [Topics -> Ids]
  /\ pub \in [Topics -> {<< >>} \cup {<<m>> : m \in Messages}]
  /\ held \subseteq Held
  /\ dropped \subseteq Messages \X Held
  /\ calls \in 0 .. MaxCalls
  /\ unacked \subseteq [id : 1 .. MaxReceived, payload : Payloads]
  /\ received \in 0 .. MaxReceived
  /\ faults \in 0 .. MaxFaults

LEMMA NextIdRange ==
  ASSUME NEW i \in Ids
  PROVE  NextId(i) \in Ids /\ NextId(i) = IF i + 1 = IdSpace THEN 0 ELSE i + 1
<1> USE MqttAssumption DEF Ids, NextId
<1>1. CASE i + 1 = IdSpace
  BY <1>1
<1>2. CASE i + 1 < IdSpace
  BY <1>2
<1> QED
  BY <1>1, <1>2

LEMMA RestThread == ASSUME RestTypes, Thread PROVE RestTypes'
<1> USE MqttAssumption DEF RestTypes, appVars, brokerVars
<1>1. CASE Poll
  BY <1>1 DEF Poll
<1>2. CASE Loop \/ Live \/ LiveFails
  BY <1>2 DEF Loop, Live, LiveFails
<1>3. CASE ConnectFails
  BY <1>3 DEF ConnectFails
<1>4. CASE MqttClient_connect
  BY <1>4 DEF MqttClient_connect
<1> QED
  BY <1>1, <1>2, <1>3, <1>4 DEF Thread

\* The message that a call of MqttClient_publish makes.
LEMMA PublishMakes ==
  ASSUME RestTypes, NEW t \in Topics, MqttClient_publish(t)
  PROVE  \E m \in Messages :
           /\ m = [type |-> "PUBLISH", id |-> msg_id[t], qos |-> Qos[t], topic |-> t, call |-> calls + 1]
           /\ pub' = [pub EXCEPT ![t] = <<m>>]
           /\ m.type = "PUBLISH" /\ m.id = msg_id[t] /\ m.topic = t /\ m.call = calls + 1
<1> DEFINE m == [type |-> "PUBLISH", id |-> msg_id[t], qos |-> Qos[t], topic |-> t, call |-> calls + 1]
<1>1. pub' = [pub EXCEPT ![t] = <<m>>]
  BY DEF MqttClient_publish
<1>2. msg_id[t] \in Ids /\ Qos[t] \in 0 .. 2
  BY MqttAssumption DEF RestTypes
<1>3. calls + 1 \in 1 .. MaxCalls
  <2>1. MaxCalls \in Nat /\ calls \in Nat /\ calls < MaxCalls
    BY MqttAssumption DEF RestTypes, MqttClient_publish
  <2> QED
    BY <2>1
<1>4. m \in Messages
  BY <1>2, <1>3 DEF Messages
<1> QED
  BY <1>1, <1>4

LEMMA RestApp ==
  ASSUME RestTypes, NEW t \in Topics, MqttClient_publish(t) \/ PublishSend(t)
  PROVE  RestTypes'
<1>1. CASE MqttClient_publish(t)
  <2>1. pub' \in [Topics -> {<< >>} \cup {<<m>> : m \in Messages}]
    BY <1>1, PublishMakes DEF RestTypes
  <2>2. msg_id' \in [Topics -> Ids]
    <3>1. msg_id' = [msg_id EXCEPT ![t] = NextId(msg_id[t])] /\ NextId(msg_id[t]) \in Ids
      BY <1>1, NextIdRange DEF MqttClient_publish, RestTypes
    <3> QED
      BY <3>1 DEF RestTypes
  <2>3. calls' \in 0 .. MaxCalls
    BY <1>1, MqttAssumption DEF MqttClient_publish, RestTypes
  <2> QED
    BY <1>1, <2>1, <2>2, <2>3 DEF MqttClient_publish, RestTypes, brokerVars
<1>2. CASE PublishSend(t)
  BY <1>2 DEF PublishSend, RestTypes, brokerVars
<1> QED
  BY <1>1, <1>2

LEMMA RestReads == ASSUME RestTypes, NetInv, NEW s \in Fds, BrokerReads(s) PROVE RestTypes'
<1> DEFINE p == Head(up[s])
<1>1. /\ up[s] # << >> /\ up' = [up EXCEPT ![s] = Tail(@)]
      /\ UNCHANGED <<fd, pc, msg_id, pub, calls, received>>
      /\ \/ BrokerAccepts(s) \/ BrokerRefuses(s)
         \/ BrokerGetsMessage(s, p) \/ BrokerReleases(s, p) \/ BrokerGetsPubrec(s, p)
  BY DEF BrokerReads, appVars
<1>2. p \in ToBroker
  BY <1>1, BrokerRead
<1> HIDE DEF p
<1>3. CASE BrokerAccepts(s)
  <2>1. \A h \in held : [h EXCEPT !.old = TRUE] \in Held
    BY DEF RestTypes, Held
  <2>2. held' \subseteq Held
    BY <1>3, <2>1 DEF BrokerAccepts
  <2> QED
    BY <1>1, <1>3, <2>2 DEF RestTypes, BrokerAccepts
<1>4. CASE BrokerRefuses(s)
  BY <1>1, <1>4, MqttAssumption DEF RestTypes, BrokerRefuses
<1>5. CASE BrokerGetsMessage(s, p)
  <2>1. p \in Messages
    BY <1>2, <1>5, ToBrokerKinds DEF BrokerGetsMessage
  <2>2. [id |-> p.id, topic |-> p.topic, call |-> p.call, old |-> FALSE] \in Held
    BY <2>1 DEF Messages, Held
  <2>3. held' \subseteq held \cup {[id |-> p.id, topic |-> p.topic, call |-> p.call, old |-> FALSE]}
    BY <1>5 DEF BrokerGetsMessage
  <2>4. dropped' \subseteq dropped \cup {<<p, h>> : h \in held}
    BY <1>5 DEF BrokerGetsMessage
  <2>5. {<<p, h>> : h \in held} \subseteq Messages \X Held
    BY <2>1 DEF RestTypes
  <2>6. held' \subseteq Held
    BY <2>2, <2>3 DEF RestTypes
  <2>7. dropped' \subseteq Messages \X Held
    BY <2>4, <2>5 DEF RestTypes
  <2> QED
    BY <1>1, <1>5, <2>6, <2>7 DEF RestTypes, BrokerGetsMessage
<1>6. CASE BrokerReleases(s, p)
  BY <1>1, <1>6 DEF RestTypes, BrokerReleases
<1>7. CASE BrokerGetsPubrec(s, p)
  BY <1>1, <1>7 DEF RestTypes, BrokerGetsPubrec
<1> QED
  BY <1>1, <1>3, <1>4, <1>5, <1>6, <1>7

LEMMA RestBroker ==
  ASSUME RestTypes, BrokerPublishes \/ \E s \in Fds : BrokerCloses(s)
  PROVE  RestTypes'
<1>1. CASE BrokerPublishes
  <2>1. received' \in 1 .. MaxReceived
    BY <1>1, MqttAssumption DEF BrokerPublishes, RestTypes
  <2>2. unacked' \subseteq [id : 1 .. MaxReceived, payload : Payloads]
    BY <1>1, <2>1, MqttAssumption DEF BrokerPublishes, RestTypes, Payloads
  <2> QED
    BY <1>1, <2>1, <2>2, MqttAssumption DEF BrokerPublishes, RestTypes, appVars
<1>2. ASSUME NEW s \in Fds, BrokerCloses(s) PROVE RestTypes'
  BY <1>2, MqttAssumption DEF BrokerCloses, RestTypes, appVars
<1> QED
  BY <1>1, <1>2

LEMMA TypeParts ==
  TypeOK <=> /\ connected \in BOOLEAN /\ overtaken \in BOOLEAN /\ lib \in Clients
             /\ event \in [Threads -> {"none", "CONNACK", "DISCONNECT"}]
             /\ session \in Fds \cup {None} /\ NetTypes /\ RestTypes
BY Zenon DEF TypeOK, NetTypes, RestTypes

LEMMA MqttInductive == Spec => [](SessionInv /\ NetInv /\ RestTypes)
<1>1. Init => NetInv /\ RestTypes
  <2> SUFFICES ASSUME Init PROVE NetInv /\ RestTypes
    OBVIOUS
  <2>1. NetTypes /\ session = None /\ LinkInv
    BY EmptySeq DEF Init, NetTypes, NoQueue, LinkInv, Closed
  <2>2. RestTypes
    BY MqttAssumption DEF Init, RestTypes, Ids
  <2> QED
    BY <2>1, <2>2, ClosedClient DEF Init, NetInv
<1>2. SessionInv /\ NetInv /\ RestTypes /\ [Next]_vars => NetInv' /\ RestTypes'
  <2> SUFFICES ASSUME SessionInv, NetInv, RestTypes, [Next]_vars PROVE NetInv' /\ RestTypes'
    OBVIOUS
  <2>1. CASE Thread
    BY <2>1, NetThread, RestThread
  <2>2. ASSUME NEW t \in Topics, MqttClient_publish(t) \/ PublishSend(t) PROVE NetInv' /\ RestTypes'
    BY <2>2, NetApp, RestApp DEF RestTypes
  <2>3. ASSUME NEW s \in Fds, BrokerReads(s) PROVE NetInv' /\ RestTypes'
    BY <2>3, NetReads, RestReads
  <2>4. CASE BrokerPublishes \/ \E s \in Fds : BrokerCloses(s)
    BY <2>4, NetBroker, RestBroker DEF RestTypes
  <2>5. ASSUME NEW x \in Threads, Callback(x) PROVE NetInv' /\ RestTypes'
    BY <2>5, NetUnchanging DEF Callback, RestTypes, appVars, brokerVars
  <2>6. CASE UNCHANGED vars
    BY <2>6, NetUnchanging DEF vars, RestTypes, appVars, brokerVars, libVars
  <2> QED
    BY <2>1, <2>2, <2>3, <2>4, <2>5, <2>6 DEF Next
<1> QED
  BY InitSession, StepSession, <1>1, <1>2, PTL DEF Spec

\* Sockets are closed with what was on them, and identifiers keep to 16 bits.
THEOREM MqttTypeCorrect == Spec => []TypeOK
<1>1. SessionInv /\ NetInv /\ RestTypes => TypeOK
  BY TypeParts DEF SessionInv, NetInv
<1> QED
  BY MqttInductive, <1>1, PTL

-----------------------------------------------------------------------------
(* What the broker drops: steps that put no message on its way. *)

\* What is on its way was on its way before, in that order.
Shorter ==
  \A s \in Fds : \E d \in {0, 1} : \A i \in 1 .. Len(up'[s]) :
    up'[s][i].type = "PUBLISH" => i + d \in 1 .. Len(up[s]) /\ up'[s][i] = up[s][i + d]

LEMMA Same == ASSUME UNCHANGED up, TypeOK PROVE Shorter
<1>1. \A s \in Fds : Len(up[s]) \in Nat
  BY LenProperties DEF TypeOK
<1>2. ASSUME NEW s \in Fds, NEW i \in 1 .. Len(up'[s])
      PROVE  i + 0 \in 1 .. Len(up[s]) /\ up'[s][i] = up[s][i + 0]
  BY <1>1
<1> QED
  BY <1>2 DEF Shorter

LEMMA Emptied ==
  ASSUME TypeOK, NEW s, up' = [up EXCEPT ![s] = << >>]
  PROVE  Shorter /\ \A r \in Fds : r = s => Len(up'[r]) = 0
<1>1. \A r \in Fds : Len(up[r]) \in Nat
  BY LenProperties DEF TypeOK
<1>2. \A r \in Fds : up'[r] = IF r = s THEN << >> ELSE up[r]
  BY DEF TypeOK
<1>3. ASSUME NEW r \in Fds, NEW i \in 1 .. Len(up'[r])
      PROVE  i + 0 \in 1 .. Len(up[r]) /\ up'[r][i] = up[r][i + 0]
  BY <1>1, <1>2, EmptySeq
<1> QED
  BY <1>2, <1>3, EmptySeq DEF Shorter

LEMMA Followed ==
  ASSUME TypeOK, NEW s \in Fds, NEW packet \in ToBroker, packet.type # "PUBLISH",
         up' = [up EXCEPT ![s] = Append(@, packet)]
  PROVE  Shorter
<1> DEFINE q == Append(up[s], packet)
<1>1. /\ Len(up[s]) \in Nat /\ Len(q) = Len(up[s]) + 1
      /\ \A i \in 1 .. Len(q) : q[i] = IF i = Len(up[s]) + 1 THEN packet ELSE up[s][i]
  BY Appended DEF TypeOK
<1>2. \A r \in Fds : Len(up[r]) \in Nat
  BY LenProperties DEF TypeOK
<1>3. \A r \in Fds : up'[r] = IF r = s THEN q ELSE up[r]
  BY DEF TypeOK
<1> HIDE DEF q
<1>4. ASSUME NEW r \in Fds, NEW i \in 1 .. Len(up'[r]), up'[r][i].type = "PUBLISH"
      PROVE  i + 0 \in 1 .. Len(up[r]) /\ up'[r][i] = up[r][i + 0]
  BY <1>1, <1>2, <1>3, <1>4
<1> QED
  BY <1>4 DEF Shorter

LEMMA Read ==
  ASSUME TypeOK, NEW s \in Fds, up[s] # << >>, up' = [up EXCEPT ![s] = Tail(@)]
  PROVE  /\ Shorter /\ Len(up[s]) \in Nat \ {0} /\ Head(up[s]) = up[s][1]
         /\ \A i \in 1 .. Len(up'[s]) : i + 1 \in 1 .. Len(up[s]) /\ up'[s][i] = up[s][i + 1]
         /\ \A r \in Fds : r # s => up'[r] = up[r]
<1> DEFINE q == Tail(up[s])
<1>1. /\ Len(up[s]) \in Nat \ {0} /\ Head(up[s]) = up[s][1] /\ Len(q) = Len(up[s]) - 1
      /\ \A i \in 1 .. Len(q) : q[i] = up[s][i + 1]
  BY HeadTail DEF TypeOK
<1>2. \A r \in Fds : Len(up[r]) \in Nat
  BY LenProperties DEF TypeOK
<1>3. up'[s] = q /\ \A r \in Fds : r # s => up'[r] = up[r]
  BY DEF TypeOK
<1> HIDE DEF q
<1>4. ASSUME NEW i \in 1 .. Len(up'[s])
      PROVE  i + 1 \in 1 .. Len(up[s]) /\ up'[s][i] = up[s][i + 1]
  BY <1>1, <1>3
<1>5. ASSUME NEW r \in Fds, r # s, NEW i \in 1 .. Len(up'[r])
      PROVE  i + 0 \in 1 .. Len(up[r]) /\ up'[r][i] = up[r][i + 0]
  BY <1>2, <1>3, <1>5
<1> QED
  BY <1>1, <1>3, <1>4, <1>5 DEF Shorter

LEMMA OnWay ==
  ASSUME TypeOK, NEW s \in Fds, NEW i \in 1 .. Len(up[s]), up[s][i].type = "PUBLISH"
  PROVE  up[s][i] \in Messages
BY ElementOfSeq, ToBrokerKinds DEF TypeOK

\* Such a step keeps the order, when what is held comes before the rest.
LEMMA Ordered ==
  ASSUME DropInv, Shorter, UNCHANGED <<msg_id, calls>>,
         \A t \in Topics : pub'[t] = pub[t] \/ pub'[t] = << >>,
         \A h \in held' :
           /\ Counted(h)
           /\ \A t \in Topics : pub[t] # << >> => Before(h, pub[t][1])
           /\ \A s \in Fds : \A i \in 1 .. Len(up'[s]) :
                up'[s][i].type = "PUBLISH" => Before(h, up'[s][i])
  PROVE  CountedInv' /\ OrderInv'
<1> USE DEF DropInv
<1>1. CountedInv'
  <2>1. \A t \in Topics : pub'[t] # << >> => pub'[t][1].topic = t /\ Counted(pub[t][1])' /\ pub'[t] = pub[t]
    BY DEF CountedInv, Counted
  <2>2. ASSUME NEW s \in Fds, NEW i \in 1 .. Len(up'[s]), up'[s][i].type = "PUBLISH"
        PROVE  Counted(up[s][i])'
    <3>1. PICK d \in {0, 1} : i + d \in 1 .. Len(up[s]) /\ up'[s][i] = up[s][i + d]
      BY <2>2 DEF Shorter
    <3>2. Counted(up[s][i + d])
      BY <2>2, <3>1 DEF CountedInv
    <3> QED
      BY <3>1, <3>2 DEF Counted
  <2>3. ASSUME NEW h \in held' PROVE h.call =< calls' /\ Since(h.id, msg_id'[h.topic]) =< calls' - h.call + 1
    BY DEF Counted
  <2> QED
    BY <2>1, <2>2, <2>3 DEF CountedInv, Counted
<1>2. OrderInv'
  <2>1. ASSUME NEW t \in Topics, pub'[t] # << >>, NEW h \in held'
        PROVE  Before(h, pub'[t][1])
    BY <2>1
  <2>2. ASSUME NEW s \in Fds, NEW i \in 1 .. Len(up'[s]), up'[s][i].type = "PUBLISH"
        PROVE  /\ \A t \in Topics : pub'[t] # << >> => Before(up'[s][i], pub'[t][1])
               /\ \A h \in held' : Before(h, up'[s][i])
               /\ \A j \in 1 .. i - 1 : up'[s][j].type = "PUBLISH" => Before(up'[s][j], up'[s][i])
    <3>1. PICK d \in {0, 1} : \A k \in 1 .. Len(up'[s]) :
            up'[s][k].type = "PUBLISH" => k + d \in 1 .. Len(up[s]) /\ up'[s][k] = up[s][k + d]
      BY DEF Shorter
    <3>2. i + d \in 1 .. Len(up[s]) /\ up'[s][i] = up[s][i + d]
      BY <2>2, <3>1
    <3>3. \A t \in Topics : pub'[t] # << >> => Before(up'[s][i], pub'[t][1])
      BY <2>2, <3>2 DEF OrderInv
    <3>4. ASSUME NEW j \in 1 .. i - 1, up'[s][j].type = "PUBLISH"
          PROVE  Before(up'[s][j], up'[s][i])
      <4>1. j \in 1 .. Len(up'[s]) /\ j + d \in 1 .. (i + d) - 1
        OBVIOUS
      <4>2. up'[s][j] = up[s][j + d]
        BY <3>1, <3>4, <4>1
      <4> QED
        BY <2>2, <3>2, <3>4, <4>1, <4>2 DEF OrderInv
    <3> QED
      BY <2>2, <3>3, <3>4
  <2> QED
    BY <2>1, <2>2 DEF OrderInv, Before
<1> QED
  BY <1>1, <1>2

\* So it is when what is held was held before.
LEMMA Kept ==
  ASSUME DropInv, Shorter, OnSession', UNCHANGED <<msg_id, calls, dropped>>,
         \A t \in Topics : pub'[t] = pub[t] \/ pub'[t] = << >>,
         \A h \in held' : \E g \in held : h.id = g.id /\ h.topic = g.topic /\ h.call = g.call
  PROVE  DropInv'
<1> USE DEF DropInv
<1>1. ASSUME NEW h \in held' PROVE Counted(h) /\ \A t \in Topics : pub[t] # << >> => Before(h, pub[t][1])
  <2>1. PICK g \in held : h.id = g.id /\ h.topic = g.topic /\ h.call = g.call
    OBVIOUS
  <2> QED
    BY <2>1 DEF CountedInv, Counted, OrderInv, Before
<1>2. ASSUME NEW h \in held', NEW s \in Fds, NEW i \in 1 .. Len(up'[s]), up'[s][i].type = "PUBLISH"
      PROVE  Before(h, up'[s][i])
  <2>1. PICK g \in held : h.id = g.id /\ h.topic = g.topic /\ h.call = g.call
    OBVIOUS
  <2>2. PICK j \in 1 .. Len(up[s]) : up'[s][i] = up[s][j]
    BY <1>2 DEF Shorter
  <2> QED
    BY <1>2, <2>1, <2>2 DEF OrderInv, Before
<1>3. CountedInv' /\ OrderInv'
  BY <1>1, <1>2, Ordered
<1>4. DropsAreClashes'
  BY DEF DropsAreClashes
<1> QED
  BY <1>3, <1>4

\* What was on its way on a socket that is closed is gone.
LEMMA DropDisconnecting ==
  ASSUME TypeOK, OnSession, NEW self, client_disconnect(self)
  PROVE  Shorter /\ OnSession'
<1>1. up' = [up EXCEPT ![lib.sock] = << >>]
  BY DEF client_disconnect
<1>2. Shorter /\ \A r \in Fds : r = lib.sock => Len(up'[r]) = 0
  BY <1>1, Emptied
<1>3. \A r \in Fds : r # lib.sock => up'[r] = up[r]
  BY <1>1 DEF TypeOK
<1>4. \A r \in Fds : \A i \in 1 .. Len(up'[r]) : up'[r][i].type # "PUBLISH"
  BY <1>2, <1>3 DEF OnSession
<1> QED
  BY <1>2, <1>4 DEF OnSession

\* The messages on their way are on the library's socket still.
LEMMA DropStaying ==
  ASSUME TypeOK, OnSession, Shorter, lib'.sock = lib.sock,
         lib.state = "CONNECTED" => lib'.state = "CONNECTED"
  PROVE  OnSession'
<1>1. ASSUME NEW s \in Fds, NEW i \in 1 .. Len(up'[s]), up'[s][i].type = "PUBLISH"
      PROVE  lib'.state = "CONNECTED" /\ lib'.sock = s
  <2>1. PICK j \in 1 .. Len(up[s]) : up'[s][i] = up[s][j]
    BY <1>1 DEF Shorter
  <2> QED
    BY <1>1, <2>1 DEF OnSession
<1> QED
  BY <1>1 DEF OnSession

LEMMA DropWriting ==
  ASSUME TypeOK, OnSession, lib.sock \in Fds, NEW packet \in ToBroker,
         packet.type # "PUBLISH", NEW rest, NEW self,
         client_write(self, packet, rest)
  PROVE  Shorter /\ OnSession'
<1>1. CASE client_disconnect(self)
  BY <1>1, DropDisconnecting
<1>2. CASE ~client_disconnect(self)
  <2>1. /\ UNCHANGED lib
        /\ up' = up \/ up' = [up EXCEPT ![lib.sock] = Append(@, packet)]
    BY <1>2 DEF client_write, libVars
  <2>2. Shorter
    BY <2>1, Same, Followed
  <2> QED
    BY <2>1, <2>2, DropStaying
<1> QED
  BY <1>1, <1>2

LEMMA DropReceiving ==
  ASSUME TypeOK, OnSession, lib.sock \in Fds, NEW p \in FromBroker, p.type = "PUBLISH",
         NEW rest, Publish(p, rest)
  PROVE  Shorter /\ OnSession'
<1> DEFINE packet == [type |-> "PUBREC", id |-> p.id]
<1>1. packet \in ToBroker /\ packet.type # "PUBLISH"
  <2>1. p.id \in Nat
    BY FromBrokerKinds, MqttAssumption
  <2> QED
    BY <2>1, ToBrokerMade
<1>2. CASE client_disconnect(Client)
  BY <1>2, DropDisconnecting
<1>3. ASSUME NEW b, lib' = [lib EXCEPT !.remaining = b],
             up' = up \/ up' = [up EXCEPT ![lib.sock] = Append(@, packet)]
      PROVE  Shorter /\ OnSession'
  <2>1. lib'.sock = lib.sock /\ lib'.state = lib.state
    BY <1>3 DEF TypeOK, Clients
  <2>2. Shorter
    BY <1>1, <1>3, Same, Followed
  <2> QED
    BY <2>1, <2>2, DropStaying
<1>4. CASE p.payload \in {"late", "empty"}
  BY <1>3, <1>4 DEF Publish
<1>5. CASE p.payload \notin {"late", "empty"}
  BY <1>2, <1>3, <1>5 DEF Publish
<1> QED
  BY <1>4, <1>5

LEMMA DropHandling ==
  ASSUME TypeOK, OnSession, lib.sock \in Fds, NEW p \in FromBroker, NEW rest,
         event_handler(p, rest)
  PROVE  Shorter /\ OnSession'
<1>1. CASE p.type = "CONNACK" /\ p.accepted
  <2>1. UNCHANGED up /\ lib' = [lib EXCEPT !.state = "CONNECTED"]
    BY <1>1 DEF event_handler
  <2>2. lib'.sock = lib.sock /\ lib'.state = "CONNECTED"
    BY <2>1 DEF TypeOK, Clients
  <2> QED
    BY <2>1, <2>2, Same, DropStaying
<1>2. CASE p.type = "CONNACK" /\ ~p.accepted
  BY <1>2, DropDisconnecting DEF event_handler
<1>3. CASE p.type = "PUBREC"
  <2>1. [type |-> "PUBREL", id |-> p.id] \in ToBroker
    BY <1>3, ToBrokerMade, FromBrokerKinds
  <2>2. client_write(Client, [type |-> "PUBREL", id |-> p.id], rest)
    BY <1>3 DEF event_handler, Pubrec
  <2> QED
    BY <2>1, <2>2, DropWriting
<1>4. CASE p.type = "PUBLISH"
  BY <1>4, DropReceiving DEF event_handler
<1>5. CASE p.type \notin {"CONNACK", "PUBREC", "PUBLISH"}
  BY <1>5, Same, DropStaying DEF event_handler, Quietly, libVars
<1> QED
  BY <1>1, <1>2, <1>3, <1>4, <1>5

LEMMA DropPolling ==
  ASSUME TypeOK, NetInv, OnSession, wait_poll_input
  PROVE  Shorter /\ OnSession'
<1>1. CASE UNCHANGED <<libVars, netVars>>
  BY <1>1, Same, DropStaying DEF netVars, libVars
<1>2. ASSUME lib.state # "INIT", down[lib.sock] # << >>,
             event_handler(Head(down[lib.sock]), [down EXCEPT ![lib.sock] = Tail(@)])
      PROVE  Shorter /\ OnSession'
  <2>1. lib.sock \in Fds
    BY <1>2 DEF NetInv, LinkInv
  <2>2. Head(down[lib.sock]) \in FromBroker
    BY <1>2, <2>1, OneRead
  <2> QED
    BY <1>2, <2>1, <2>2, DropHandling
<1> QED
  BY <1>1, <1>2, DropDisconnecting DEF wait_poll_input, mqtt_input

\* client_thread connects only when no message is on its way.
LEMMA DropThread ==
  ASSUME TypeOK, NetInv, SessionInv, DropInv, Thread
  PROVE  DropInv'
<1>1. OnSession /\ UNCHANGED <<msg_id, calls, pub, held, dropped>>
  BY DEF DropInv, Thread, Poll, Loop, LiveFails, Live, ConnectFails, MqttClient_connect,
         appVars, brokerVars
<1>2. Shorter /\ OnSession'
  <2>1. CASE Poll
    BY <1>1, <2>1, DropPolling DEF Poll
  <2>2. CASE Loop \/ Live
    BY <1>1, <2>2, Same, DropStaying DEF Loop, Live, netVars, libVars
  <2>3. CASE LiveFails
    BY <1>1, <2>3, DropDisconnecting DEF LiveFails
  <2>4. CASE ConnectFails \/ MqttClient_connect
    <3>1. lib.state # "CONNECTED"
      BY <2>4 DEF ConnectFails, MqttClient_connect, At, SessionInv
    <3>2. \A s \in Fds : \A i \in 1 .. Len(up[s]) : up[s][i].type # "PUBLISH"
      BY <1>1, <3>1 DEF OnSession
    <3>3. \A s \in Fds : \A i \in 1 .. Len(up'[s]) : up'[s][i].type # "PUBLISH"
      <4>1. CASE ConnectFails
        BY <3>2, <4>1 DEF ConnectFails, netVars
      <4>2. CASE MqttClient_connect
        <5>1. PICK s \in Fds : up' = [up EXCEPT ![s] = <<[type |-> "CONNECT"]>>]
          BY <4>2 DEF MqttClient_connect
        <5> QED
          BY <3>2, <5>1 DEF TypeOK
      <4> QED
        BY <2>4, <4>1, <4>2
    <3> QED
      BY <3>3 DEF Shorter, OnSession
  <2> QED
    BY <2>1, <2>2, <2>3, <2>4 DEF Thread
<1> QED
  BY <1>1, <1>2, Kept

-----------------------------------------------------------------------------
(* What the broker drops: a message is published, sent and read. *)

\* One publish more adds one to Since at most.
LEMMA CountsOn ==
  ASSUME TypeOK, NEW t \in Topics, MqttClient_publish(t),
         NEW m, m.id \in Ids, m.topic \in Topics, m.call \in Nat, Counted(m)
  PROVE  m.call =< calls' /\ Since(m.id, msg_id'[m.topic]) =< calls' - m.call + 1
<1>1. /\ calls \in Nat /\ calls' = calls + 1
      /\ msg_id'[m.topic] = IF m.topic = t THEN NextId(msg_id[t]) ELSE msg_id[m.topic]
  BY MqttAssumption DEF MqttClient_publish, TypeOK
<1>2. msg_id[t] \in Ids /\ NextId(msg_id[t]) = IF msg_id[t] + 1 = IdSpace THEN 0 ELSE msg_id[t] + 1
  BY NextIdRange DEF TypeOK
<1>3. Since(m.id, msg_id[m.topic]) \in Int
      /\ Since(m.id, msg_id'[m.topic]) =< Since(m.id, msg_id[m.topic]) + 1
  <2>1. CASE m.topic = t
    BY <1>1, <1>2, <2>1, MqttAssumption DEF Since, Ids
  <2>2. CASE m.topic # t
    <3>1. msg_id[m.topic] \in Ids /\ msg_id'[m.topic] = msg_id[m.topic]
      BY <1>1, <2>2 DEF TypeOK
    <3> QED
      BY <3>1, MqttAssumption DEF Since, Ids
  <2> QED
    BY <2>1, <2>2
<1>4. Since(m.id, msg_id'[m.topic]) \in Int
  <2>1. msg_id[m.topic] \in Ids /\ NextId(msg_id[t]) \in Ids
    BY NextIdRange DEF TypeOK
  <2>2. msg_id'[m.topic] \in Int
    BY <1>1, <2>1, MqttAssumption DEF Ids
  <2> QED
    BY <2>2, MqttAssumption DEF Since, Ids
<1>5. m.call =< calls /\ Since(m.id, msg_id[m.topic]) =< calls - m.call + 1
  BY DEF Counted
<1> DEFINE a == Since(m.id, msg_id[m.topic])
           b == Since(m.id, msg_id'[m.topic])
<1>6. a \in Int /\ b \in Int /\ b =< a + 1 /\ a =< calls - m.call + 1
  BY <1>3, <1>4, <1>5
<1> HIDE DEF a, b
<1>7. m.call =< calls' /\ b =< calls' - m.call + 1
  BY <1>1, <1>5, <1>6
<1> QED
  BY <1>7 DEF b

\* A new message comes after those of its topic, with an identifier of its own
\* unless as many were published since as there are identifiers.
LEMMA ComesAfter ==
  ASSUME TypeOK, NEW a, a.id \in Ids, a.topic \in Topics, a.call \in Nat, Counted(a),
         NEW b, b.id = msg_id[b.topic], b.call = calls + 1
  PROVE  Before(a, b)
<1>1. calls \in Nat /\ IdSpace \in Nat /\ a.call =< calls /\ b.call = calls + 1
  BY MqttAssumption DEF TypeOK, Counted
<1>2. a.call < b.call
  BY <1>1
<1>3. ASSUME a.topic = b.topic, a.id = b.id PROVE b.call - a.call >= IdSpace
  <2>1. /\ Since(a.id, msg_id[a.topic]) =< calls - a.call + 1
        /\ msg_id[a.topic] = a.id /\ a.id \in Int
    BY <1>3, MqttAssumption DEF Counted, Ids
  <2>2. Since(a.id, msg_id[a.topic]) = IdSpace
    BY <1>1, <2>1 DEF Since
  <2> QED
    BY <1>1, <2>1, <2>2
<1> QED
  BY <1>2, <1>3 DEF Before

LEMMA DropPublish ==
  ASSUME TypeOK, DropInv, NEW t \in Topics, MqttClient_publish(t)
  PROVE  DropInv'
<1> USE DEF DropInv
<1>1. PICK m \in Messages : /\ pub' = [pub EXCEPT ![t] = <<m>>]
                            /\ m.id = msg_id[t] /\ m.topic = t /\ m.call = calls + 1
  BY PublishMakes DEF TypeOK, RestTypes
<1>2. /\ UNCHANGED <<lib, up, held, dropped>>
      /\ \A u \in Topics : pub'[u] = IF u = t THEN <<m>> ELSE pub[u]
  BY <1>1 DEF MqttClient_publish, netVars, brokerVars, libVars, TypeOK
<1>3. \A x \in Messages : x.id \in Ids /\ x.topic \in Topics /\ x.call \in Nat
  BY DEF Messages
<1>4. \A x \in held : x.id \in Ids /\ x.topic \in Topics /\ x.call \in Nat
  BY DEF Held, TypeOK
<1>5. \A u \in Topics : pub[u] # << >> => pub[u][1] \in Messages
  BY DEF TypeOK
<1>6. CountedInv'
  <2>1. ASSUME NEW u \in Topics, u # t, pub[u] # << >> PROVE Counted(pub[u][1])'
    <3> DEFINE x == pub[u][1]
    <3>1. x \in Messages /\ Counted(x) /\ pub'[u][1] = x
      BY <1>2, <1>5, <2>1 DEF CountedInv
    <3>2. x.call =< calls' /\ Since(x.id, msg_id'[x.topic]) =< calls' - x.call + 1
      BY <1>3, <3>1, CountsOn
    <3> QED
      BY <3>1, <3>2, <1>2, <2>1 DEF Counted
  <2>2. Counted(m)'
    <3>1. m.id \in Ids /\ msg_id'[t] = IF m.id + 1 = IdSpace THEN 0 ELSE m.id + 1
      BY <1>1, NextIdRange DEF TypeOK, MqttClient_publish
    <3>2. calls' = m.call /\ calls' \in Nat
      BY <1>1, MqttAssumption DEF MqttClient_publish, TypeOK
    <3> QED
      BY <1>1, <3>1, <3>2, MqttAssumption DEF Counted, Since, Ids
  <2>3. ASSUME NEW s \in Fds, NEW i \in 1 .. Len(up[s]), up[s][i].type = "PUBLISH"
        PROVE  Counted(up[s][i])'
    <3> DEFINE x == up[s][i]
    <3>1. x \in Messages /\ Counted(x)
      BY <2>3, OnWay DEF CountedInv
    <3>2. x.call =< calls' /\ Since(x.id, msg_id'[x.topic]) =< calls' - x.call + 1
      BY <1>3, <3>1, CountsOn
    <3> QED
      BY <1>2, <3>2 DEF Counted
  <2>4. ASSUME NEW x \in held
        PROVE  x.call =< calls' /\ Since(x.id, msg_id'[x.topic]) =< calls' - x.call + 1
    BY <1>4, CountsOn DEF CountedInv
  <2> QED
    BY <1>1, <1>2, <2>1, <2>2, <2>3, <2>4 DEF CountedInv, Counted
<1>7. OrderInv'
  <2>1. ASSUME NEW x \in held PROVE Before(x, m)
    BY <1>1, <1>4, ComesAfter DEF CountedInv
  <2>2. ASSUME NEW s \in Fds, NEW i \in 1 .. Len(up[s]), up[s][i].type = "PUBLISH"
        PROVE  Before(up[s][i], m)
    BY <1>1, <1>3, <2>2, OnWay, ComesAfter DEF CountedInv
  <2> QED
    BY <1>2, <2>1, <2>2 DEF OrderInv, Before
<1> QED
  BY <1>2, <1>6, <1>7 DEF OnSession, DropsAreClashes

LEMMA DropSend ==
  ASSUME TypeOK, NetInv, DropInv, NEW t \in Topics, PublishSend(t)
  PROVE  DropInv'
<1> DEFINE m == pub[t][1]
<1>1. /\ UNCHANGED <<msg_id, calls, held, dropped>> /\ pub[t] # << >>
      /\ \A u \in Topics : pub'[u] = IF u = t THEN << >> ELSE pub[u]
  BY DEF PublishSend, brokerVars, TypeOK
<1>2. ASSUME Shorter, OnSession' PROVE DropInv'
  BY <1>1, <1>2, Kept
<1>3. CASE UNCHANGED <<libVars, netVars>>
  BY <1>2, <1>3, Same, DropStaying DEF netVars, libVars, DropInv
<1>4. CASE client_disconnect(t)
  BY <1>2, <1>4, DropDisconnecting DEF DropInv
<1>5. CASE UNCHANGED lib /\ lib.state = "CONNECTED" /\ up' = [up EXCEPT ![lib.sock] = Append(@, m)]
  <2> DEFINE s == lib.sock
             q == Append(up[s], m)
  <2>1. s \in Fds /\ m \in Messages /\ m.type = "PUBLISH" /\ m.topic = t
    BY <1>1, <1>5 DEF NetInv, LinkInv, TypeOK, DropInv, CountedInv, Messages
  <2>2. /\ Len(up[s]) \in Nat /\ Len(q) = Len(up[s]) + 1
        /\ \A i \in 1 .. Len(q) : q[i] = IF i = Len(up[s]) + 1 THEN m ELSE up[s][i]
    BY <2>1, ToBrokerMade, Appended DEF TypeOK
  <2>3. \A r \in Fds : up'[r] = IF r = s THEN q ELSE up[r]
    BY <1>5 DEF TypeOK
  <2>4. \A r \in Fds : r # s => \A i \in 1 .. Len(up'[r]) : up'[r][i].type # "PUBLISH"
    BY <2>3 DEF DropInv, OnSession
  <2>5. /\ UNCHANGED <<lib, msg_id, calls, held, dropped>> /\ lib.state = "CONNECTED"
        /\ Counted(m)
        /\ \A h \in held : Counted(h) /\ Before(h, m)
        /\ \A u \in Topics : u # t /\ pub[u] # << >> =>
             /\ pub[u][1].topic = u /\ Counted(pub[u][1])
             /\ \A h \in held : Before(h, pub[u][1])
    BY <1>1, <1>5 DEF DropInv, CountedInv, OrderInv
  <2>6. \A i \in 1 .. Len(up[s]) : up[s][i].type = "PUBLISH" =>
          /\ Counted(up[s][i]) /\ Before(up[s][i], m)
          /\ \A u \in Topics : u # t /\ pub[u] # << >> => Before(up[s][i], pub[u][1])
          /\ \A h \in held : Before(h, up[s][i])
          /\ \A j \in 1 .. i - 1 : up[s][j].type = "PUBLISH" => Before(up[s][j], up[s][i])
    BY <1>1, <2>1 DEF DropInv, CountedInv, OrderInv
  <2>7. \A u \in Topics : u # t /\ pub[u] # << >> => Before(m, pub[u][1])
    BY <2>1, <2>5 DEF Before
  <2> HIDE DEF m, q, s
  <2>8. ASSUME NEW i \in 1 .. Len(q), q[i].type = "PUBLISH"
        PROVE  /\ Counted(q[i])
               /\ \A u \in Topics : u # t /\ pub[u] # << >> => Before(q[i], pub[u][1])
               /\ \A h \in held : Before(h, q[i])
               /\ \A j \in 1 .. i - 1 : q[j].type = "PUBLISH" => Before(q[j], q[i])
    <3>1. CASE i = Len(up[s]) + 1
      <4>1. q[i] = m
        BY <2>2, <3>1
      <4>2. \A j \in 1 .. i - 1 : q[j] = up[s][j] /\ j \in 1 .. Len(up[s])
        BY <2>2, <3>1
      <4> QED
        BY <2>5, <2>6, <2>7, <4>1, <4>2
    <3>2. CASE i # Len(up[s]) + 1
      <4>1. i \in 1 .. Len(up[s]) /\ q[i] = up[s][i]
        BY <2>2, <3>2
      <4>2. \A j \in 1 .. i - 1 : q[j] = up[s][j]
        BY <2>2, <4>1
      <4> QED
        BY <2>6, <2>8, <4>1, <4>2
    <3> QED
      BY <3>1, <3>2
  <2>9. CountedInv'
    BY <1>1, <2>3, <2>4, <2>5, <2>8 DEF CountedInv, Counted
  <2>10. OrderInv'
    BY <1>1, <2>3, <2>4, <2>5, <2>8 DEF OrderInv, Before
  <2>11. OnSession'
    BY <2>4, <2>5 DEF OnSession, s
  <2>12. DropsAreClashes'
    BY <2>5 DEF DropInv, DropsAreClashes
  <2> QED
    BY <2>9, <2>10, <2>11, <2>12 DEF DropInv
<1>6. CASE UNCHANGED <<lib, up>>
  BY <1>2, <1>6, Same, DropStaying DEF DropInv
<1>7. CASE client_write(t, m, down) /\ lib.state = "CONNECTED"
  <2>1. \/ client_disconnect(t)
        \/ UNCHANGED lib /\ up' = up
        \/ UNCHANGED lib /\ up' = [up EXCEPT ![lib.sock] = Append(@, m)]
    BY <1>7, Zenon DEF client_write, libVars
  <2> HIDE DEF m
  <2> QED
    BY <1>4, <1>5, <1>6, <1>7, <2>1
<1> QED
  BY <1>3, <1>7, Zenon DEF PublishSend, TypeOK, Clients

\* The broker takes the first message on its way, which is after those it holds:
\* it joins them, or its identifier is one of theirs.
LEMMA DropMessage ==
  ASSUME TypeOK, DropInv, NEW s \in Fds, BrokerReads(s), BrokerGetsMessage(s, Head(up[s])), OnSession'
  PROVE  DropInv'
<1> USE DEF DropInv
<1> DEFINE p == Head(up[s])
           same == {h \in held : h.id = p.id}
           n == [id |-> p.id, topic |-> p.topic, call |-> p.call, old |-> FALSE]
<1>1. /\ up[s] # << >> /\ up' = [up EXCEPT ![s] = Tail(@)]
      /\ UNCHANGED <<lib, msg_id, pub, calls>>
      /\ p.type = "PUBLISH"
  BY DEF BrokerReads, appVars, libVars, BrokerGetsMessage
<1>2. /\ Shorter /\ Len(up[s]) \in Nat \ {0} /\ p = up[s][1]
      /\ \A i \in 1 .. Len(up'[s]) : i + 1 \in 1 .. Len(up[s]) /\ up'[s][i] = up[s][i + 1]
      /\ \A r \in Fds : r # s => up'[r] = up[r]
  BY <1>1, Read
<1>3. \/ UNCHANGED <<held, dropped>>
      \/ same = {} /\ held' = held \cup {n} /\ UNCHANGED dropped
      \/ held' = held /\ dropped' = dropped \cup {<<p, h>> : h \in same}
  BY DEF BrokerGetsMessage
<1>4. /\ Counted(p)
      /\ \A t \in Topics : pub[t] # << >> => Before(p, pub[t][1])
      /\ \A h \in held : Counted(h) /\ Before(h, p)
      /\ \A h \in held : \A t \in Topics : pub[t] # << >> => Before(h, pub[t][1])
  BY <1>1, <1>2 DEF CountedInv, OrderInv
<1> HIDE DEF p
<1>5. ASSUME NEW h \in held, NEW r \in Fds, NEW i \in 1 .. Len(up'[r]), up'[r][i].type = "PUBLISH"
      PROVE  Before(h, up'[r][i])
  <2>1. PICK j \in 1 .. Len(up[r]) : up'[r][i] = up[r][j]
    BY <1>2, <1>5 DEF Shorter
  <2> QED
    BY <1>5, <2>1 DEF OrderInv
<1>6. ASSUME NEW r \in Fds, NEW i \in 1 .. Len(up'[r]), up'[r][i].type = "PUBLISH"
      PROVE  Before(p, up'[r][i])
  <2>1. r = s
    BY <1>1, <1>2, <1>6 DEF OnSession
  <2>2. i + 1 \in 1 .. Len(up[s]) /\ up'[s][i] = up[s][i + 1] /\ 1 \in 1 .. (i + 1) - 1
    BY <1>2, <2>1
  <2> QED
    BY <1>1, <1>2, <1>6, <2>1, <2>2 DEF OrderInv
<1>7. ASSUME NEW h \in held \cup {n}
      PROVE  /\ Counted(h)
             /\ \A t \in Topics : pub[t] # << >> => Before(h, pub[t][1])
             /\ \A r \in Fds : \A i \in 1 .. Len(up'[r]) :
                  up'[r][i].type = "PUBLISH" => Before(h, up'[r][i])
  <2>1. CASE h \in held
    BY <1>4, <1>5, <2>1
  <2>2. CASE h = n
    BY <1>4, <1>6, <2>2 DEF Counted, Before
  <2> QED
    BY <2>1, <2>2
<1>8. held' \subseteq held \cup {n}
  BY <1>3
<1>9. CountedInv' /\ OrderInv'
  BY <1>1, <1>2, <1>7, <1>8, Ordered
<1>10. DropsAreClashes'
  <2>1. ASSUME NEW h \in same
        PROVE  p.topic # h.topic \/ p.call - h.call >= IdSpace
    BY <1>4 DEF Before
  <2>2. \A d \in dropped' : d \in dropped \/ \E h \in same : d = <<p, h>>
    BY <1>3
  <2> QED
    BY <2>1, <2>2 DEF DropsAreClashes
<1> QED
  BY <1>9, <1>10

LEMMA DropReads ==
  ASSUME TypeOK, DropInv, NEW s \in Fds, BrokerReads(s)
  PROVE  DropInv'
<1> DEFINE p == Head(up[s])
<1>1. /\ up[s] # << >> /\ up' = [up EXCEPT ![s] = Tail(@)]
      /\ UNCHANGED <<lib, msg_id, pub, calls>>
      /\ \/ BrokerAccepts(s) \/ BrokerRefuses(s)
         \/ BrokerGetsMessage(s, p) \/ BrokerReleases(s, p) \/ BrokerGetsPubrec(s, p)
  BY DEF BrokerReads, appVars, libVars
<1>2. Shorter /\ OnSession'
  BY <1>1, Read, DropStaying DEF DropInv
<1>3. ASSUME \A h \in held' : \E g \in held : h.id = g.id /\ h.topic = g.topic /\ h.call = g.call,
             UNCHANGED dropped
      PROVE  DropInv'
  BY <1>1, <1>2, <1>3, Kept
<1>4. CASE BrokerAccepts(s)
  <2>1. \A h \in held : LET o == [h EXCEPT !.old = TRUE]
                        IN  o.id = h.id /\ o.topic = h.topic /\ o.call = h.call
    BY DEF TypeOK, Held
  <2>2. held' = {} \/ held' = {[h EXCEPT !.old = TRUE] : h \in held}
    BY <1>4 DEF BrokerAccepts
  <2>3. ASSUME NEW o \in held'
        PROVE  \E g \in held : o.id = g.id /\ o.topic = g.topic /\ o.call = g.call
    <3>1. PICK g \in held : o = [g EXCEPT !.old = TRUE]
      BY <2>2
    <3> QED
      BY <2>1, <3>1
  <2>4. UNCHANGED dropped
    BY <1>4 DEF BrokerAccepts
  <2> QED
    BY <1>3, <2>3, <2>4
<1>5. CASE BrokerRefuses(s) \/ BrokerReleases(s, p) \/ BrokerGetsPubrec(s, p)
  BY <1>3, <1>5 DEF BrokerRefuses, BrokerReleases, BrokerGetsPubrec
<1>6. CASE BrokerGetsMessage(s, p)
  BY <1>2, <1>6, DropMessage
<1> QED
  BY <1>1, <1>4, <1>5, <1>6

LEMMA DropBroker ==
  ASSUME TypeOK, DropInv, BrokerPublishes \/ \E s \in Fds : BrokerCloses(s)
  PROVE  DropInv'
<1>1. UNCHANGED <<lib, msg_id, pub, calls, held, dropped>> /\ (UNCHANGED up \/ \E s \in Fds : up' = [up EXCEPT ![s] = << >>])
  BY DEF BrokerPublishes, BrokerCloses, appVars, libVars
<1>2. Shorter
  BY <1>1, Same, Emptied
<1>3. OnSession'
  BY <1>1, <1>2, DropStaying DEF DropInv
<1> QED
  BY <1>1, <1>2, <1>3, Kept

\* A QoS 2 message that the broker takes for another is of another topic, whose
\* msg_id counts apart, or IdSpace publishes of its topic were made since: what
\* is lost in between, and connections left behind, confuse no others.
THEOREM DropsOnlyClash == Spec => []DropsAreClashes
<1>1. Init => DropInv
  BY EmptySeq DEF Init, DropInv, NoQueue, OnSession, CountedInv, OrderInv, DropsAreClashes
<1>2. TypeOK /\ NetInv /\ SessionInv /\ DropInv /\ [Next]_vars => DropInv'
  <2> SUFFICES ASSUME TypeOK, NetInv, SessionInv, DropInv, [Next]_vars PROVE DropInv'
    OBVIOUS
  <2>1. CASE Thread
    BY <2>1, DropThread
  <2>2. ASSUME NEW t \in Topics, MqttClient_publish(t) \/ PublishSend(t) PROVE DropInv'
    BY <2>2, DropPublish, DropSend
  <2>3. ASSUME NEW s \in Fds, BrokerReads(s) PROVE DropInv'
    BY <2>3, DropReads
  <2>4. CASE BrokerPublishes \/ \E s \in Fds : BrokerCloses(s)
    BY <2>4, DropBroker
  <2>5. CASE UNCHANGED vars \/ \E x \in Threads : Callback(x)
    <3>1. UNCHANGED <<lib, appVars, netVars, brokerVars>>
      BY <2>5 DEF vars, libVars, Callback
    <3>2. Shorter /\ OnSession'
      BY <3>1, Same, DropStaying DEF netVars, DropInv
    <3> QED
      BY <3>1, <3>2, Kept DEF appVars, brokerVars
  <2> QED
    BY <2>1, <2>2, <2>3, <2>4, <2>5 DEF Next
<1>3. DropInv => DropsAreClashes
  BY DEF DropInv
<1> QED
  BY MqttInductive, MqttTypeCorrect, <1>1, <1>2, <1>3, PTL DEF Spec
=============================================================================
