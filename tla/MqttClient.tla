------------------------------ MODULE MqttClient ------------------------------
(***************************************************************************)
(* modules/MqttClient: the client's thread connects, reads packets and     *)
(* calls event_handler for each; the application's threads, one for each   *)
(* topic, publish.  `connected' is the only thing they share besides the   *)
(* library's client, which has a mutex of its own.  The library changes    *)
(* its client under the mutex and lets it go to call event_handler, in the *)
(* thread that called the library: the flag is written a step after what   *)
(* it tells of, and other threads may come between.                        *)
(*                                                                         *)
(* The mqtt library, the sockets and the broker are external: what their   *)
(* calls return and which events they raise is taken from how MqttClient.c *)
(* uses them and from the protocol.  A packet is one record; a connection  *)
(* is the socket it was made with, which is used again once it is closed.  *)
(* Pings change nothing but the end they may bring.                        *)
(***************************************************************************)
EXTENDS Integers, Sequences, SequencesExt

CONSTANTS Topics,      \* topics the application publishes to
          Qos,           \* their quality of service, as given to MqttClient_setTopic
          IdSpace,       \* values of the uint16_t msg_id; 65536 in the code
          MaxFds,        \* sockets there are
          MaxCalls,      \* calls of MqttClient_publish while connected (bound)
          Received,      \* the broker's messages: quality of service, and whether
                         \* the payload is read "whole", in "part", "late" or "empty"
          MaxReceived,   \* how many of them (bound)
          MaxFaults      \* refusals, closed connections and the like (bound)

ASSUME MqttAssumption ==
  /\ Qos \in [Topics -> 0 .. 2]
  /\ IdSpace \in Nat \ {0}
  /\ {MaxFds, MaxCalls, MaxReceived, MaxFaults} \subseteq Nat
  /\ Received \subseteq [qos : 0 .. 2, payload : {"whole", "part", "late", "empty"}]
  /\ "client_thread" \notin Topics

Client == "client_thread"
Threads == Topics \cup {Client}
Fds == 1 .. MaxFds
None == 0
Ids == 0 .. IdSpace - 1

VARIABLES connected,   \* mqc->connected
          lib,         \* the library's client: its state, its socket and whether
                       \* part of a payload is still to be read
          event,       \* the event each thread is about to tell event_handler of,
                       \* of those that write the flag
          overtaken,   \* a session was lost before its CONNACK was told of (history)
          fd,          \* mqc->fds[0].fd
          pc,          \* where client_thread is
          msg_id,      \* tp->msg_id of each topic
          pub,         \* the message each topic's thread is about to send, or <<>>
          link,        \* each socket: "free", "open", or "hup" when the broker's
                       \* end is closed
          up,          \* packets to the broker, on each socket
          down,        \* packets from the broker, on each socket
          session,     \* the broker's connection with this client
          held,        \* QoS 2 messages the broker has and that are not released;
                       \* old when an earlier connection left them
          unacked,     \* QoS 2 messages to the client without a PUBREC
          calls,       \* calls of MqttClient_publish so far (history)
          dropped,     \* pairs of a message and the one it was taken for (history)
          received, faults   \* counters of the bounds

appVars == <<msg_id, pub, calls>>
libVars == <<lib, event, overtaken>>
brokerVars == <<session, held, unacked, dropped, received, faults>>
netVars == <<link, up, down>>
vars == <<connected, libVars, fd, pc, appVars, netVars, brokerVars>>

Closed == [state |-> "INIT", sock |-> None, remaining |-> FALSE]
NoQueue == [s \in Fds |-> << >>]

Init == /\ connected = FALSE
        /\ lib = Closed
        /\ event = [x \in Threads |-> "none"]
        /\ overtaken = FALSE
        /\ fd = None
        /\ pc = "loop"
        /\ msg_id = [t \in Topics |-> 0]
        /\ pub = [t \in Topics |-> << >>]
        /\ link = [s \in Fds |-> "free"]
        /\ up = NoQueue
        /\ down = NoQueue
        /\ session = None
        /\ held = {}
        /\ unacked = {}
        /\ calls = 0
        /\ dropped = {}
        /\ received = 0
        /\ faults = 0

-----------------------------------------------------------------------------
(* The library's calls, on its client, by the thread `self'. *)

\* The socket is closed, the client reset, and the event raised.
client_disconnect(self) ==
  /\ link' = [link EXCEPT ![lib.sock] = "free"]
  /\ up' = [up EXCEPT ![lib.sock] = << >>]
  /\ down' = [down EXCEPT ![lib.sock] = << >>]
  /\ lib' = Closed
  /\ event' = [event EXCEPT ![self] = "DISCONNECT"]
  /\ overtaken' = (overtaken \/ event[Client] = "CONNACK")

\* One packet is written.  When the broker's end is closed it is lost, or the
\* write fails and the connection ends.
client_write(self, packet, rest) ==
  \/ /\ up' = IF link[lib.sock] = "open" THEN [up EXCEPT ![lib.sock] = Append(@, packet)]
                                         ELSE up
     /\ down' = rest
     /\ UNCHANGED <<link, libVars>>
  \/ /\ link[lib.sock] = "hup"
     /\ client_disconnect(self)

-----------------------------------------------------------------------------
(* event_handler *)

\* MUTANT: DISCONNECT leaves the flag.
DisconnectStays(e, flag) == e = "CONNACK" \/ flag

\* What the flag becomes on MQTT_EVT_CONNACK and on MQTT_EVT_DISCONNECT, which
\* goes on into the SUBACK case, where it logs.
Flag(e, flag) == e = "CONNACK"

\* The thread the library called event_handler in writes the flag.
Callback(self) ==
  /\ event[self] # "none"
  /\ connected' = Flag(event[self], connected)
  /\ event' = [event EXCEPT ![self] = "none"]
  /\ UNCHANGED <<lib, overtaken, fd, pc, appVars, netVars, brokerVars>>

\* A packet of the broker is read: `rest' are the packets after it.
Quietly(rest) == down' = rest /\ UNCHANGED <<link, up, libVars>>

\* MUTANT: the message is not released.
PubrecQuiet(id, rest) == Quietly(rest)

Pubrec(id, rest) == client_write(Client, [type |-> "PUBREL", id |-> id], rest)

\* MUTANT: the message is taken for read, and not acknowledged.
PublishNoAck(p, rest) == Quietly(rest)

\* mqtt_read_publish_payload reads what has come of the payload; the rest of it
\* stays in the library's way.  Nothing read, whether it is to come (late) or
\* there is none (empty), is taken for an error.
Publish(p, rest) ==
  IF p.payload \in {"late", "empty"}
  THEN /\ down' = rest
       /\ lib' = [lib EXCEPT !.remaining = (p.payload = "late")]
       /\ UNCHANGED <<link, up, event, overtaken>>
  ELSE \/ /\ link[lib.sock] = "hup"
          /\ p.qos = 2
          /\ client_disconnect(Client)
       \/ /\ up' = IF p.qos = 2 /\ link[lib.sock] = "open"
                   THEN [up EXCEPT ![lib.sock] = Append(@, [type |-> "PUBREC", id |-> p.id])]
                   ELSE up
          /\ down' = rest
          /\ lib' = [lib EXCEPT !.remaining = (p.payload = "part")]
          /\ UNCHANGED <<link, event, overtaken>>

\* The packet and, but for the flag, what event_handler does with it.  A refusal
\* is told of twice, by CONNACK and by DISCONNECT, to clear a flag that is clear.
event_handler(p, rest) ==
  CASE p.type = "CONNACK" /\ p.accepted ->
         /\ event' = [event EXCEPT ![Client] = "CONNACK"]
         /\ lib' = [lib EXCEPT !.state = "CONNECTED"]
         /\ down' = rest
         /\ UNCHANGED <<overtaken, link, up>>
    [] p.type = "CONNACK" /\ ~p.accepted -> client_disconnect(Client)
    [] p.type = "PUBREC" -> Pubrec(p.id, rest)
    [] p.type = "PUBLISH" -> Publish(p, rest)
    [] OTHER -> Quietly(rest)   \* PUBACK, PUBCOMP, PUBREL

\* Reads one packet, unless part of a payload is in the way.
mqtt_input ==
  \/ /\ lib.state = "INIT" \/ lib.remaining
     /\ UNCHANGED <<libVars, netVars>>
  \/ /\ lib.state # "INIT" /\ ~lib.remaining
     /\ down[lib.sock] # << >>
     /\ event_handler(Head(down[lib.sock]), [down EXCEPT ![lib.sock] = Tail(@)])
  \/ /\ lib.state # "INIT" /\ ~lib.remaining
     /\ down[lib.sock] = << >>
     /\ link[lib.sock] = "hup"
     /\ client_disconnect(Client)

-----------------------------------------------------------------------------
(* client_thread *)

\* The thread is at a place of its loop, and not in event_handler.
At(place) == pc = place /\ event[Client] = "none"

\* POLLIN comes before POLLHUP; a hangup without it, an error, a timeout and a
\* closed socket are the same to the caller.
wait_poll_input ==
  \/ /\ fd # None /\ (down[fd] # << >> \/ link[fd] = "hup")
     /\ mqtt_input
  \/ /\ ~(fd # None /\ down[fd] # << >>)
     /\ UNCHANGED <<libVars, netVars>>

Poll == /\ \/ At("connecting") /\ pc' = "loop"
           \/ At("poll1") /\ pc' = "live"
           \/ At("poll2") /\ pc' = "loop"
        /\ wait_poll_input
        /\ UNCHANGED <<connected, fd, appVars, brokerVars>>

Loop == /\ At("loop")
        /\ connected
        /\ pc' = "poll1"
        /\ UNCHANGED <<connected, libVars, fd, appVars, netVars, brokerVars>>

\* MUTANT: mqtt_live is left out, as mqtt_ping is.
LiveFailsNever == FALSE

\* The keep-alive time is over and the ping cannot be written.
LiveFails == /\ At("live")
             /\ lib.state = "CONNECTED"
             /\ link[lib.sock] = "hup"
             /\ pc' = "poll2"
             /\ client_disconnect(Client)
             /\ UNCHANGED <<connected, fd, appVars, brokerVars>>

Live == /\ At("live")
        /\ pc' = "poll2"
        /\ UNCHANGED <<connected, libVars, fd, appVars, netVars, brokerVars>>

\* mqtt_connect makes a socket without a look at the one it may have.  When
\* there is none, or the broker cannot be reached, the client is reset.
ConnectFails ==
  /\ At("loop")
  /\ ~connected
  /\ \/ \A s \in Fds : link[s] # "free"
     \/ faults < MaxFaults
  /\ faults' = IF \E s \in Fds : link[s] = "free" THEN faults + 1 ELSE faults
  /\ pc' = "connecting"
  /\ lib' = Closed
  /\ fd' = None
  /\ UNCHANGED <<connected, event, overtaken, appVars, netVars, session, held, unacked,
                 dropped, received>>

MqttClient_connect ==
  /\ At("loop")
  /\ ~connected
  /\ pc' = "connecting"
  /\ \E s \in Fds :
       /\ link[s] = "free"
       /\ \A r \in Fds : r < s => link[r] # "free"
       /\ lib' = [state |-> "TCP", sock |-> s, remaining |-> FALSE]
       /\ fd' = s
       /\ link' = [link EXCEPT ![s] = "open"]
       /\ up' = [up EXCEPT ![s] = <<[type |-> "CONNECT"]>>]
  /\ UNCHANGED <<connected, event, overtaken, appVars, down, brokerVars>>

Thread == Poll \/ Loop \/ LiveFails \/ Live \/ ConnectFails \/ MqttClient_connect

-----------------------------------------------------------------------------
(* The application. *)

\* MUTANT: wider than an identifier on the wire.
NextIdPast(id) == (id + 1) % (IdSpace + 1)

\* MUTANT: counts from 0 to 1 and stays there.
NextIdStays(id) == 1

NextId(id) == (id + 1) % IdSpace

\* MqttClient_publish up to its last line; without a connection it does nothing.
MqttClient_publish(t) ==
  /\ pub[t] = << >> /\ event[t] = "none"
  /\ connected
  /\ calls < MaxCalls
  /\ calls' = calls + 1
  /\ pub' = [pub EXCEPT ![t] =
       <<[type |-> "PUBLISH", id |-> msg_id[t], qos |-> Qos[t], topic |-> t, call |-> calls']>>]
  /\ msg_id' = [msg_id EXCEPT ![t] = NextId(@)]
  /\ UNCHANGED <<connected, libVars, fd, pc, netVars, brokerVars>>

\* mqtt_publish: refused without a session, and with the identifier 0, which the
\* protocol keeps for messages without quality of service.
PublishSend(t) ==
  /\ pub[t] # << >>
  /\ pub' = [pub EXCEPT ![t] = << >>]
  /\ IF lib.state # "CONNECTED" \/ (Qos[t] > 0 /\ pub[t][1].id = 0)
     THEN UNCHANGED <<libVars, netVars>>
     ELSE client_write(t, pub[t][1], down)
  /\ UNCHANGED <<connected, fd, pc, msg_id, calls, brokerVars>>

-----------------------------------------------------------------------------
(* The broker and the network. *)

Answer(s, packet) == down' = [down EXCEPT ![s] = Append(@, packet)]

\* A new connection ends the one before it, and finds what that left or not.
BrokerAccepts(s) ==
  /\ session' = s
  /\ link' = [r \in Fds |-> IF r = session THEN "hup" ELSE link[r]]
  /\ held' \in {{}, {[h EXCEPT !.old = TRUE] : h \in held}}
  /\ unacked' = {}
  /\ Answer(s, [type |-> "CONNACK", accepted |-> TRUE])
  /\ UNCHANGED <<dropped, faults>>

BrokerRefuses(s) ==
  /\ faults < MaxFaults
  /\ faults' = faults + 1
  /\ Answer(s, [type |-> "CONNACK", accepted |-> FALSE])
  /\ link' = [link EXCEPT ![s] = "hup"]
  /\ UNCHANGED <<session, held, unacked, dropped>>

\* A QoS 2 message whose identifier is held is taken for the one that has it.
BrokerGetsMessage(s, p) ==
  LET same == {h \in held : h.id = p.id}
  IN  /\ p.type = "PUBLISH"
      /\ IF p.qos = 2
         THEN /\ held' = IF same = {} THEN held \cup {[id |-> p.id, topic |-> p.topic,
                                                       call |-> p.call, old |-> FALSE]}
                                      ELSE held
              /\ dropped' = dropped \cup {<<p, h>> : h \in same}
              /\ Answer(s, [type |-> "PUBREC", id |-> p.id])
         ELSE /\ IF p.qos = 1 THEN Answer(s, [type |-> "PUBACK", id |-> p.id])
                              ELSE UNCHANGED down
              /\ UNCHANGED <<held, dropped>>
      /\ UNCHANGED <<link, session, unacked, faults>>

BrokerReleases(s, p) ==
  /\ p.type = "PUBREL"
  /\ held' = {h \in held : h.id # p.id}
  /\ Answer(s, [type |-> "PUBCOMP", id |-> p.id])
  /\ UNCHANGED <<link, session, unacked, dropped, faults>>

BrokerGetsPubrec(s, p) ==
  /\ p.type = "PUBREC"
  /\ unacked' = {m \in unacked : m.id # p.id}
  /\ Answer(s, [type |-> "PUBREL", id |-> p.id])
  /\ UNCHANGED <<link, session, held, dropped, faults>>

BrokerReads(s) ==
  /\ link[s] = "open"
  /\ up[s] # << >>
  /\ up' = [up EXCEPT ![s] = Tail(@)]
  /\ LET p == Head(up[s])
     IN  \/ p.type = "CONNECT" /\ (BrokerAccepts(s) \/ BrokerRefuses(s))
         \/ BrokerGetsMessage(s, p)
         \/ BrokerReleases(s, p)
         \/ BrokerGetsPubrec(s, p)
  /\ UNCHANGED <<connected, libVars, fd, pc, appVars, received>>

BrokerPublishes ==
  /\ session # None
  /\ received < MaxReceived
  /\ received' = received + 1
  /\ \E m \in Received :
       /\ Answer(session, [type |-> "PUBLISH", id |-> received', qos |-> m.qos,
                           payload |-> m.payload])
       /\ unacked' = IF m.qos = 2 THEN unacked \cup {[id |-> received', payload |-> m.payload]}
                                  ELSE unacked
  /\ UNCHANGED <<connected, libVars, fd, pc, appVars, link, up, session, held, dropped, faults>>

\* The broker or the network ends a connection; what is on its way to the client
\* is lost when the network does.
BrokerCloses(s) ==
  /\ link[s] = "open"
  /\ faults < MaxFaults
  /\ faults' = faults + 1
  /\ link' = [link EXCEPT ![s] = "hup"]
  /\ session' = IF session = s THEN None ELSE session
  /\ up' = [up EXCEPT ![s] = << >>]
  /\ \/ UNCHANGED down
     \/ down' = [down EXCEPT ![s] = << >>]
  /\ UNCHANGED <<connected, libVars, fd, pc, appVars, held, unacked, dropped, received>>

-----------------------------------------------------------------------------

Next == \/ Thread
        \/ \E x \in Threads : Callback(x)
        \/ \E t \in Topics : MqttClient_publish(t) \/ PublishSend(t)
        \/ \E s \in Fds : BrokerReads(s) \/ BrokerCloses(s)
        \/ BrokerPublishes

\* The thread and the application's are scheduled, the broker reads what it gets;
\* the keep-alive time passes and a write to a closed connection fails at last.
Spec == /\ Init /\ [][Next]_vars
        /\ WF_vars(Thread)
        /\ SF_vars(LiveFails)
        /\ \A x \in Threads : WF_vars(Callback(x))
        /\ \A t \in Topics : WF_vars(PublishSend(t))
        /\ \A s \in Fds : WF_vars(BrokerReads(s))

-----------------------------------------------------------------------------
(* Properties. *)

Clients == [state : {"INIT", "TCP", "CONNECTED"}, sock : Fds \cup {None}, remaining : BOOLEAN]
Messages == [type : {"PUBLISH"}, id : Ids, qos : 0 .. 2, topic : Topics, call : 1 .. MaxCalls]
Held == [id : Ids, topic : Topics, call : 1 .. MaxCalls, old : BOOLEAN]
Payloads == {"whole", "part", "late", "empty"}
ToBroker == [type : {"CONNECT"}] \cup [type : {"PUBREL", "PUBREC"}, id : Nat] \cup Messages
FromBroker == [type : {"CONNACK"}, accepted : BOOLEAN]
                \cup [type : {"PUBACK", "PUBREC", "PUBREL", "PUBCOMP"}, id : Nat]
                \cup [type : {"PUBLISH"}, id : 1 .. MaxReceived, qos : 0 .. 2, payload : Payloads]

TypeOK ==
  /\ connected \in BOOLEAN
  /\ lib \in Clients
  /\ event \in [Threads -> {"none", "CONNACK", "DISCONNECT"}]
  /\ overtaken \in BOOLEAN
  /\ fd \in Fds \cup {None}
  /\ pc \in {"loop", "connecting", "poll1", "live", "poll2"}
  /\ msg_id \in [Topics -> Ids]
  /\ pub \in [Topics -> {<< >>} \cup {<<m>> : m \in Messages}]
  /\ up \in [Fds -> Seq(ToBroker)]
  /\ down \in [Fds -> Seq(FromBroker)]
  /\ link \in [Fds -> {"free", "open", "hup"}]
  /\ \A s \in Fds : link[s] = "free" => up[s] = << >> /\ down[s] = << >>
  /\ session \in Fds \cup {None}
  /\ held \subseteq Held
  /\ dropped \subseteq Messages \X Held
  /\ calls \in 0 .. MaxCalls
  /\ unacked \subseteq [id : 1 .. MaxReceived, payload : Payloads]
  /\ received \in 0 .. MaxReceived
  /\ faults \in 0 .. MaxFaults

\* Some thread is about to tell that the connection is lost.
LossUntold == \E x \in Threads : event[x] = "DISCONNECT"

\* The flag follows the session, whichever thread lost it and however late it tells:
\* a session the library has is known or about to be told of, or client_thread would
\* connect over it; and a flag that is set without a session is about to be cleared,
\* unless the session was lost before its CONNACK had set it.
FlagFollows ==
  /\ lib.state = "CONNECTED" => connected \/ event[Client] = "CONNACK"
  /\ connected => lib.state = "CONNECTED" \/ LossUntold \/ overtaken

\* Of the messages the library has taken, the broker takes one for another only if
\* the two are of different topics, whose identifiers are counted apart, or the
\* identifiers of the topic have come round.
DropsAreClashes ==
  \A d \in dropped : \/ d[1].topic # d[2].topic
                     \/ d[1].call - d[2].call >= IdSpace

Usable == connected /\ session # None /\ session = lib.sock

\* The flag is set, the session it told of lost before, and nothing will clear it.
Misled == overtaken /\ connected /\ lib.state = "INIT" /\ \A x \in Threads : event[x] = "none"

\* A connection that cannot be used is noticed and replaced, unless sockets that
\* were left behind are all there are, or the flag tells of a session that a publish
\* lost before client_thread had set it.
Recovers == ~Usable ~> (Usable \/ (\A s \in Fds : link[s] # "free") \/ Misled)

Deaf == lib.remaining

\* Every QoS 2 message the broker has is released, so that its identifier may be
\* used again, unless the connection is lost or part of a payload is unread.
HandshakeEnds ==
  \A i \in Ids :
    (\E h \in held : h.id = i /\ ~h.old)
      ~> ((\A h \in held : h.id = i => h.old) \/ lib.state # "CONNECTED" \/ Deaf)

\* Every QoS 2 message from the broker is acknowledged, unless the connection is
\* lost, it has no payload, or part of a payload is unread.
ReceivedAcknowledged ==
  \A i \in 1 .. MaxReceived :
    (\E m \in unacked : m.id = i /\ m.payload # "empty")
      ~> ((\A m \in unacked : m.id # i) \/ lib.state # "CONNECTED" \/ Deaf)

-----------------------------------------------------------------------------
(* What makes FlagFollows inductive. *)

\* Only client_thread tells of a CONNACK, late when the session is gone.  At most one
\* thread is about to tell of a loss, and none while there is a connection, nor when
\* client_thread may make a new one.
SessionInv ==
  /\ connected \in BOOLEAN
  /\ lib \in Clients
  /\ event \in [Threads -> {"none", "CONNACK", "DISCONNECT"}]
  /\ overtaken \in BOOLEAN
  /\ \A t \in Topics : event[t] # "CONNACK"
  /\ event[Client] = "CONNACK" /\ lib.state = "INIT" => overtaken
  /\ lib.state = "TCP" => ~connected /\ event[Client] = "none"
  /\ lib.state = "CONNECTED" => event[Client] = "CONNACK" \/ (event[Client] = "none" /\ connected)
  /\ lib.state # "INIT" \/ (~connected /\ event[Client] # "CONNACK")
       => \A t \in Topics : event[t] = "none"
  /\ \A x, y \in Threads : event[x] = "DISCONNECT" /\ event[y] = "DISCONNECT" => x = y
  /\ connected => lib.state = "CONNECTED" \/ LossUntold \/ overtaken

-----------------------------------------------------------------------------
(* What makes TypeOK inductive. *)

\* The library's socket is one; the broker's connection is open, and it has read
\* its CONNECT; a refusal comes with the end of the connection.
LinkInv ==
  /\ lib.state # "INIT" => lib.sock \in Fds
  /\ session # None => link[session] = "open"
  /\ \A s \in Fds : \A i \in 1 .. Len(down[s]) :
       down[s][i].type = "CONNACK" /\ ~down[s][i].accepted => link[s] = "hup"
  /\ \A s \in Fds : \A i \in 1 .. Len(up[s]) :
       up[s][i].type = "CONNECT" => i = 1 /\ s # session

-----------------------------------------------------------------------------
(* What makes DropsAreClashes inductive. *)

\* The sends since one with identifier i, at least, when the next will be n.
Since(i, n) == IF i < n THEN n - i ELSE n - i + IdSpace

Counted(m) == /\ m.call =< calls
              /\ Since(m.id, msg_id[m.topic]) =< calls - m.call + 1

\* Of one topic, a was published before b, and IdSpace sends before it when the
\* two have one identifier.
Before(a, b) ==
  a.topic = b.topic => /\ a.call < b.call
                       /\ a.id = b.id => b.call - a.call >= IdSpace

\* Messages are on their way to the broker only where the library has a session:
\* a connection left behind has none that may come late.
OnSession ==
  \A s \in Fds : \A i \in 1 .. Len(up[s]) :
    up[s][i].type = "PUBLISH" => lib.state = "CONNECTED" /\ lib.sock = s

\* The messages a thread is about to send, those on their way, and those held.
CountedInv == /\ \A t \in Topics : pub[t] # << >> => pub[t][1].topic = t /\ Counted(pub[t][1])
              /\ \A s \in Fds : \A i \in 1 .. Len(up[s]) :
                   up[s][i].type = "PUBLISH" => Counted(up[s][i])
              /\ \A h \in held : Counted(h)

\* They come in the order they were published in.
OrderInv ==
  /\ \A t \in Topics : pub[t] # << >> => \A h \in held : Before(h, pub[t][1])
  /\ \A s \in Fds : \A i \in 1 .. Len(up[s]) :
       up[s][i].type = "PUBLISH" =>
         /\ \A t \in Topics : pub[t] # << >> => Before(up[s][i], pub[t][1])
         /\ \A h \in held : Before(h, up[s][i])
         /\ \A j \in 1 .. i - 1 : up[s][j].type = "PUBLISH" => Before(up[s][j], up[s][i])

DropInv == OnSession /\ CountedInv /\ OrderInv /\ DropsAreClashes
=============================================================================
