----------------------------- MODULE TcpRpcServer -----------------------------
(***************************************************************************)
(* modules/TcpRpcServer on modules/TcpServer: one thread accepts clients,  *)
(* one at a time, reads what a client sent, in whatever pieces TCP has it, *)
(* and calls rpc_callback with each piece.  The deframer of rpc_callback   *)
(* is the server's, not the connection's: what a client leaves in it is    *)
(* there when the next client comes.                                       *)
(*                                                                         *)
(* A client connects, sends requests, which it may or may not wait for,    *)
(* and closes its connection or breaks down, which loses what TCP has not  *)
(* delivered.  Every request wants a reply and finds its handler.  A       *)
(* request is bytes: one that says which request it is, for all that       *)
(* protobuf makes of it, and a tail.                                       *)
(***************************************************************************)
EXTENDS CobsFrame, ProtoRpc, FiniteSets

CONSTANTS MaxConns,      \* connections in a behaviour, at most (bound)
          MaxRequests,   \* requests the clients send, at most (bound)
          Tails          \* bytes that follow the first one of a request; none is the
                         \* beginning of another, as lengths are part of a message

ASSUME ServerAssumption == /\ MaxConns \in Nat
                           /\ MaxRequests \in Nat
                           /\ MaxConns * MaxRequests =< 255
                           /\ MaxCode =< 255
                           /\ Tails \subseteq Seq(0 .. 255)
                           /\ \A t \in Tails : \A u \in Tails \ {t} : ~IsPrefix(t, u)

Conns == 1 .. MaxConns
None == 0
Stopped == -1
Starting == -2
Bound == -3
Backlog == 2   \* TcpSocket_listen(tcp, 2)

VARIABLES client,     \* each client: "new", "open", "closed" or "broken"
          up,         \* bytes a client sent, not yet read
          asked,      \* requests a client sent
          answers,    \* replies written to a connection
          backlog,    \* connections waiting to be accepted
          sock,       \* the connection served, or None; Starting, Bound
                      \* and Stopped when it does not listen
          deframer,   \* tcprpc_server->deframer
          executed,   \* requests whose handler ran, in order (history)
          patient     \* every client so far waited for each of its replies
                      \* before it went on (history)

vars == <<client, up, asked, answers, backlog, sock, deframer, executed, patient>>
clientVars == <<client, up, asked, patient>>

Init == /\ client = [c \in Conns |-> "new"]
        /\ up = [c \in Conns |-> << >>]
        /\ asked = [c \in Conns |-> << >>]
        /\ answers = [c \in Conns |-> << >>]
        /\ backlog = << >>
        /\ sock = Starting
        /\ deframer = Cobs_deframer_init
        /\ executed = << >>
        /\ patient = TRUE

-----------------------------------------------------------------------------
(* The clients. *)

\* Connections are numbered in the order they are made.
Connect(c) ==
  /\ client[c] = "new"
  /\ \A e \in Conns : e < c => client[e] # "new"
  /\ sock \in Conns \cup {None}
  /\ Len(backlog) < Backlog
  /\ client' = [client EXCEPT ![c] = "open"]
  /\ backlog' = Append(backlog, c)
  /\ UNCHANGED <<up, asked, answers, sock, deframer, executed, patient>>

Msgs == [conn : Conns, seqn : 1 .. MaxRequests, tail : Tails]
Payload(m) == <<(m.conn - 1) * MaxRequests + m.seqn>> \o m.tail

Reply1(m) == ProtoRpc_exec([seqn |-> m, no_reply |-> FALSE, fate |-> "ok"])

\* The replies to the first of the requests, as many as are asked for.
RepliesTo(requests) ==
  LET replies[n \in 0 .. Len(requests)] ==
        IF n = 0 THEN << >> ELSE replies[n - 1] \o Reply1(requests[n])
  IN  replies

\* What a client wants to see on its connection: a reply to each request.
AllAnswered(c) ==
  answers[c] = RepliesTo(asked[c])[Len(asked[c])]

\* The client's encoder is the server's, line by line.
encode(bytes) == Cobs_encode(bytes)
Encodings == [m \in Msgs |-> encode(Payload(m))]

\* The requests of all clients so far, each by its connection and its number.
Sent == {p \in Conns \X (1 .. MaxRequests) : p[2] =< Len(asked[p[1]])}

\* A request that is longer than the server's buffers is as good as not waited for.
Send(c, tail) ==
  /\ client[c] = "open"
  /\ Cardinality(Sent) < MaxRequests
  /\ LET m == [conn |-> c, seqn |-> Len(asked[c]) + 1, tail |-> tail]
         encoded == Encodings[m]
     IN  /\ asked' = [asked EXCEPT ![c] = Append(@, m)]
         /\ up' = [up EXCEPT ![c] = @ \o <<Delimiter>> \o encoded \o <<Delimiter>>]
         /\ patient' = (patient /\ AllAnswered(c) /\ Len(encoded) < FifoDepth)
  /\ UNCHANGED <<client, answers, backlog, sock, deframer, executed>>

Close(c) ==
  /\ client[c] = "open"
  /\ client' = [client EXCEPT ![c] = "closed"]
  /\ patient' = (patient /\ AllAnswered(c))
  /\ UNCHANGED <<up, asked, answers, backlog, sock, deframer, executed>>

Break(c) ==
  /\ client[c] = "open"
  /\ client' = [client EXCEPT ![c] = "broken"]
  /\ \E k \in 0 .. Len(up[c]) : up' = [up EXCEPT ![c] = SubSeq(@, 1, k)]
  /\ patient' = FALSE
  /\ UNCHANGED <<asked, answers, backlog, sock, deframer, executed>>

-----------------------------------------------------------------------------
(* tcp_server_task *)

\* The socket is made and bound, and the task created: each of them may fail.
TcpServer_init ==
  /\ sock = Starting
  /\ sock' \in {Bound, Stopped}
  /\ UNCHANGED <<clientVars, answers, backlog, deframer, executed>>

TcpSocket_listen ==
  /\ sock = Bound
  /\ sock' \in {None, Stopped}
  /\ UNCHANGED <<clientVars, answers, backlog, deframer, executed>>

TcpSocket_accept == sock' = Head(backlog) /\ backlog' = Tail(backlog)

Accept ==
  /\ sock = None
  /\ backlog # << >>
  /\ TcpSocket_accept
  /\ UNCHANGED <<clientVars, answers, deframer, executed>>

\* An error of accept that is not one of the four the task ignores ends it.
AcceptFails ==
  /\ sock = None
  /\ sock' = Stopped
  /\ UNCHANGED <<clientVars, answers, backlog, deframer, executed>>

\* The whole reply is sent, or nothing of it when the client has left.
TcpSocket_write(c, reply) ==
  \/ answers' = [answers EXCEPT ![c] = @ \o reply]
  \/ client[c] # "open" /\ UNCHANGED answers

Handled(m) == executed' = Append(executed, m) /\ TcpSocket_write(sock, Reply1(m))
NotHandled == UNCHANGED <<executed, answers>>

SentAs(msg) == {m \in Msgs : Payload(m) = msg}

\* MUTANT: handles the message of the last call again when there is none.
rpc_callbackAgain(data) ==
  \E r \in {Cobs_deframer(deframer, data)} :
    /\ deframer' = r.d
    /\ \/ \E m \in SentAs(r.msg) : Handled(m)
       \/ SentAs(r.msg) = {} /\ executed # << >> /\ Handled(Last(executed))
       \/ SentAs(r.msg) = {} /\ executed = << >> /\ NotHandled

\* A message that is not a request is one that lacks its end, or more: it may lack
\* its header, which is answered by nothing, or its callset, which is answered by
\* a header.
rpc_callback(data) ==
  \E r \in {Cobs_deframer(deframer, data)} :
    /\ deframer' = r.d
    /\ \/ \E m \in SentAs(r.msg) : Handled(m)
       \/ SentAs(r.msg) = {} /\ NotHandled
       \/ /\ SentAs(r.msg) = {} /\ r.msg # << >>
          /\ \E m \in Msgs :
               /\ Head(Payload(m)) = Head(r.msg)
               /\ TcpSocket_write(sock, ProtoRpc_exec([seqn |-> m, no_reply |-> FALSE,
                                                      fate |-> "bad"]))
          /\ UNCHANGED executed

\* It gets the first n of the bytes that have come.
TcpSocket_read(n) ==
  /\ n =< Len(up[sock])
  /\ up' = [up EXCEPT ![sock] = SubSeq(@, n + 1, Len(@))]

\* The callback is called with what was read.
Read ==
  /\ sock \in Conns
  /\ \E n \in 1 .. FifoDepth :
       /\ TcpSocket_read(n)
       /\ rpc_callback(SubSeq(up[sock], 1, n))
  /\ UNCHANGED <<client, asked, backlog, sock, patient>>

TcpSocket_close == sock' = None

\* MUTANT: a callback that is not finished when nothing is left to read.
ReadEndHangs ==
  /\ sock \in Conns
  /\ up[sock] = << >>
  /\ client[sock] = "closed"
  /\ UNCHANGED vars

\* The client has closed: the read gets nothing.  rpc_callback is called once
\* more and sets callback_done, and with read_done that ends the connection.
ReadEnd ==
  /\ sock \in Conns
  /\ up[sock] = << >>
  /\ client[sock] = "closed"
  /\ TcpSocket_close
  /\ UNCHANGED <<clientVars, answers, backlog, deframer, executed>>

\* The client has broken down and the keep-alive says so: the read fails.
ReadError ==
  /\ sock \in Conns
  /\ up[sock] = << >>
  /\ client[sock] = "broken"
  /\ TcpSocket_close
  /\ UNCHANGED <<clientVars, answers, backlog, deframer, executed>>

Server == TcpServer_init \/ TcpSocket_listen \/ Accept \/ Read \/ ReadEnd \/ ReadError

Next == \/ \E c \in Conns : \/ Connect(c)
                            \/ \E tail \in Tails : Send(c, tail)
                            \/ Close(c)
                            \/ Break(c)
        \/ Server
        \/ AcceptFails

\* The server's thread is scheduled; every client leaves at last.
Spec == /\ Init /\ [][Next]_vars
        /\ WF_vars(Server)
        /\ \A c \in Conns : WF_vars(Close(c) \/ Break(c))

-----------------------------------------------------------------------------
(* Properties. *)

Bytes == 0 .. 255

TypeOK ==
  /\ client \in [Conns -> {"new", "open", "closed", "broken"}]
  /\ up \in [Conns -> Seq(Bytes)]
  /\ asked \in [Conns -> Seq(Msgs)]
  /\ answers \in [Conns -> Seq([seqn : Msgs, status : Fates, callset : BOOLEAN])]
  /\ backlog \in Seq(Conns)
  /\ sock \in Conns \cup {None, Starting, Bound, Stopped}
  /\ deframer \in Deframers(Bytes)
  /\ Len(deframer.fifo) =< FifoDepth
  /\ Len(deframer.work) =< FifoDepth
  /\ executed \in Seq(Msgs)
  /\ patient \in BOOLEAN

\* Whatever clients leave behind and however TCP cuts the streams up, a handler
\* only runs for a request that was sent, at most once for each, and in the
\* order in which they were sent, over all connections.
ExecutedInOrder ==
  /\ \A m \in ToSet(executed) : m \in ToSet(asked[m.conn])
  /\ \A i, j \in DOMAIN executed : i < j =>
       LET a == executed[i]  b == executed[j]
       IN  a.conn < b.conn \/ (a.conn = b.conn /\ a.seqn < b.seqn)

\* While every client waits for each reply before it sends again or leaves, what
\* the server has read is answered, on the connection it came from, and a
\* connection gets no other reply: nothing is left in the deframer that would
\* meet the next request or the next client.
PatientAnswered ==
  patient => \A c \in Conns :
    (c = sock /\ up[c] = << >>) \/ client[c] = "closed" => AllAnswered(c)

\* A client that waits to be accepted is, once those before it have left,
\* unless the task has ended.
Accepted ==
  \A c \in Conns : (c \in ToSet(backlog)) ~> (c \notin ToSet(backlog) \/ sock = Stopped)
=============================================================================
