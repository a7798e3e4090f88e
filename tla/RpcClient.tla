------------------------------- MODULE RpcClient -------------------------------
(***************************************************************************)
(* The RPC client of tools/protorpc and the server it talks to over TCP.   *)
(*                                                                         *)
(* Two threads of the client share the pending request: the caller, in     *)
(* Request.send_sync, and the connection's thread, in BaseConnection.run.  *)
(* The server, modules/TcpRpcServer, handles one frame per call of         *)
(* rpc_callback, the client's Deframer returns one per call, and each      *)
(* keeps the rest of what it received for the next time.  TCP delivers the *)
(* frames of a direction in order, any number of them together, and after  *)
(* any delay; the connection stays up.  A request is its sequence number.  *)
(***************************************************************************)
EXTENDS ProtoRpc, Sequences, SequencesExt

CONSTANTS SentFates,   \* fates of the requests the caller sends
          MaxCalls     \* requests sent in a behaviour, at most (bound)

ASSUME RpcAssumption == SentFates \subseteq Fates /\ MaxCalls \in Nat

None == 0

VARIABLES main,       \* the caller: "idle", "written" or "waiting"
          seqn,       \* conn.seqn, the current request
          pending,    \* conn.pending_request
          base,       \* where the connection's thread is in its loop
          data,       \* what read_loop returned: a reply, or none
          q,          \* what the client's Deframer keeps
          req,        \* the Request objects, each with its Reply
          c2s, s2c,   \* frames in the two directions of the TCP connection
          fifo,       \* what the server's deframer keeps
          executed,   \* requests whose handler ran (history)
          returned    \* requests for which send_sync returned (history)

vars == <<main, seqn, pending, base, data, q, req, c2s, s2c, fifo, executed, returned>>
callerVars == <<main, seqn, returned>>
threadVars == <<base, data, q>>
serverVars == <<c2s, fifo, executed>>

Seqns == 1 .. MaxCalls
NoReply == [seqn |-> None, status |-> "ok", callset |-> FALSE]

\* Request.__init__ and Reply.__init__.  `expired' is now() > ttl, `result' the
\* request whose reply was parsed into reply.callset.
NewRequest == [got_reply |-> FALSE, timedout |-> FALSE, expired |-> FALSE,
               header |-> None, result |-> None]

Init == /\ main = "idle"
        /\ seqn = 0
        /\ pending = None
        /\ base = "top"
        /\ data = NoReply
        /\ q = << >>
        /\ req = [r \in Seqns |-> NewRequest]
        /\ c2s = << >> /\ s2c = << >> /\ fifo = << >>
        /\ executed = << >>
        /\ returned = {}

-----------------------------------------------------------------------------
(* The caller. *)

\* send_sync up to conn.write, with the next sequence number.  A request that
\* wants no reply is never pending, and send_sync returns.
Send(fate, no_reply) ==
  /\ main = "idle"
  /\ seqn < MaxCalls
  /\ seqn' = seqn + 1
  /\ c2s' = Append(c2s, [seqn |-> seqn', no_reply |-> no_reply, fate |-> fate])
  /\ main' = IF no_reply THEN "idle" ELSE "written"
  /\ UNCHANGED <<pending, threadVars, req, s2c, fifo, executed, returned>>

\* conn.add_pending(self)
AddPending ==
  /\ main = "written"
  /\ pending' = seqn
  /\ main' = "waiting"
  /\ UNCHANGED <<seqn, threadVars, req, s2c, serverVars, returned>>

\* The caller's loop, once it sees one of the flags set.
Return ==
  /\ main = "waiting"
  /\ req[seqn].timedout \/ req[seqn].got_reply
  /\ main' = "idle"
  /\ returned' = returned \cup {seqn}
  /\ UNCHANGED <<seqn, pending, threadVars, req, s2c, serverVars>>

\* Time passes: the ttl of the current request is over.
Expire ==
  /\ main # "idle"
  /\ ~req[seqn].expired
  /\ req' = [req EXCEPT ![seqn].expired = TRUE]
  /\ UNCHANGED <<callerVars, pending, threadVars, s2c, serverVars>>

-----------------------------------------------------------------------------
(* The connection's thread: BaseConnection.run. *)

\* MUTANT: listens although no request is pending.
AlwaysListens == TRUE

Listens == pending # None

\* With a request pending, read_loop: socket.recv and Deframer.process return
\* the first of the replies, or nothing on a timeout or when a reply comes in
\* two parts (the Deframer drops the first part).
Receive ==
  /\ base = "top"
  /\ Listens
  /\ \/ /\ data' = NoReply
        /\ UNCHANGED <<q, s2c>>
     \/ \E k \in 1 .. Len(s2c) :
          LET all == q \o SubSeq(s2c, 1, k)
          IN  /\ data' = Head(all)
              /\ q' = Tail(all)
              /\ s2c' = SubSeq(s2c, k + 1, Len(s2c))
     \/ /\ s2c # << >> /\ q = << >>
        /\ s2c' = Tail(s2c)
        /\ data' = NoReply
        /\ UNCHANGED q
  /\ base' = "got"
  /\ UNCHANGED <<callerVars, pending, req, serverVars>>

\* Nothing was received: on to the test of the ttl.
GotNothing ==
  /\ base = "got"
  /\ data = NoReply
  /\ base' = "ttl"
  /\ UNCHANGED <<callerVars, pending, data, q, req, s2c, serverVars>>

\* MUTANT: takes any reply for the pending request's.
TakesAnyReply(r) == TRUE

\* Is the received reply the one to request r?
Matches(r) == data.seqn = r

\* reply.rcv_header, and rcv_handler if the reply is the pending request's.
\* When no callset follows the header, rcv_handler fails and the request is
\* dropped: none of its flags is set.
GotReply ==
  /\ base = "got"
  /\ data # NoReply
  /\ req' = [req EXCEPT ![pending].header = data.seqn,
                        ![pending].result =
                           IF Matches(pending) /\ data.callset THEN data.seqn ELSE @]
  /\ base' = IF ~Matches(pending) THEN "ttl"
             ELSE IF data.callset THEN "flag" ELSE "clear"
  /\ UNCHANGED <<callerVars, pending, data, q, s2c, serverVars>>

\* pending_request.got_reply = True
SetGotReply ==
  /\ base = "flag"
  /\ req' = [req EXCEPT ![pending].got_reply = TRUE]
  /\ base' = "clear"
  /\ UNCHANGED <<callerVars, pending, data, q, s2c, serverVars>>

\* MUTANT: sets the flag and goes on listening for the request's reply.
TestTtlKeeps ==
  /\ base = "ttl"
  /\ req' = [req EXCEPT ![pending].timedout = @ \/ req[pending].expired]
  /\ base' = "top"
  /\ UNCHANGED <<callerVars, pending, data, q, s2c, serverVars>>

\* The test of the ttl: pending_request.timedout = True, or sleep.
TestTtl ==
  /\ base = "ttl"
  /\ IF req[pending].expired
     THEN /\ req' = [req EXCEPT ![pending].timedout = TRUE]
          /\ base' = "clear"
     ELSE /\ base' = "top"
          /\ UNCHANGED req
  /\ UNCHANGED <<callerVars, pending, data, q, s2c, serverVars>>

\* remove_pending clears whatever request is pending by now.
RemovePending ==
  /\ base = "clear"
  /\ pending' = None
  /\ base' = "top"
  /\ UNCHANGED <<callerVars, data, q, req, s2c, serverVars>>

-----------------------------------------------------------------------------
(* The server: rpc_callback with the frames that one read of the socket gets. *)

rpc_callback ==
  \E k \in 1 .. Len(c2s) :
    LET all == fifo \o SubSeq(c2s, 1, k)
        request == Head(all)
    IN  /\ c2s' = SubSeq(c2s, k + 1, Len(c2s))
        /\ fifo' = Tail(all)
        /\ executed' = IF Executes(request) THEN Append(executed, request.seqn)
                                            ELSE executed
        /\ s2c' = s2c \o ProtoRpc_exec(request)
        /\ UNCHANGED <<callerVars, pending, threadVars, req>>

Caller == AddPending \/ Return
Thread == Receive \/ GotNothing \/ GotReply \/ SetGotReply \/ TestTtl \/ RemovePending

Next == \/ \E fate \in SentFates, no_reply \in BOOLEAN : Send(fate, no_reply)
        \/ Caller
        \/ Expire
        \/ Thread
        \/ rpc_callback

\* Both threads of the client are scheduled and time passes.  Nothing makes the
\* server answer or the network deliver.
Spec == Init /\ [][Next]_vars /\ WF_vars(Caller) /\ WF_vars(Thread) /\ WF_vars(Expire)

-----------------------------------------------------------------------------
(* Properties. *)

TypeOK ==
  /\ main \in {"idle", "written", "waiting"}
  /\ seqn \in 0 .. MaxCalls
  /\ pending \in Seqns \cup {None}
  /\ base \in {"top", "got", "flag", "ttl", "clear"}
  /\ base \in {"got", "flag", "ttl"} => pending # None
  /\ data \in Replies
  /\ q \in Seq(Replies) /\ s2c \in Seq(Replies)
  /\ c2s \in Seq(Requests) /\ fifo \in Seq(Requests)
  /\ req \in [Seqns -> [got_reply : BOOLEAN, timedout : BOOLEAN, expired : BOOLEAN,
                        header : Seqns \cup {None}, result : Seqns \cup {None}]]
  /\ executed \in Seq(Seqns)
  /\ returned \subseteq Seqns

\* A call that got a reply got its own, from a handler that ran: late replies
\* to calls that timed out and to calls that wanted none are never taken for it.
ReplyMatches ==
  \A r \in Seqns : req[r].got_reply => /\ req[r].header = r
                                       /\ req[r].result = r
                                       /\ r \in ToSet(executed)

\* Once send_sync has returned, its caller reads a reply that the connection's
\* thread no longer changes, whatever arrives later.
ReturnedStable ==
  [][\A r \in returned : req'[r] = req[r]]_vars

\* No request stays pending: a reply, an error or its ttl ends it, so a lost
\* reply or a silent server never blocks the connection for later requests.
PendingCleared ==
  \A r \in Seqns : pending = r ~> pending # r

-----------------------------------------------------------------------------
\* "Sends and waits for success or timeout" (Request.send_sync): every call
\* that waits returns.  It does not when the server answers with a header
\* alone, nor when RemovePending clears the request of the next call, which is
\* then neither received nor timed out.
SendSyncReturns ==
  \A r \in Seqns : (main = "waiting" /\ seqn = r) ~> (r \in returned)

-----------------------------------------------------------------------------
(* What makes ReplyMatches and ReturnedStable inductive. *)

SentRequests == {m \in Requests : m.seqn \in Seqns}

\* A callset in a reply comes from a handler that ran.
MadeReplies ==
  {m \in Replies : m.seqn \in Seqns /\ (m.callset => m.seqn \in ToSet(executed))}

MessagesInv == /\ data = NoReply \/ data \in MadeReplies
               /\ q \in Seq(MadeReplies) /\ s2c \in Seq(MadeReplies)
               /\ c2s \in Seq(SentRequests) /\ fifo \in Seq(SentRequests)

Flagged(r) == req[r].timedout \/ req[r].got_reply

\* The caller waits for the current request, and nothing is decided.
Undecided == main = "waiting" /\ ~Flagged(seqn)

\* What the connection's thread writes to is the request the caller waits for:
\* when the caller is elsewhere the thread has no request, or is about to have none.
TurnInv ==
  /\ base \in {"got", "flag", "ttl"} => pending = seqn /\ Undecided
  /\ base = "top" => pending = None \/ (pending = seqn /\ Undecided)
  /\ main = "written" => ~Flagged(seqn)
  /\ main # "idle" => seqn \in Seqns \ returned
  /\ \A r \in Seqns : r > seqn => ~Flagged(r)
  /\ \A r \in returned : r =< seqn /\ Flagged(r)

\* The reply that is about to be announced is in place.
FlagInv == base = "flag" => /\ data.seqn = pending /\ data.callset
                            /\ req[pending].header = pending
                            /\ req[pending].result = pending

RpcInv == MessagesInv /\ TurnInv /\ FlagInv /\ ReplyMatches
=============================================================================
