---------------------------- MODULE RpcClientProofs ----------------------------
(***************************************************************************)
(* A call that got a reply got its own, and nothing changes it once        *)
(* send_sync has returned, for any number of calls, any fates of them and  *)
(* any delays.  The argument is RpcInv, of module RpcClient.  Its heart is *)
(* TurnInv: although the two threads share conn.pending_request without a  *)
(* lock, what the connection's thread is about to write to is always the   *)
(* request the caller waits for, and none of its flags is set.  The slip   *)
(* of remove_pending, which may clear the next request, only takes a       *)
(* request away from the thread: it never hands it a finished one.         *)
(***************************************************************************)
EXTENDS RpcClient, SequenceTheorems, TLAPS

USE RpcAssumption

RequestObjects == [got_reply : BOOLEAN, timedout : BOOLEAN, expired : BOOLEAN,
                   header : Seqns \cup {None}, result : Seqns \cup {None}]

\* TypeOK without the messages, whose types follow from MessagesInv.
StateOK == /\ main \in {"idle", "written", "waiting"}
           /\ seqn \in 0 .. MaxCalls
           /\ pending \in Seqns \cup {None}
           /\ base \in {"top", "got", "flag", "ttl", "clear"}
           /\ req \in [Seqns -> RequestObjects]
           /\ executed \in Seq(Seqns)
           /\ returned \subseteq Seqns

Inv == StateOK /\ RpcInv

LEMMA InvTypes == Inv => TypeOK
<1>. SUFFICES ASSUME Inv PROVE TypeOK
  OBVIOUS
<1>1. MadeReplies \subseteq Replies /\ SentRequests \subseteq Requests
  BY DEF MadeReplies, SentRequests
<1>2. NoReply \in Replies
  BY DEF NoReply, Replies, Fates, None
<1>3. /\ q \in Seq(Replies) /\ s2c \in Seq(Replies)
      /\ c2s \in Seq(Requests) /\ fifo \in Seq(Requests)
  BY <1>1, SeqMonotonic DEF Inv, RpcInv, MessagesInv
<1>4. data \in Replies
  BY <1>1, <1>2 DEF Inv, RpcInv, MessagesInv
<1>5. base \in {"got", "flag", "ttl"} => pending # None
  BY DEF Inv, StateOK, RpcInv, TurnInv, Undecided, Seqns, None
<1>. QED BY <1>3, <1>4, <1>5 DEF TypeOK, Inv, StateOK, RequestObjects

-----------------------------------------------------------------------------
(* Sequences of messages, and the history of the executed requests. *)

\* What a read of k messages leaves: the first, the rest, and what is in flight.
LEMMA ReadSome ==
  ASSUME NEW S, NEW kept \in Seq(S), NEW flight \in Seq(S), NEW k \in 1 .. Len(flight)
  PROVE  /\ Head(kept \o SubSeq(flight, 1, k)) \in S
         /\ Tail(kept \o SubSeq(flight, 1, k)) \in Seq(S)
         /\ SubSeq(flight, k + 1, Len(flight)) \in Seq(S)
<1>1. Len(flight) \in Nat /\ \A i \in 1 .. Len(flight) : flight[i] \in S
  BY LenProperties, ElementOfSeq
<1>2. SubSeq(flight, 1, k) \in Seq(S) /\ Len(SubSeq(flight, 1, k)) = k
  BY <1>1, SubSeqProperties
<1>3. SubSeq(flight, k + 1, Len(flight)) \in Seq(S)
  BY <1>1, SubSeqProperties
<1> DEFINE all == kept \o SubSeq(flight, 1, k)
<1>4. all \in Seq(S) /\ Len(all) = Len(kept) + k
  BY <1>2, ConcatProperties
<1>5. all # << >>
  BY <1>4, LenProperties
<1>. QED BY <1>3, <1>4, <1>5, HeadTailProperties

LEMMA AtMostOne ==
  ASSUME NEW S, NEW m \in S
  PROVE  <<m>> \in Seq(S) /\ << >> \in Seq(S)
OBVIOUS

LEMMA ExecutedGrows ==
  ASSUME executed \in Seq(Seqns), NEW r \in Seqns, executed' = Append(executed, r)
  PROVE  /\ executed' \in Seq(Seqns)
         /\ ToSet(executed) \subseteq ToSet(executed')
         /\ r \in ToSet(executed')
<1>1. /\ executed' \in Seq(Seqns)
      /\ Len(executed') = Len(executed) + 1
      /\ \A i \in 1 .. Len(executed) : executed'[i] = executed[i]
      /\ executed'[Len(executed) + 1] = r
  BY AppendProperties
<1>2. /\ DOMAIN executed = 1 .. Len(executed) /\ Len(executed) \in Nat
      /\ DOMAIN executed' = 1 .. Len(executed')
  BY <1>1, LenProperties
<1>3. \A i \in DOMAIN executed : i \in DOMAIN executed'
  BY <1>1, <1>2
<1>4. ToSet(executed) \subseteq ToSet(executed')
  BY <1>1, <1>2, <1>3 DEF ToSet
<1>5. Len(executed) + 1 \in DOMAIN executed'
  BY <1>1, <1>2
<1>. QED BY <1>1, <1>4, <1>5 DEF ToSet

\* Steps of the client's threads that neither receive nor send.
LEMMA NoMessages ==
  ASSUME MessagesInv, UNCHANGED <<data, q, s2c, c2s, fifo, executed>>
  PROVE  MessagesInv'
BY DEF MessagesInv, MadeReplies

-----------------------------------------------------------------------------
(* The caller. *)

LEMMA Sending ==
  ASSUME Inv, NEW fate \in SentFates, NEW no_reply \in BOOLEAN, Send(fate, no_reply)
  PROVE  Inv'
<1>. USE DEF Inv, RpcInv
<1>1. seqn + 1 \in Seqns /\ seqn' = seqn + 1 /\ seqn \in Nat
  BY DEF Send, StateOK, Seqns
<1>2. StateOK'
  BY <1>1 DEF Send, StateOK, threadVars, Seqns
<1>3. MessagesInv'
  <2> DEFINE m == [seqn |-> seqn', no_reply |-> no_reply, fate |-> fate]
  <2>1. m \in SentRequests
    BY <1>1 DEF SentRequests, Requests, Seqns
  <2>2. c2s' = Append(c2s, m) /\ UNCHANGED <<data, q, s2c, fifo, executed>>
    BY DEF Send, threadVars
  <2>3. c2s' \in Seq(SentRequests)
    BY <2>1, <2>2, AppendProperties DEF MessagesInv
  <2>. QED BY <2>2, <2>3 DEF MessagesInv, MadeReplies
<1>4. UNCHANGED <<pending, base, data, req, returned, executed>> /\ main = "idle"
  BY DEF Send, threadVars
<1>5. base \notin {"got", "flag", "ttl"} /\ (base = "top" => pending = None)
  BY <1>4 DEF TurnInv, Undecided
<1>6. \A r \in Seqns : Flagged(r)' <=> Flagged(r)
  BY <1>4 DEF Flagged
<1>7. \A r \in Seqns : r > seqn => ~Flagged(r)
  BY DEF TurnInv
<1>8. seqn' \in Seqns \ returned
  <2>1. \A r \in returned : r =< seqn
    BY DEF TurnInv
  <2>. QED BY <2>1, <1>1
<1>9. TurnInv'
  <2>1. ~Flagged(seqn')
    BY <1>1, <1>7
  <2>2. (main = "written" => ~Flagged(seqn))'
    BY <2>1, <1>1, <1>6, <1>4 DEF Flagged
  <2>3. (main # "idle" => seqn \in Seqns \ returned)'
    BY <1>8, <1>4 DEF Seqns
  <2>4. (\A r \in Seqns : r > seqn => ~Flagged(r))'
    BY <1>1, <1>6, <1>7 DEF Seqns
  <2>5. (\A r \in returned : r =< seqn /\ Flagged(r))'
    <3>1. \A r \in returned : r =< seqn + 1
      BY <1>1 DEF TurnInv, StateOK, Seqns
    <3>2. \A r \in returned : Flagged(r)
      BY DEF TurnInv
    <3>. QED BY <1>1, <3>1, <3>2, <1>4, <1>6 DEF StateOK
  <2>6. (base \in {"got", "flag", "ttl"} => pending = seqn /\ Undecided)'
    BY <1>4, <1>5
  <2>7. (base = "top" => pending = None \/ (pending = seqn /\ Undecided))'
    BY <1>4, <1>5
  <2>. QED BY <2>2, <2>3, <2>4, <2>5, <2>6, <2>7 DEF TurnInv
<1>10. FlagInv'
  BY <1>4, <1>5 DEF FlagInv
<1>11. ReplyMatches'
  BY <1>4 DEF ReplyMatches, Seqns
<1>. QED BY <1>2, <1>3, <1>9, <1>10, <1>11

LEMMA Pending ==
  ASSUME Inv, AddPending
  PROVE  Inv'
<1>. USE DEF Inv, RpcInv
<1>1. /\ main = "written" /\ main' = "waiting" /\ pending' = seqn
      /\ UNCHANGED <<seqn, base, data, q, req, s2c, c2s, fifo, executed, returned>>
  BY DEF AddPending, threadVars, serverVars
<1>2. seqn \in Seqns \ returned /\ ~Flagged(seqn)
  BY <1>1 DEF TurnInv
<1>3. StateOK'
  BY <1>1, <1>2 DEF StateOK, Seqns
<1>4. base \notin {"got", "flag", "ttl"}
  BY <1>1 DEF TurnInv, Undecided
<1>5. \A r : Flagged(r)' <=> Flagged(r)
  BY <1>1 DEF Flagged
<1>6. TurnInv'
  <2>1. (\A r \in Seqns : r > seqn => ~Flagged(r))'
    BY <1>1, <1>5 DEF TurnInv, Seqns
  <2>2. (\A r \in returned : r =< seqn /\ Flagged(r))'
    BY <1>1, <1>5 DEF TurnInv
  <2>3. (seqn \in Seqns \ returned)' /\ Undecided'
    BY <1>1, <1>2, <1>5 DEF Seqns, Undecided, Flagged
  <2>. QED BY <1>1, <1>4, <2>1, <2>2, <2>3 DEF TurnInv
<1>7. MessagesInv'
  BY <1>1, NoMessages
<1>8. FlagInv' /\ ReplyMatches'
  BY <1>1, <1>4 DEF FlagInv, ReplyMatches, Seqns
<1>. QED BY <1>3, <1>6, <1>7, <1>8

LEMMA Returning ==
  ASSUME Inv, Return
  PROVE  Inv'
<1>. USE DEF Inv, RpcInv
<1>1. /\ main = "waiting" /\ main' = "idle" /\ returned' = returned \cup {seqn}
      /\ UNCHANGED <<seqn, pending, base, data, q, req, s2c, c2s, fifo, executed>>
  BY DEF Return, threadVars, serverVars
<1>2. Flagged(seqn)
  BY DEF Return, Flagged
<1>3. seqn \in Seqns
  BY <1>1 DEF TurnInv
<1>4. StateOK'
  BY <1>1, <1>3 DEF StateOK, Seqns
<1>5. base \notin {"got", "flag", "ttl"} /\ (base = "top" => pending = None)
  BY <1>2 DEF TurnInv, Undecided
<1>6. \A r : Flagged(r)' <=> Flagged(r)
  BY <1>1 DEF Flagged
<1>7. TurnInv'
  <2>1. (\A r \in Seqns : r > seqn => ~Flagged(r))'
    BY <1>1, <1>6 DEF TurnInv, Seqns
  <2>2. (\A r \in returned : r =< seqn /\ Flagged(r))'
    BY <1>1, <1>2, <1>3, <1>6 DEF TurnInv, Seqns
  <2>. QED BY <1>1, <1>5, <2>1, <2>2 DEF TurnInv
<1>8. MessagesInv'
  BY <1>1, NoMessages
<1>9. FlagInv' /\ ReplyMatches'
  BY <1>1, <1>5 DEF FlagInv, ReplyMatches, Seqns
<1>. QED BY <1>4, <1>7, <1>8, <1>9

\* The flags of every request are what they were.
LEMMA Expiring ==
  ASSUME Inv, Expire
  PROVE  /\ Inv'
         /\ \A r \in returned : req'[r] = req[r]
<1>. USE DEF Inv, RpcInv
<1>1. /\ main # "idle" /\ req' = [req EXCEPT ![seqn].expired = TRUE]
      /\ UNCHANGED <<main, seqn, pending, base, data, q, s2c, c2s, fifo, executed, returned>>
  BY DEF Expire, callerVars, threadVars, serverVars
<1>2. seqn \in Seqns \ returned
  BY <1>1 DEF TurnInv
<1>3. req' \in [Seqns -> RequestObjects]
  BY <1>1, <1>2 DEF StateOK, RequestObjects
<1>4. \A r \in Seqns : /\ req'[r].got_reply = req[r].got_reply
                       /\ req'[r].timedout = req[r].timedout
                       /\ req'[r].header = req[r].header
                       /\ req'[r].result = req[r].result
  BY <1>1, <1>2 DEF StateOK, RequestObjects
<1>5. \A r \in Seqns : r # seqn => req'[r] = req[r]
  BY <1>1 DEF StateOK
<1>6. StateOK'
  BY <1>1, <1>3 DEF StateOK, Seqns, RequestObjects
<1>7. \A r \in Seqns : Flagged(r)' <=> Flagged(r)
  BY <1>4, Zenon DEF Flagged
<1>8. TurnInv'
  <2>1. Undecided' <=> Undecided
    BY <1>1, <1>2, <1>4, Zenon DEF Undecided, Flagged
  <2>2. (\A r \in Seqns : r > seqn => ~Flagged(r))'
    BY <1>1, <1>7 DEF TurnInv, Seqns
  <2>3. (\A r \in returned : r =< seqn /\ Flagged(r))'
    BY <1>1, <1>7 DEF TurnInv, StateOK
  <2>4. Flagged(seqn)' <=> Flagged(seqn)
    BY <1>1, <1>2, <1>4, Zenon DEF Flagged
  <2>5. (base \in {"got", "flag", "ttl"} => pending = seqn /\ Undecided)'
    BY <1>1, <2>1 DEF TurnInv
  <2>6. (base = "top" => pending = None \/ (pending = seqn /\ Undecided))'
    BY <1>1, <2>1 DEF TurnInv
  <2>7. (main = "written" => ~Flagged(seqn))' /\ (main # "idle" => seqn \in Seqns \ returned)'
    BY <1>1, <1>2, <2>4 DEF TurnInv, Seqns
  <2>. QED BY <2>2, <2>3, <2>5, <2>6, <2>7 DEF TurnInv
<1>9. MessagesInv'
  BY <1>1, NoMessages
<1>10. FlagInv'
  <2>1. base = "flag" => pending \in Seqns
    BY <1>2 DEF TurnInv
  <2>. QED BY <1>1, <1>4, <2>1 DEF FlagInv
<1>11. ReplyMatches'
  BY <1>1, <1>4 DEF ReplyMatches, Seqns
<1>12. \A r \in returned : req'[r] = req[r]
  BY <1>2, <1>5 DEF StateOK
<1>. QED BY <1>6, <1>8, <1>9, <1>10, <1>11, <1>12

-----------------------------------------------------------------------------
(* The connection's thread. *)

\* Where the thread works on a request, it is the current one.
LEMMA ThreadsRequest ==
  ASSUME Inv, base \in {"got", "flag", "ttl"}
  PROVE  /\ pending = seqn /\ main = "waiting"
         /\ seqn \in Seqns \ returned
         /\ ~Flagged(seqn)
         /\ \A r \in returned : r # pending
BY DEF Inv, RpcInv, TurnInv, Undecided

\* A step of the thread that leaves the requests as they are, and goes on with
\* the same one, or drops it.
LEMMA OnlyThread ==
  ASSUME StateOK, TurnInv, UNCHANGED <<main, seqn, returned, req, executed>>,
         base' \in {"top", "got", "flag", "ttl", "clear"},
         \/ pending' = pending /\ pending = seqn /\ Undecided
         \/ pending' = None /\ base' = "top"
  PROVE  StateOK' /\ TurnInv'
<1>1. \A r : Flagged(r)' <=> Flagged(r)
  BY DEF Flagged
<1>2. Undecided' <=> Undecided
  BY <1>1 DEF Undecided, Flagged
<1>3. StateOK'
  BY DEF StateOK, Seqns, RequestObjects
<1>4. /\ (base \in {"got", "flag", "ttl"} => pending = seqn /\ Undecided)'
      /\ (base = "top" => pending = None \/ (pending = seqn /\ Undecided))'
  BY <1>2
<1>5. (main = "written" => ~Flagged(seqn))'
  BY DEF TurnInv, Flagged
<1>6. (main # "idle" => seqn \in Seqns \ returned)'
  BY DEF TurnInv, Seqns
<1>7. /\ (\A r \in Seqns : r > seqn => ~Flagged(r))'
      /\ (\A r \in returned : r =< seqn /\ Flagged(r))'
  BY <1>1 DEF TurnInv, Seqns
<1>. QED BY <1>3, <1>4, <1>5, <1>6, <1>7 DEF TurnInv

LEMMA Receiving ==
  ASSUME Inv, Receive
  PROVE  Inv'
<1>. USE DEF Inv, RpcInv
<1>1. /\ base = "top" /\ pending # None /\ base' = "got"
      /\ UNCHANGED <<main, seqn, returned, pending, req, c2s, fifo, executed>>
  BY DEF Receive, Listens, callerVars, serverVars
<1>2. StateOK' /\ TurnInv'
  BY <1>1, OnlyThread DEF TurnInv
<1>3. MessagesInv'
  <2>1. MadeReplies' = MadeReplies
    BY <1>1 DEF MadeReplies, Seqns
  <2>2. CASE data' = NoReply /\ UNCHANGED <<q, s2c>>
    BY <1>1, <2>1, <2>2 DEF MessagesInv, NoReply, None
  <2>3. ASSUME NEW k \in 1 .. Len(s2c), data' = Head(q \o SubSeq(s2c, 1, k)),
               q' = Tail(q \o SubSeq(s2c, 1, k)), s2c' = SubSeq(s2c, k + 1, Len(s2c))
        PROVE  MessagesInv'
    <3>1. data' \in MadeReplies /\ q' \in Seq(MadeReplies) /\ s2c' \in Seq(MadeReplies)
      BY <2>3, ReadSome DEF MessagesInv
    <3>. QED BY <3>1, <2>1, <1>1 DEF MessagesInv, NoReply, None
  <2>4. CASE s2c # << >> /\ q = << >> /\ s2c' = Tail(s2c) /\ data' = NoReply /\ q' = q
    <3>1. s2c' \in Seq(MadeReplies)
      BY <2>4, HeadTailProperties DEF MessagesInv
    <3>. QED BY <3>1, <2>1, <2>4, <1>1 DEF MessagesInv, NoReply, None
  <2>. QED BY <2>2, <2>3, <2>4 DEF Receive
<1>4. FlagInv' /\ ReplyMatches'
  BY <1>1 DEF FlagInv, ReplyMatches, Seqns
<1>. QED BY <1>2, <1>3, <1>4

LEMMA ReceivingNothing ==
  ASSUME Inv, GotNothing
  PROVE  Inv'
<1>. USE DEF Inv, RpcInv
<1>1. /\ base = "got" /\ base' = "ttl"
      /\ UNCHANGED <<main, seqn, returned, pending, data, q, req, s2c, c2s, fifo, executed>>
  BY DEF GotNothing, callerVars, serverVars
<1>2. StateOK' /\ TurnInv'
  BY <1>1, OnlyThread DEF TurnInv
<1>3. MessagesInv'
  BY <1>1, NoMessages
<1>4. FlagInv' /\ ReplyMatches'
  BY <1>1 DEF FlagInv, ReplyMatches, Seqns
<1>. QED BY <1>2, <1>3, <1>4

LEMMA Removing ==
  ASSUME Inv, RemovePending
  PROVE  Inv'
<1>. USE DEF Inv, RpcInv
<1>1. /\ base = "clear" /\ base' = "top" /\ pending' = None
      /\ UNCHANGED <<main, seqn, returned, data, q, req, s2c, c2s, fifo, executed>>
  BY DEF RemovePending, callerVars, serverVars
<1>2. StateOK' /\ TurnInv'
  BY <1>1, OnlyThread
<1>3. MessagesInv'
  BY <1>1, NoMessages
<1>4. FlagInv' /\ ReplyMatches'
  BY <1>1 DEF FlagInv, ReplyMatches, Seqns
<1>. QED BY <1>2, <1>3, <1>4

\* The thread writes to the pending request; once a flag is set it drops it.
LEMMA Writing ==
  ASSUME Inv, base \in {"got", "flag", "ttl"}, NEW o \in RequestObjects,
         req' = [req EXCEPT ![pending] = o],
         base' \in {"top", "flag", "ttl", "clear"},
         o.timedout \/ o.got_reply => base' = "clear",
         o.got_reply => o.header = pending /\ o.result = pending /\ pending \in ToSet(executed),
         base' = "flag" => /\ data.seqn = pending /\ data.callset
                           /\ o.header = pending /\ o.result = pending,
         UNCHANGED <<main, seqn, returned, pending, data, q, s2c, c2s, fifo, executed>>
  PROVE  /\ Inv'
         /\ \A r \in returned : req'[r] = req[r]
<1>. USE DEF Inv, RpcInv
<1>1. /\ pending = seqn /\ main = "waiting" /\ seqn \in Seqns \ returned
      /\ \A r \in returned : r # pending
  BY ThreadsRequest
<1>2. /\ req'[pending] = o
      /\ \A r \in Seqns : r # pending => req'[r] = req[r]
      /\ req' \in [Seqns -> RequestObjects]
  BY <1>1 DEF StateOK
<1>3. StateOK'
  BY <1>2 DEF StateOK, Seqns, RequestObjects
<1>4. \A r \in Seqns : r # seqn => (Flagged(r)' <=> Flagged(r))
  BY <1>1, <1>2 DEF Flagged
<1>5. Flagged(seqn)' => base' = "clear"
  BY <1>1, <1>2, Zenon DEF Flagged
<1>6. TurnInv'
  <2>1. base' # "clear" => Undecided'
    BY <1>1, <1>5 DEF Undecided, Flagged
  <2>2. /\ (base \in {"got", "flag", "ttl"} => pending = seqn /\ Undecided)'
        /\ (base = "top" => pending = None \/ (pending = seqn /\ Undecided))'
    BY <2>1, <1>1
  <2>3. (main = "written" => ~Flagged(seqn))' /\ (main # "idle" => seqn \in Seqns \ returned)'
    BY <1>1 DEF Seqns
  <2>4. \A r \in Seqns : r > seqn => ~Flagged(r)'
    <3>1. \A r \in Seqns : r > seqn => r # seqn
      BY DEF StateOK, Seqns
    <3>. QED BY <3>1, <1>4 DEF TurnInv
  <2>5. \A r \in returned : r =< seqn /\ Flagged(r)'
    BY <1>1, <1>4 DEF TurnInv, StateOK
  <2>. QED BY <2>2, <2>3, <2>4, <2>5 DEF TurnInv, Seqns, Flagged
<1>7. MessagesInv'
  BY NoMessages
<1>8. FlagInv'
  BY <1>2 DEF FlagInv
<1>9. ReplyMatches'
  <2>. SUFFICES ASSUME NEW r \in Seqns, req'[r].got_reply
                PROVE  req'[r].header = r /\ req'[r].result = r /\ r \in ToSet(executed)
    BY DEF ReplyMatches, Seqns
  <2>1. CASE r = pending
    BY <2>1, <1>2
  <2>2. CASE r # pending
    BY <2>2, <1>2 DEF ReplyMatches
  <2>. QED BY <2>1, <2>2
<1>10. \A r \in returned : req'[r] = req[r]
  BY <1>1, <1>2 DEF StateOK
<1>. QED BY <1>3, <1>6, <1>7, <1>8, <1>9, <1>10

LEMMA ReceivingReply ==
  ASSUME Inv, GotReply
  PROVE  /\ Inv'
         /\ \A r \in returned : req'[r] = req[r]
<1>1. /\ base = "got" /\ data # NoReply
      /\ UNCHANGED <<main, seqn, returned, pending, data, q, s2c, c2s, fifo, executed>>
  BY DEF GotReply, callerVars, serverVars
<1>2. pending \in Seqns /\ req[pending] \in RequestObjects /\ ~Flagged(pending)
  BY <1>1, ThreadsRequest DEF Inv, StateOK
<1>3. data \in MadeReplies /\ data.seqn \in Seqns /\ data.callset \in BOOLEAN
  BY <1>1 DEF Inv, RpcInv, MessagesInv, MadeReplies, Replies
<1> DEFINE o == [req[pending] EXCEPT !.header = data.seqn,
                                     !.result = IF Matches(pending) /\ data.callset
                                                THEN data.seqn ELSE @]
<1>4. req' = [req EXCEPT ![pending] = o]
  BY <1>2 DEF GotReply, Inv, StateOK, RequestObjects
<1>5. /\ o \in RequestObjects
      /\ o.got_reply = req[pending].got_reply /\ o.timedout = req[pending].timedout
      /\ o.header = data.seqn
      /\ Matches(pending) /\ data.callset => o.result = data.seqn
  BY <1>2, <1>3 DEF RequestObjects
<1>6. ~o.got_reply /\ ~o.timedout
  BY <1>2, <1>5 DEF Flagged
<1>7. /\ base' \in {"flag", "ttl", "clear"}
      /\ base' = "flag" => Matches(pending) /\ data.callset
  BY DEF GotReply
<1> HIDE DEF o
<1>8. base' = "flag" => /\ data.seqn = pending /\ data.callset
                        /\ o.header = pending /\ o.result = pending
  BY <1>5, <1>7 DEF Matches
<1>. QED BY <1>1, <1>4, <1>5, <1>6, <1>7, <1>8, Writing

LEMMA Flagging ==
  ASSUME Inv, SetGotReply
  PROVE  /\ Inv'
         /\ \A r \in returned : req'[r] = req[r]
<1>1. /\ base = "flag" /\ base' = "clear"
      /\ UNCHANGED <<main, seqn, returned, pending, data, q, s2c, c2s, fifo, executed>>
  BY DEF SetGotReply, callerVars, serverVars
<1>2. pending \in Seqns /\ req[pending] \in RequestObjects
  BY <1>1, ThreadsRequest DEF Inv, StateOK
<1> DEFINE o == [req[pending] EXCEPT !.got_reply = TRUE]
<1>3. req' = [req EXCEPT ![pending] = o]
  BY DEF SetGotReply
<1>4. o \in RequestObjects /\ o.header = req[pending].header /\ o.result = req[pending].result
  BY <1>2 DEF RequestObjects
<1>5. /\ data.seqn = pending /\ data.callset
      /\ req[pending].header = pending /\ req[pending].result = pending
  BY <1>1 DEF Inv, RpcInv, FlagInv
<1>6. pending \in ToSet(executed)
  BY <1>5 DEF Inv, RpcInv, MessagesInv, MadeReplies, NoReply
<1> HIDE DEF o
<1>. QED BY <1>1, <1>3, <1>4, <1>5, <1>6, Writing

LEMMA TestingTtl ==
  ASSUME Inv, TestTtl
  PROVE  /\ Inv'
         /\ \A r \in returned : req'[r] = req[r]
<1>1. /\ base = "ttl"
      /\ UNCHANGED <<main, seqn, returned, pending, data, q, s2c, c2s, fifo, executed>>
  BY DEF TestTtl, callerVars, serverVars
<1>2. /\ pending \in Seqns /\ pending = seqn /\ main = "waiting"
      /\ req[pending] \in RequestObjects /\ ~Flagged(pending)
  BY <1>1, ThreadsRequest DEF Inv, StateOK
<1>3. CASE req[pending].expired
  <2> DEFINE o == [req[pending] EXCEPT !.timedout = TRUE]
  <2>1. req' = [req EXCEPT ![pending] = o] /\ base' = "clear"
    BY <1>3 DEF TestTtl
  <2>2. o \in RequestObjects /\ o.got_reply = req[pending].got_reply
    BY <1>2 DEF RequestObjects
  <2>3. ~o.got_reply
    BY <2>2, <1>2 DEF Flagged
  <2> HIDE DEF o
  <2>. QED BY <1>1, <2>1, <2>2, <2>3, Writing
<1>4. CASE ~req[pending].expired
  <2>1. UNCHANGED req /\ base' = "top"
    BY <1>4 DEF TestTtl
  <2>2. StateOK' /\ TurnInv'
    BY <1>1, <1>2, <2>1, OnlyThread DEF Inv, RpcInv, Undecided
  <2>3. MessagesInv' /\ FlagInv'
    BY <1>1, <2>1, NoMessages DEF Inv, RpcInv, FlagInv
  <2>4. ReplyMatches'
    BY <1>1, <2>1 DEF Inv, RpcInv, ReplyMatches, Seqns
  <2>. QED BY <2>1, <2>2, <2>3, <2>4 DEF Inv, RpcInv
<1>. QED BY <1>3, <1>4

-----------------------------------------------------------------------------
(* The server. *)

\* The handler of a request runs before its callset is sent.
LEMMA Answering ==
  ASSUME executed \in Seq(Seqns), NEW request \in SentRequests,
         executed' = IF Executes(request) THEN Append(executed, request.seqn) ELSE executed
  PROVE  /\ executed' \in Seq(Seqns)
         /\ ToSet(executed) \subseteq ToSet(executed')
         /\ ProtoRpc_exec(request) \in Seq(MadeReplies')
<1>1. /\ request.seqn \in Nat /\ request.seqn \in Seqns
      /\ request.fate \in Fates /\ request.no_reply \in BOOLEAN
  BY DEF SentRequests, Requests
<1>2. CASE ~Executes(request)
  <2>1. executed' = executed /\ ProtoRpc_exec(request) = <<Reply(request, FALSE)>>
    BY <1>2 DEF ProtoRpc_exec
  <2>2. Reply(request, FALSE) \in MadeReplies'
    BY <1>1 DEF Reply, MadeReplies, Replies, Seqns
  <2>3. ProtoRpc_exec(request) \in Seq(MadeReplies')
    BY <2>1, <2>2, AtMostOne
  <2>. QED BY <2>1, <2>3
<1>3. CASE Executes(request)
  <2>1. executed' = Append(executed, request.seqn)
    BY <1>3
  <2>2. /\ executed' \in Seq(Seqns)
        /\ ToSet(executed) \subseteq ToSet(executed')
        /\ request.seqn \in ToSet(executed')
    BY <1>1, <2>1, ExecutedGrows
  <2>3. Reply(request, TRUE) \in MadeReplies'
    BY <1>1, <2>2 DEF Reply, MadeReplies, Replies, Seqns
  <2>4. ProtoRpc_exec(request) \in {<< >>, <<Reply(request, TRUE)>>}
    BY <1>3 DEF ProtoRpc_exec
  <2>5. ProtoRpc_exec(request) \in Seq(MadeReplies')
    BY <2>3, <2>4, AtMostOne
  <2>. QED BY <2>2, <2>5
<1>. QED BY <1>2, <1>3

LEMMA Serving ==
  ASSUME Inv, rpc_callback
  PROVE  Inv'
<1>. USE DEF Inv, RpcInv
<1>1. UNCHANGED <<main, seqn, returned, pending, base, data, q, req>>
  BY DEF rpc_callback, callerVars, threadVars
<1>2. PICK k \in 1 .. Len(c2s) :
        /\ c2s' = SubSeq(c2s, k + 1, Len(c2s))
        /\ fifo' = Tail(fifo \o SubSeq(c2s, 1, k))
        /\ executed' = IF Executes(Head(fifo \o SubSeq(c2s, 1, k)))
                       THEN Append(executed, Head(fifo \o SubSeq(c2s, 1, k)).seqn)
                       ELSE executed
        /\ s2c' = s2c \o ProtoRpc_exec(Head(fifo \o SubSeq(c2s, 1, k)))
  BY DEF rpc_callback
<1> DEFINE request == Head(fifo \o SubSeq(c2s, 1, k))
<1>3. request \in SentRequests /\ fifo' \in Seq(SentRequests) /\ c2s' \in Seq(SentRequests)
  BY <1>2, ReadSome DEF MessagesInv
<1>4. executed' = IF Executes(request) THEN Append(executed, request.seqn) ELSE executed
  BY <1>2
<1>5. s2c' = s2c \o ProtoRpc_exec(request)
  BY <1>2
<1> HIDE DEF request
<1>6. /\ executed' \in Seq(Seqns)
      /\ ToSet(executed) \subseteq ToSet(executed')
      /\ ProtoRpc_exec(request) \in Seq(MadeReplies')
  BY <1>3, <1>4, Answering DEF StateOK
<1>7. MadeReplies \subseteq MadeReplies'
  BY <1>6 DEF MadeReplies, Seqns
<1>8. MessagesInv'
  <2>1. q \in Seq(MadeReplies') /\ s2c \in Seq(MadeReplies')
    BY <1>7, SeqMonotonic DEF MessagesInv
  <2>2. s2c' \in Seq(MadeReplies')
    BY <2>1, <1>5, <1>6, ConcatProperties
  <2>3. data = NoReply \/ data \in MadeReplies'
    BY <1>7 DEF MessagesInv
  <2>4. SentRequests' = SentRequests /\ NoReply' = NoReply
    BY DEF SentRequests, Seqns, NoReply
  <2>. QED BY <1>1, <1>3, <2>1, <2>2, <2>3, <2>4 DEF MessagesInv
<1>9. StateOK'
  BY <1>1, <1>6 DEF StateOK, Seqns, RequestObjects
<1>10. TurnInv' /\ FlagInv'
  BY <1>1 DEF TurnInv, FlagInv, Undecided, Flagged, Seqns
<1>11. ReplyMatches'
  BY <1>1, <1>6 DEF ReplyMatches, Seqns
<1>. QED BY <1>8, <1>9, <1>10, <1>11

-----------------------------------------------------------------------------
(* The theorems. *)

LEMMA InitRpc == Init => Inv
<1>. SUFFICES ASSUME Init PROVE Inv
  OBVIOUS
<1>. USE DEF Init
<1>1. NewRequest \in RequestObjects
  BY DEF NewRequest, RequestObjects
<1>2. StateOK
  BY <1>1 DEF StateOK
<1>3. MessagesInv
  BY EmptySeq DEF MessagesInv
<1>4. \A r \in Seqns : ~req[r].got_reply /\ ~req[r].timedout
  BY DEF NewRequest
<1>5. TurnInv
  BY <1>4 DEF TurnInv, Flagged
<1>6. FlagInv /\ ReplyMatches
  BY <1>4 DEF FlagInv, ReplyMatches
<1>. QED BY <1>2, <1>3, <1>5, <1>6 DEF Inv, RpcInv

\* A step of either thread of the client, of time or of the server.
LEMMA StepRpc ==
  ASSUME Inv, [Next]_vars
  PROVE  /\ Inv'
         /\ \A r \in returned : req'[r] = req[r]
<1>1. ASSUME NEW fate \in SentFates, NEW no_reply \in BOOLEAN, Send(fate, no_reply)
      PROVE  Inv' /\ UNCHANGED req
  BY <1>1, Sending DEF Send
<1>2. CASE AddPending
  BY <1>2, Pending DEF AddPending
<1>3. CASE Return
  BY <1>3, Returning DEF Return
<1>4. CASE Expire
  BY <1>4, Expiring
<1>5. CASE Receive
  BY <1>5, Receiving DEF Receive
<1>6. CASE GotNothing
  BY <1>6, ReceivingNothing DEF GotNothing
<1>7. CASE GotReply
  BY <1>7, ReceivingReply
<1>8. CASE SetGotReply
  BY <1>8, Flagging
<1>9. CASE TestTtl
  BY <1>9, TestingTtl
<1>10. CASE RemovePending
  BY <1>10, Removing DEF RemovePending
<1>11. CASE rpc_callback
  BY <1>11, Serving DEF rpc_callback
<1>12. CASE UNCHANGED vars
  <2>. USE <1>12 DEF vars
  <2>1. StateOK'
    BY DEF Inv, StateOK, Seqns, RequestObjects
  <2>2. MessagesInv'
    BY NoMessages DEF Inv, RpcInv
  <2>3. TurnInv' /\ FlagInv'
    BY DEF Inv, RpcInv, TurnInv, FlagInv, Undecided, Flagged, Seqns
  <2>4. ReplyMatches'
    BY DEF Inv, RpcInv, ReplyMatches, Seqns
  <2>. QED BY <2>1, <2>2, <2>3, <2>4 DEF Inv, RpcInv
<1>. QED BY <1>1, <1>2, <1>3, <1>4, <1>5, <1>6, <1>7, <1>8, <1>9, <1>10, <1>11, <1>12
         DEF Next, Caller, Thread

LEMMA RpcInvariant == Spec => []Inv
<1>1. Inv /\ [Next]_vars => Inv'
  BY StepRpc
<1>. QED BY InitRpc, <1>1, PTL DEF Spec

\* The thread has a request wherever run (connection/__init__.py:111) reads
\* pending_request without testing it again, and only whole messages are kept.
THEOREM RpcTypeCorrect == Spec => []TypeOK
BY RpcInvariant, InvTypes, PTL

\* The sequence number that run compares (connection/__init__.py:118) is enough
\* to take no late reply for the pending request's: `seqn' never repeats, and
\* the reply is parsed before the flag the caller polls is set.
THEOREM RepliesMatch == Spec => []ReplyMatches
<1>1. Inv => ReplyMatches
  BY DEF Inv, RpcInv
<1>. QED BY RpcInvariant, <1>1, PTL

\* Whoever got a Reply from send_sync (api.py:197) may keep it.
THEOREM ReturnedIsStable == Spec => ReturnedStable
<1>1. Inv /\ [Next]_vars => [\A r \in returned : req'[r] = req[r]]_vars
  BY StepRpc
<1>. QED BY RpcInvariant, <1>1, PTL DEF Spec, ReturnedStable
=============================================================================
