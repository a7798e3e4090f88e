-------------------------------- MODULE ProtoRpc --------------------------------
(***************************************************************************)
(* modules/ProtoRpc: what ProtoRpc_exec makes of one decoded frame.        *)
(*                                                                         *)
(* A request is its header's seqn and no_reply and the fate its callset    *)
(* meets: "bad" when no resolver, no unpacking or no handler is found,     *)
(* else what the handler reports.  A callset query, which no client of     *)
(* this repository sends, is left out.                                     *)
(***************************************************************************)
EXTENDS Integers

Fates == {"bad", "ok", "handler_error"}

Requests == [seqn : Nat, no_reply : BOOLEAN, fate : Fates]

\* callset says whether the callset's reply follows the header.
Replies == [seqn : Nat, status : Fates, callset : BOOLEAN]

Reply(request, callset) ==
  [seqn |-> request.seqn, status |-> request.fate, callset |-> callset]

Executes(request) == request.fate # "bad"

\* The replies to a request, one at most.  A failed lookup or unpacking is
\* answered by a header alone, even to a request that wants no reply.
ProtoRpc_exec(request) ==
  IF ~Executes(request) THEN <<Reply(request, FALSE)>>
  ELSE IF request.no_reply THEN << >>
  ELSE <<Reply(request, TRUE)>>
=============================================================================
