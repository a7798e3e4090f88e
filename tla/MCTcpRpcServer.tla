---------------------------- MODULE MCTcpRpcServer ----------------------------
(* Code words up to 3, so that a block is full with two bytes.  Of the        *)
(* requests one has a 0, one a byte after a full block, and one is longer     *)
(* than the buffers.                                                          *)
EXTENDS TcpRpcServer

MCTails == {<<0>>, <<9, 9>>, <<8, 8, 8, 8>>}

(* A request whose full block is followed by a 0.                             *)
MCTailsZero == {<<9, 0>>}
=============================================================================
