------------------------------- MODULE EthSerial -------------------------------
(***************************************************************************)
(* drivers/net/eth_serial with SLIP framing: raw Ethernet frames over a    *)
(* serial line.                                                            *)
(*                                                                         *)
(* The peer runs eth_serial_send; the line keeps its bytes in order and    *)
(* loses none, so that every loss here is this code's own.  On the         *)
(* receiving side the uart interrupt calls recv_cb with the bytes so far;  *)
(* recv_cb puts a deframed frame in a block of the slab rx_pool and queues *)
(* it in rx_fifo for rx_thread, which hands a copy to the network stack    *)
(* and frees the block.  The interrupt comes between any two steps of      *)
(* rx_thread and before the interface is initialised.                      *)
(***************************************************************************)
EXTENDS SlipFrame

CONSTANTS Packets,    \* payloads of the Ethernet frames, none of them empty
          Blocks,     \* the blocks of the slab rx_pool
          NoBlock,    \* the value of `item' while rx_thread waits
          ChunkMax,   \* size of serial_buf, the most one call of recv_cb gets
          MaxSent     \* frames sent in a behaviour, at most (bound)

ASSUME EthSerialAssumption ==
  /\ Packets \subseteq Seq(PayloadBytes) \ {<< >>}
  /\ NoBlock \notin Blocks
  /\ ChunkMax \in Nat \ {0}
  /\ MaxSent \in Nat

VARIABLES line,        \* bytes sent and not yet received
          init_done,   \* ctx->init_done
          deframer,    \* ctx->deframer_state and buf_deframed
          rx_pool,     \* the free blocks
          rx_fifo,     \* the blocks queued for rx_thread
          msg,         \* what each block holds
          item,        \* rx_thread's block
          stage,       \* where rx_thread is: "wait", "got" or "delivered"
          sent,        \* frames sent (history)
          passed,      \* frames pushed into the network stack (history)
          reported,    \* an error was logged, and bytes or a frame dropped (history)
          discarded    \* bytes came before the interface was initialised (history)

vars == <<line, init_done, deframer, rx_pool, rx_fifo, msg, item, stage,
          sent, passed, reported, discarded>>

Init == /\ line = << >>
        /\ init_done = FALSE
        /\ deframer = slip_deframer_init
        /\ rx_pool = Blocks
        /\ rx_fifo = << >>
        /\ msg = [b \in Blocks |-> << >>]
        /\ item = NoBlock
        /\ stage = "wait"
        /\ sent = << >>
        /\ passed = << >>
        /\ reported = FALSE
        /\ discarded = FALSE

\* The network stack calls eth_serial_send on the peer, which frames the
\* aggregated packet and writes it to the uart before it returns.
eth_serial_send(p) ==
  /\ Len(sent) < MaxSent
  /\ sent' = Append(sent, p)
  /\ line' = line \o slip_framer(p)
  /\ UNCHANGED <<init_done, deframer, rx_pool, rx_fifo, msg, item, stage,
                 passed, reported, discarded>>

\* The network stack initialises the interface, after the driver is running.
eth_serial_iface_init ==
  /\ ~init_done
  /\ init_done' = TRUE
  /\ UNCHANGED <<line, deframer, rx_pool, rx_fifo, msg, item, stage,
                 sent, passed, reported, discarded>>

-----------------------------------------------------------------------------
(* recv_cb with the next n bytes of the line. *)

\* Before the interface is initialised the bytes are discarded, and nothing is
\* logged.
recv_cb_early(n) ==
  /\ ~init_done
  /\ line' = SubSeq(line, n + 1, Len(line))
  /\ discarded' = TRUE
  /\ UNCHANGED <<init_done, deframer, rx_pool, rx_fifo, msg, item, stage,
                 sent, passed, reported>>

\* MUTANT: writes to the block of the frame queued last, when there is one.
EnqueueReuses(frame) ==
  \E b \in rx_pool :
    /\ rx_pool' = rx_pool \ {b}
    /\ rx_fifo' = Append(rx_fifo, b)
    /\ msg' = [msg EXCEPT ![IF rx_fifo = << >> THEN b ELSE Last(rx_fifo)] = frame]

\* k_mem_slab_alloc, the copy and k_fifo_put.
Enqueue(frame) ==
  \E b \in rx_pool :
    /\ rx_pool' = rx_pool \ {b}
    /\ rx_fifo' = Append(rx_fifo, b)
    /\ msg' = [msg EXCEPT ![b] = frame]

recv_cb(n) ==
  /\ init_done
  /\ line' = SubSeq(line, n + 1, Len(line))
  /\ LET call == Deframe(deframer, SubSeq(line, 1, n))
         size == Len(call.frame)
     IN  /\ deframer' = call.d
         /\ reported' = \/ reported
                        \/ call.ret \notin {"more", "frame"}
                        \/ size > 0 /\ rx_pool = {}
         /\ IF size > 0 /\ rx_pool # {}
            THEN Enqueue(call.frame)
            ELSE UNCHANGED <<rx_pool, rx_fifo, msg>>
  /\ UNCHANGED <<init_done, item, stage, sent, passed, discarded>>

-----------------------------------------------------------------------------
(* rx_thread. *)

\* MUTANT: looks at the head of the fifo and leaves it there.
RxGetPeeks ==
  /\ stage = "wait"
  /\ rx_fifo # << >>
  /\ item' = Head(rx_fifo)
  /\ stage' = "got"
  /\ UNCHANGED <<line, init_done, deframer, rx_pool, rx_fifo, msg, sent, passed,
                 reported, discarded>>

\* k_fifo_get with K_FOREVER
RxGet ==
  /\ stage = "wait"
  /\ rx_fifo # << >>
  /\ item' = Head(rx_fifo)
  /\ rx_fifo' = Tail(rx_fifo)
  /\ stage' = "got"
  /\ UNCHANGED <<line, init_done, deframer, rx_pool, msg, sent, passed,
                 reported, discarded>>

\* No network packet, or no buffer for it: `continue', past k_mem_slab_free.
RxAllocFail ==
  /\ stage = "got"
  /\ item' = NoBlock
  /\ stage' = "wait"
  /\ reported' = TRUE
  /\ UNCHANGED <<line, init_done, deframer, rx_pool, rx_fifo, msg, sent, passed,
                 discarded>>

\* The copy and net_recv_data, which may refuse the packet.
RxDeliver ==
  /\ stage = "got"
  /\ stage' = "delivered"
  /\ \/ passed' = Append(passed, msg[item]) /\ UNCHANGED reported
     \/ reported' = TRUE /\ UNCHANGED passed
  /\ UNCHANGED <<line, init_done, deframer, rx_pool, rx_fifo, msg, item, sent, discarded>>

\* MUTANT: the block of a packet is not given back.
RxFreeForgets ==
  /\ stage = "delivered"
  /\ item' = NoBlock
  /\ stage' = "wait"
  /\ UNCHANGED <<line, init_done, deframer, rx_pool, rx_fifo, msg, sent, passed,
                 reported, discarded>>

\* k_mem_slab_free
RxFree ==
  /\ stage = "delivered"
  /\ rx_pool' = rx_pool \cup {item}
  /\ item' = NoBlock
  /\ stage' = "wait"
  /\ UNCHANGED <<line, init_done, deframer, rx_fifo, msg, sent, passed,
                 reported, discarded>>

Next == \/ \E p \in Packets : eth_serial_send(p)
        \/ eth_serial_iface_init
        \/ \E n \in 1 .. ChunkMax : /\ n =< Len(line)
                                    /\ recv_cb_early(n) \/ recv_cb(n)
        \/ RxGet
        \/ RxAllocFail
        \/ RxDeliver
        \/ RxFree

Spec == Init /\ [][Next]_vars

-----------------------------------------------------------------------------
(* Properties. *)

TypeOK ==
  /\ line \in Seq(Bytes)
  /\ init_done \in BOOLEAN
  /\ deframer \in Deframers
  /\ Len(deframer.fifo) =< FifoDepth
  /\ Len(deframer.out) =< BufOutMax
  /\ rx_pool \subseteq Blocks
  /\ rx_fifo \in Seq(Blocks)
  /\ msg \in [Blocks -> Seq(PayloadBytes)]
  /\ item \in Blocks \cup {NoBlock}
  /\ stage \in {"wait", "got", "delivered"}
  /\ sent \in Seq(Packets)
  /\ passed \in Seq(Seq(PayloadBytes))
  /\ reported \in BOOLEAN
  /\ discarded \in BOOLEAN

\* A block has one owner: it is free, or queued once, or in rx_thread's hands
\* (or lost).  The interrupt never writes to a block whose frame is still to be
\* read, whichever steps of rx_thread it comes between.
OneOwner ==
  /\ \A i \in 1 .. Len(rx_fifo) : rx_fifo[i] \notin rx_pool \cup {item}
  /\ \A i, j \in 1 .. Len(rx_fifo) : rx_fifo[i] = rx_fifo[j] => i = j
  /\ item \notin rx_pool
  /\ item = NoBlock <=> stage = "wait"

\* Frames received and neither delivered nor dropped yet, oldest first.
Held == (IF stage = "got" THEN <<msg[item]>> ELSE << >>)
          \o [i \in 1 .. Len(rx_fifo) |-> msg[rx_fifo[i]]]

\* What reaches the network stack was sent, byte for byte, in the order sent
\* and once: discarded bytes, flushed fifos, refused frames and lost blocks
\* leave frames out, but never join, tear, repeat or reorder them.
PassedIntact ==
  LET got == passed \o Held
  IN  \E at \in [DOMAIN got -> DOMAIN sent] :
        /\ \A i, j \in DOMAIN got : i < j => at[i] < at[j]
        /\ \A i \in DOMAIN got : got[i] = sent[at[i]]

\* The first frame lost is lost with an error in the log: until one is there,
\* the frames received are the first ones sent, and all of them once the line and
\* the deframer's fifo are drained.  Nothing is said of what follows a loss, when
\* the deframer may be out of step and discard frames without a word, nor of a
\* peer that sends before the interface is initialised: recv_cb discards those
\* bytes and logs nothing.
FirstLossReported ==
  ~discarded /\ ~reported =>
    /\ IsPrefix(passed \o Held, sent)
    /\ line = << >> /\ deframer.fifo = << >> => passed \o Held = sent

\* The blocks that are free, queued or in rx_thread's hands.
Owned == rx_pool \cup ToSet(rx_fifo) \cup ({item} \ {NoBlock})

\* The interrupt and rx_thread pass blocks to each other without losing one:
\* frames that are refused or dropped at any point leave the slab whole, and a
\* block is only lost when rx_thread has one and gets no packet or no buffer.
BlocksKept == [][Owned' = Owned \/ (stage = "got" /\ stage' = "wait")]_vars

-----------------------------------------------------------------------------
\* "First encoded byte is sitting at top of fifo" (slip.c): a deframer that
\* looks for the end of a frame is inside a frame, so the next byte does not
\* start one.  After any loss that ends inside a frame it takes the end of that
\* frame for a start, and then every end for a start.
FirstEncodedByte ==
  deframer.state = "FIND_EOF" /\ line # << >> => Head(line) # "SOF"
=============================================================================
