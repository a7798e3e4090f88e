--------------------------- MODULE EthSerialProofs ---------------------------
(***************************************************************************)
(* Proofs about EthSerial for every slab, every packet, every size of the  *)
(* deframer's buffers and every way the uart cuts the line up: a block has *)
(* one owner and none vanishes (OneOwner, BlocksKept), the types hold      *)
(* (TypeOK), what reaches the network stack was sent, each frame whole, in *)
(* order and once (PassedIntact), and the first loss after the interface   *)
(* is initialised is in the log (FirstLossReported).                       *)
(*                                                                         *)
(* The first two speak of the blocks alone.  For the others every byte of  *)
(* the line has a tag: the frame it comes from, its place in it and the    *)
(* half of an escape.  FrameTags says that what slip_framer makes of a     *)
(* packet can be tagged so, ByteMatched that one byte keeps the deframer's *)
(* state and buffer in line with the tags, LoopMatched that a whole call   *)
(* does, StreamAfter what a call of slip_deframer then returns, and        *)
(* StreamInv is the invariant this makes inductive.  Loops are followed by *)
(* induction on the natural numbers (UpTo).                                *)
(***************************************************************************)
EXTENDS EthSerial, SequenceTheorems, WellFoundedInduction, TLAPS

Owner == /\ rx_pool \subseteq Blocks
         /\ rx_fifo \in Seq(Blocks)
         /\ item \in Blocks \cup {NoBlock}
         /\ stage \in {"wait", "got", "delivered"}

BlockInv == Owner /\ OneOwner

blockVars == <<rx_pool, rx_fifo, item, stage>>

\* Nothing but its owners' variables decides who owns a block.
LEMMA BlockStutter == BlockInv /\ UNCHANGED blockVars => BlockInv'
BY DEF BlockInv, Owner, OneOwner, blockVars

\* recv_cb queues a block that was free, so neither queued nor rx_thread's.
LEMMA EnqueueBlock ==
  ASSUME BlockInv, NEW frame, Enqueue(frame), UNCHANGED <<item, stage>>
  PROVE  BlockInv'
<1>1. PICK b \in rx_pool : /\ rx_pool' = rx_pool \ {b}
                           /\ rx_fifo' = Append(rx_fifo, b)
  BY DEF Enqueue
<1>2. b \in Blocks /\ rx_fifo \in Seq(Blocks)
  BY DEF BlockInv, Owner
<1>3. /\ rx_fifo' \in Seq(Blocks)
      /\ Len(rx_fifo') = Len(rx_fifo) + 1
      /\ rx_fifo'[Len(rx_fifo) + 1] = b
      /\ \A i \in 1 .. Len(rx_fifo) : rx_fifo'[i] = rx_fifo[i]
  BY <1>1, <1>2, AppendProperties
<1>4. Len(rx_fifo) \in Nat
  BY <1>2
<1>5. Owner'
  BY <1>1, <1>3 DEF BlockInv, Owner
<1>6. \A i \in 1 .. Len(rx_fifo) : rx_fifo[i] # b
  BY <1>1 DEF BlockInv, OneOwner
<1>7. item # b /\ item' = item
  BY <1>1 DEF BlockInv, OneOwner
<1>8. \A i \in 1 .. Len(rx_fifo') : rx_fifo'[i] \notin rx_pool' \cup {item'}
  <2> TAKE i \in 1 .. Len(rx_fifo')
  <2>1. CASE i = Len(rx_fifo) + 1
    BY <1>1, <1>3, <1>7, <2>1
  <2>2. CASE i \in 1 .. Len(rx_fifo)
    BY <1>1, <1>3, <1>7, <2>2 DEF BlockInv, OneOwner
  <2> QED
    BY <1>3, <1>4, <2>1, <2>2
<1>9. \A i, j \in 1 .. Len(rx_fifo') : rx_fifo'[i] = rx_fifo'[j] => i = j
  <2> SUFFICES ASSUME NEW i \in 1 .. Len(rx_fifo'), NEW j \in 1 .. Len(rx_fifo'),
                      rx_fifo'[i] = rx_fifo'[j], i # j
               PROVE  FALSE
    OBVIOUS
  <2>1. CASE i \in 1 .. Len(rx_fifo) /\ j \in 1 .. Len(rx_fifo)
    BY <1>3, <2>1 DEF BlockInv, OneOwner
  <2>2. CASE i = Len(rx_fifo) + 1 /\ j \in 1 .. Len(rx_fifo)
    BY <1>3, <1>6, <2>2
  <2>3. CASE i \in 1 .. Len(rx_fifo) /\ j = Len(rx_fifo) + 1
    BY <1>3, <1>6, <2>3
  <2> QED
    BY <1>3, <1>4, <2>1, <2>2, <2>3
<1>10. item' \notin rx_pool' /\ (item' = NoBlock <=> stage' = "wait")
  BY <1>1, <1>7 DEF BlockInv, OneOwner
<1> QED
  BY <1>5, <1>8, <1>9, <1>10 DEF BlockInv, OneOwner

\* k_fifo_get takes the head, which is queued once and is not free.
LEMMA RxGetBlock == ASSUME BlockInv, RxGet PROVE BlockInv'
<1> USE DEF RxGet
<1>1. rx_fifo \in Seq(Blocks) /\ rx_fifo # << >>
  BY DEF BlockInv, Owner
<1>2. /\ rx_fifo' \in Seq(Blocks)
      /\ Len(rx_fifo') = Len(rx_fifo) - 1
      /\ \A i \in 1 .. Len(rx_fifo') : rx_fifo'[i] = rx_fifo[i + 1]
      /\ item' = rx_fifo[1]
      /\ item' \in Blocks
  BY <1>1, HeadTailProperties
<1>3. Len(rx_fifo) \in Nat \ {0}
  BY <1>1, EmptySeq
<1>4. Owner'
  BY <1>2 DEF BlockInv, Owner
<1>5. \A i \in 1 .. Len(rx_fifo') : i + 1 \in 1 .. Len(rx_fifo) /\ i + 1 # 1
  BY <1>2, <1>3
<1>6. 1 \in 1 .. Len(rx_fifo)
  BY <1>3
<1>7. \A i \in 1 .. Len(rx_fifo') : rx_fifo'[i] \notin rx_pool' \cup {item'}
  BY <1>2, <1>5, <1>6 DEF BlockInv, OneOwner
<1>8. \A i, j \in 1 .. Len(rx_fifo') : rx_fifo'[i] = rx_fifo'[j] => i = j
  <2> TAKE i, j \in 1 .. Len(rx_fifo')
  <2>1. rx_fifo'[i] = rx_fifo'[j] => i + 1 = j + 1
    BY <1>2, <1>5 DEF BlockInv, OneOwner
  <2> QED
    BY <1>2, <1>3, <2>1
<1>9. item' \notin rx_pool' /\ item' # NoBlock /\ stage' # "wait"
  BY <1>2, <1>6, EthSerialAssumption DEF BlockInv, OneOwner
<1> QED
  BY <1>4, <1>7, <1>8, <1>9 DEF BlockInv, OneOwner

LEMMA BlockInvStep == BlockInv /\ [Next]_vars => BlockInv'
<1> SUFFICES ASSUME BlockInv, [Next]_vars PROVE BlockInv'
  OBVIOUS
<1>1. CASE \E p \in Packets : eth_serial_send(p)
  BY <1>1, BlockStutter DEF eth_serial_send, blockVars
<1>2. CASE eth_serial_iface_init
  BY <1>2, BlockStutter DEF eth_serial_iface_init, blockVars
<1>3. CASE \E n \in 1 .. ChunkMax : recv_cb_early(n)
  BY <1>3, BlockStutter DEF recv_cb_early, blockVars
<1>4. ASSUME NEW n \in 1 .. ChunkMax, recv_cb(n) PROVE BlockInv'
  <2> DEFINE frame == Deframe(deframer, SubSeq(line, 1, n)).frame
  <2>1. UNCHANGED <<item, stage>>
    BY <1>4 DEF recv_cb
  <2>2. Enqueue(frame) \/ UNCHANGED <<rx_pool, rx_fifo, msg>>
    BY <1>4 DEF recv_cb
  <2> HIDE DEF frame
  <2> QED
    BY <2>1, <2>2, EnqueueBlock, BlockStutter DEF blockVars
<1>5. CASE RxGet
  BY <1>5, RxGetBlock
<1>6. CASE RxAllocFail
  <2>1. NoBlock \notin Blocks
    BY EthSerialAssumption
  <2>2. \A i \in 1 .. Len(rx_fifo) : rx_fifo[i] \in Blocks
    BY DEF BlockInv, Owner
  <2> QED
    BY <1>6, <2>1, <2>2 DEF RxAllocFail, BlockInv, Owner, OneOwner
<1>7. CASE RxDeliver
  BY <1>7 DEF RxDeliver, BlockInv, Owner, OneOwner
<1>8. CASE RxFree
  <2>1. NoBlock \notin Blocks
    BY EthSerialAssumption
  <2>2. \A i \in 1 .. Len(rx_fifo) : rx_fifo[i] \in Blocks
    BY DEF BlockInv, Owner
  <2>3. item \in Blocks
    BY <1>8 DEF RxFree, BlockInv, Owner, OneOwner
  <2> QED
    BY <1>8, <2>1, <2>2, <2>3 DEF RxFree, BlockInv, Owner, OneOwner
<1>9. CASE UNCHANGED vars
  BY <1>9, BlockStutter DEF vars, blockVars
<1> QED
  BY <1>1, <1>2, <1>3, <1>4, <1>5, <1>6, <1>7, <1>8, <1>9 DEF Next

\* In every behaviour of the driver a block is free, or queued once, or in
\* rx_thread's hands, or lost: recv_cb never writes to a frame still to be read.
THEOREM BlocksHaveOneOwner == Spec => []OneOwner
<1>1. Init => BlockInv
  BY EthSerialAssumption DEF Init, BlockInv, Owner, OneOwner
<1>2. BlockInv => OneOwner
  BY DEF BlockInv
<1> QED
  BY <1>1, <1>2, BlockInvStep, PTL DEF Spec

-----------------------------------------------------------------------------
(* No block is lost but to a failed allocation. *)

ownedVars == <<rx_pool, rx_fifo, item>>

LEMMA EnqueueOwned ==
  ASSUME BlockInv, NEW frame, Enqueue(frame), UNCHANGED item
  PROVE  Owned' = Owned
<1>1. PICK b \in rx_pool : rx_pool' = rx_pool \ {b} /\ rx_fifo' = Append(rx_fifo, b)
  BY DEF Enqueue
<1>2. b \in Blocks /\ rx_fifo \in Seq(Blocks)
  BY DEF BlockInv, Owner
<1>3. /\ DOMAIN rx_fifo' = 1 .. Len(rx_fifo) + 1
      /\ DOMAIN rx_fifo = 1 .. Len(rx_fifo)
      /\ Len(rx_fifo) \in Nat
      /\ rx_fifo'[Len(rx_fifo) + 1] = b
      /\ \A i \in 1 .. Len(rx_fifo) : rx_fifo'[i] = rx_fifo[i]
  BY <1>1, <1>2, AppendProperties
<1>4. DOMAIN rx_fifo' = DOMAIN rx_fifo \cup {Len(rx_fifo) + 1}
  BY <1>3
<1>5. ToSet(rx_fifo') = ToSet(rx_fifo) \cup {b}
  BY <1>3, <1>4 DEF ToSet
<1>. QED BY <1>1, <1>5 DEF Owned

LEMMA RxGetOwned == ASSUME BlockInv, RxGet PROVE Owned' = Owned
<1>1. rx_fifo \in Seq(Blocks) /\ rx_fifo # << >> /\ NoBlock \notin Blocks
  BY EthSerialAssumption DEF RxGet, BlockInv, Owner
<1>2. /\ DOMAIN rx_fifo' = 1 .. Len(rx_fifo) - 1
      /\ DOMAIN rx_fifo = 1 .. Len(rx_fifo)
      /\ Len(rx_fifo) \in Nat \ {0}
      /\ \A i \in 1 .. Len(rx_fifo) - 1 : rx_fifo'[i] = rx_fifo[i + 1]
      /\ item' = rx_fifo[1]
  BY <1>1, HeadTailProperties, EmptySeq DEF RxGet
<1>3. \A i \in 1 .. Len(rx_fifo) : i = 1 \/ (i - 1 \in 1 .. Len(rx_fifo) - 1 /\ i = i - 1 + 1)
  BY <1>2
<1>4. \A i \in 1 .. Len(rx_fifo) - 1 : i + 1 \in 1 .. Len(rx_fifo)
  BY <1>2
<1>5. ToSet(rx_fifo) \subseteq {item'} \cup ToSet(rx_fifo')
  <2>. SUFFICES ASSUME NEW i \in 1 .. Len(rx_fifo)
                PROVE  rx_fifo[i] \in {item'} \cup ToSet(rx_fifo')
    BY <1>2 DEF ToSet
  <2>1. CASE i = 1
    BY <1>2, <2>1
  <2>2. CASE i # 1
    <3>1. i - 1 \in 1 .. Len(rx_fifo) - 1 /\ i - 1 + 1 = i
      BY <1>3, <2>2
    <3>2. rx_fifo'[i - 1] = rx_fifo[i]
      BY <1>2, <3>1
    <3>. QED BY <1>2, <3>1, <3>2 DEF ToSet
  <2>. QED BY <2>1, <2>2
<1>6. {item'} \cup ToSet(rx_fifo') \subseteq ToSet(rx_fifo)
  <2>1. item' \in ToSet(rx_fifo)
    BY <1>2 DEF ToSet
  <2>2. \A i \in 1 .. Len(rx_fifo) - 1 : rx_fifo'[i] \in ToSet(rx_fifo)
    BY <1>2, <1>4 DEF ToSet
  <2>. QED BY <1>2, <2>1, <2>2 DEF ToSet
<1>7. item = NoBlock
  BY DEF RxGet, BlockInv, OneOwner
<1>8. 1 \in 1 .. Len(rx_fifo) /\ rx_fifo[1] \in Blocks
  BY <1>1, <1>2
<1>9. item' # NoBlock
  BY <1>1, <1>2, <1>8
<1>. QED BY <1>5, <1>6, <1>7, <1>9 DEF RxGet, Owned

\* What rx_thread and the uart callback do to a frame, refusals included, leaves
\* every block with an owner.
THEOREM NoBlockVanishes == Spec => BlocksKept
<1>1. ASSUME BlockInv, [Next]_vars
      PROVE  Owned' = Owned \/ (stage = "got" /\ stage' = "wait")
  <2>1. ASSUME UNCHANGED ownedVars PROVE Owned' = Owned
    BY <2>1 DEF ownedVars, Owned
  <2>2. CASE (\E p \in Packets : eth_serial_send(p)) \/ eth_serial_iface_init
    BY <2>1, <2>2 DEF eth_serial_send, eth_serial_iface_init, ownedVars
  <2>3. CASE \E n \in 1 .. ChunkMax : recv_cb_early(n)
    BY <2>1, <2>3 DEF recv_cb_early, ownedVars
  <2>4. ASSUME NEW n \in 1 .. ChunkMax, recv_cb(n) PROVE Owned' = Owned
    <3> DEFINE frame == Deframe(deframer, SubSeq(line, 1, n)).frame
    <3>1. UNCHANGED item /\ (Enqueue(frame) \/ UNCHANGED <<rx_pool, rx_fifo, msg>>)
      BY <2>4 DEF recv_cb
    <3> HIDE DEF frame
    <3>. QED BY <1>1, <2>1, <3>1, EnqueueOwned DEF ownedVars
  <2>5. CASE RxGet
    BY <1>1, <2>5, RxGetOwned
  <2>6. CASE RxAllocFail
    BY <2>6 DEF RxAllocFail
  <2>7. CASE RxDeliver
    BY <2>1, <2>7 DEF RxDeliver, ownedVars
  <2>8. CASE RxFree
    <3>1. item \in Blocks /\ item # NoBlock
      BY <1>1, <2>8, EthSerialAssumption DEF RxFree, BlockInv, Owner, OneOwner
    <3>. QED BY <2>8, <3>1 DEF RxFree, Owned
  <2>9. CASE UNCHANGED vars
    BY <2>1, <2>9 DEF vars, ownedVars
  <2>. QED BY <1>1, <2>2, <2>3, <2>4, <2>5, <2>6, <2>7, <2>8, <2>9 DEF Next
<1>2. Init => BlockInv
  BY EthSerialAssumption DEF Init, BlockInv, Owner, OneOwner
<1>3. BlockInv /\ [Next]_vars
        => [Owned' = Owned \/ (stage = "got" /\ stage' = "wait")]_vars
  BY <1>1
<1>. QED BY <1>2, <1>3, BlockInvStep, PTL DEF Spec, BlocksKept

-----------------------------------------------------------------------------
(* Induction, and recursive functions that follow a loop. *)

LEMMA Induction ==
  ASSUME NEW T \in SUBSET Nat, 0 \in T, \A n \in T : n + 1 \in T
  PROVE  T = Nat
<1> DEFINE Below == {p \in Nat \X Nat : p[1] < p[2]}
<1>1. IsWellFoundedOn(Below, Nat)
  BY NatLessThanWellFounded DEF OpToRel
<1>2. SUFFICES ASSUME Nat \ T # {} PROVE FALSE
  OBVIOUS
<1>3. PICK m \in Nat \ T : \A k \in Nat \ T : <<k, m>> \notin Below
  BY <1>1, <1>2, WFMin
<1>4. m # 0 /\ m - 1 \in Nat
  OBVIOUS
<1>5. <<m - 1, m>> \in Below
  BY <1>4
<1>6. m - 1 \in T
  BY <1>3, <1>4, <1>5
<1>. QED BY <1>4, <1>6

\* Induction up to a bound.
LEMMA UpTo ==
  ASSUME NEW N \in Nat, NEW T, 0 \in T, \A n \in 0 .. N - 1 : n \in T => n + 1 \in T
  PROVE  0 .. N \subseteq T
<1> DEFINE U == {n \in Nat : n =< N => n \in T}
<1>1. 0 \in U
  OBVIOUS
<1>2. \A n \in U : n + 1 \in U
  OBVIOUS
<1>3. U = Nat
  <2>. HIDE DEF U
  <2>1. U \in SUBSET Nat
    BY DEF U
  <2>. QED BY <1>1, <1>2, <2>1, Induction
<1>. QED BY <1>3

\* g is what a loop over s has made of base after each of its rounds.
Rounds(g, Step, base, s) ==
  \A n \in 0 .. Len(s) : g[n] = IF n = 0 THEN base ELSE Step[<<g[n - 1], s[n]>>]

LEMMA LoopExists ==
  ASSUME NEW A, NEW B, NEW Step \in [A \X B -> A], NEW base \in A, NEW s \in Seq(B)
  PROVE  \E g \in [0 .. Len(s) -> A] : Rounds(g, Step, base, s)
<1> DEFINE Loops(g, m) ==
             \A n \in 0 .. m : g[n] = IF n = 0 THEN base ELSE Step[<<g[n - 1], s[n]>>]
           T == {m \in Nat : \E g \in [0 .. m -> A] : Loops(g, m)}
<1>0. Len(s) \in Nat /\ \A i \in 1 .. Len(s) : s[i] \in B
  BY LenProperties, ElementOfSeq
<1>1. 0 \in T
  <2> DEFINE g == [n \in 0 .. 0 |-> base]
  <2>1. g \in [0 .. 0 -> A] /\ Loops(g, 0)
    OBVIOUS
  <2>. QED BY <2>1
<1>2. ASSUME NEW m \in 0 .. Len(s) - 1, m \in T PROVE m + 1 \in T
  <2>1. SUFFICES \E g \in [0 .. m + 1 -> A] : Loops(g, m + 1)
    BY <1>0
  <2>2. PICK g \in [0 .. m -> A] : Loops(g, m)
    BY <1>2
  <2> DEFINE h == [n \in 0 .. m + 1 |-> IF n = m + 1 THEN Step[<<g[m], s[m + 1]>>] ELSE g[n]]
  <2>3. g[m] \in A /\ s[m + 1] \in B
    BY <1>0
  <2>4. h \in [0 .. m + 1 -> A]
    BY <2>3
  <2>5. ASSUME NEW n \in 0 .. m + 1
        PROVE  h[n] = IF n = 0 THEN base ELSE Step[<<h[n - 1], s[n]>>]
    <3>1. CASE n = m + 1
      <4>1. h[n] = Step[<<g[m], s[n]>>] /\ n - 1 = m /\ h[m] = g[m] /\ n # 0
        BY <3>1
      <4>. QED BY <4>1
    <3>2. CASE n # m + 1
      <4>1. n \in 0 .. m /\ h[n] = g[n] /\ (n # 0 => h[n - 1] = g[n - 1])
        BY <3>2
      <4>2. g[n] = IF n = 0 THEN base ELSE Step[<<g[n - 1], s[n]>>]
        BY <2>2, <4>1
      <4>. QED BY <4>1, <4>2
    <3>. QED BY <3>1, <3>2
  <2>. QED BY <2>4, <2>5
<1>3. 0 .. Len(s) \subseteq T
  <2>. HIDE DEF T
  <2>. QED BY <1>0, <1>1, <1>2, UpTo
<1>4. PICK g \in [0 .. Len(s) -> A] : Loops(g, Len(s))
  BY <1>0, <1>3
<1>. QED BY <1>4 DEF Rounds

-----------------------------------------------------------------------------
(* slip_framer *)

LEMMA EscapedBytes ==
  ASSUME NEW c \in PayloadBytes
  PROVE  /\ Escaped(c) \in Seq(Bytes)
         /\ Len(Escaped(c)) = IF c \in {"END", "ESC"} THEN 2 ELSE 1
         /\ Escaped(c)[1] = IF c \in {"END", "ESC"} THEN "ESC" ELSE c
         /\ c = "END" => Escaped(c)[2] = "ESC_END"
         /\ c = "ESC" => Escaped(c)[2] = "ESC_ESC"
<1>1. CASE c = "END"
  BY <1>1 DEF Escaped, Bytes, PayloadBytes
<1>2. CASE c = "ESC"
  BY <1>2 DEF Escaped, Bytes, PayloadBytes
<1>3. CASE c \notin {"END", "ESC"}
  BY <1>3 DEF Escaped, Bytes, PayloadBytes
<1>. QED BY <1>1, <1>2, <1>3

LEMMA FramingLoop ==
  ASSUME NEW p \in Seq(PayloadBytes)
  PROVE  \A k \in 0 .. Len(p) :
           /\ Framing(p)[k] \in Seq(Bytes)
           /\ Framing(p)[k] = IF k = 0 THEN <<"SOF">> ELSE Framing(p)[k - 1] \o Escaped(p[k])
<1> DEFINE Step == [x \in Seq(Bytes) \X PayloadBytes |-> x[1] \o Escaped(x[2])]
<1>1. Step \in [Seq(Bytes) \X PayloadBytes -> Seq(Bytes)]
  BY EscapedBytes, ConcatProperties
<1>3. /\ Len(p) \in Nat
      /\ \A k \in 1 .. Len(p) : p[k] \in PayloadBytes /\ k - 1 \in 0 .. Len(p)
  BY LenProperties, ElementOfSeq
<1> DEFINE start == <<"SOF">>
           Is(g) == g = [k \in 0 .. Len(p) |-> IF k = 0 THEN <<"SOF">>
                                               ELSE g[k - 1] \o Escaped(p[k])]
<1>2. start \in Seq(Bytes)
  BY DEF Bytes, Delimiters
<1>4. ASSUME NEW g, \A k \in 0 .. Len(p) : g[k] \in Seq(Bytes),
             NEW k \in 1 .. Len(p)
      PROVE  Step[<<g[k - 1], p[k]>>] = g[k - 1] \o Escaped(p[k])
  BY <1>3, <1>4
<1>. HIDE DEF Step
<1>5. PICK f \in [0 .. Len(p) -> Seq(Bytes)] : Rounds(f, Step, start, p)
  <2>. HIDE DEF start
  <2>. QED BY <1>1, <1>2, LoopExists
<1>6. Is(f)
  <2>1. \A k \in 0 .. Len(p) : f[k] = IF k = 0 THEN <<"SOF">> ELSE f[k - 1] \o Escaped(p[k])
    <3>. TAKE k \in 0 .. Len(p)
    <3>1. CASE k = 0
      BY <1>5, <3>1 DEF Rounds
    <3>2. CASE k # 0
      <4>1. k \in 1 .. Len(p)
        BY <1>3, <3>2
      <4>2. f[k] = Step[<<f[k - 1], p[k]>>]
        BY <1>5, <3>2 DEF Rounds
      <4>3. Step[<<f[k - 1], p[k]>>] = f[k - 1] \o Escaped(p[k])
        BY <1>4, <1>5, <4>1
      <4>. QED BY <3>2, <4>2, <4>3
    <3>. QED BY <3>1, <3>2
  <2>. QED BY <2>1
<1>7. Framing(p) = CHOOSE g : Is(g)
  BY DEF Framing
<1>8. Is(Framing(p))
  <2>. HIDE DEF Is
  <2>. QED BY <1>6, <1>7
<1> DEFINE out == Framing(p)
<1>. HIDE DEF out
<1>9. \A k \in 0 .. Len(p) : out[k] = IF k = 0 THEN <<"SOF">> ELSE out[k - 1] \o Escaped(p[k])
  BY <1>8 DEF out
<1>10. \A k \in 0 .. Len(p) : out[k] \in Seq(Bytes)
  <2> DEFINE T == {k \in 0 .. Len(p) : out[k] \in Seq(Bytes)}
  <2>1. 0 \in T
    <3>1. 0 \in 0 .. Len(p)
      BY <1>3
    <3>2. out[0] = start
      BY <1>9, <3>1
    <3>. QED BY <1>2, <3>1, <3>2
  <2>2. ASSUME NEW k \in 0 .. Len(p) - 1, k \in T PROVE k + 1 \in T
    <3> DEFINE m == k + 1
    <3>1. m \in 1 .. Len(p) /\ m \in 0 .. Len(p) /\ m # 0 /\ m - 1 = k
      BY <1>3
    <3>. HIDE DEF m
    <3>2. out[m] = out[k] \o Escaped(p[m])
      BY <1>9, <3>1
    <3>3. Escaped(p[m]) \in Seq(Bytes)
      BY <1>3, <3>1, EscapedBytes
    <3>4. out[m] \in Seq(Bytes)
      BY <2>2, <3>2, <3>3, ConcatProperties
    <3>. QED BY <3>1, <3>4 DEF m
  <2>3. 0 .. Len(p) \subseteq T
    <3>. HIDE DEF T
    <3>. QED BY <1>3, <2>1, <2>2, UpTo
  <2>. QED BY <2>3
<1>. QED BY <1>10, <1>9 DEF out

-----------------------------------------------------------------------------
(* The tags of a frame. *)

\* A byte of the stream that framing makes of the frames sent: byte h of what the
\* framer wrote at place j of frame k.  Place 0 is the first delimiter, the last
\* place the second one.
Tags == [k : Nat, j : Nat, h : {1, 2}]
Tag(k, j, h) == [k |-> k, j |-> j, h |-> h]

Twice(c) == c \in {"END", "ESC"}

OfFrame(p, t) == /\ t.j \in 0 .. Len(p) + 1
                 /\ t.h = 2 => t.j \in 1 .. Len(p) /\ Twice(p[t.j])

CodeAt(p, t) == IF t.j = 0 THEN "SOF"
                ELSE IF t.j > Len(p) THEN "EOF"
                ELSE Escaped(p[t.j])[t.h]

Successor(p, t) == IF t.j > Len(p) THEN Tag(t.k + 1, 0, 1)
                   ELSE IF t.j > 0 /\ Twice(p[t.j]) /\ t.h = 1 THEN Tag(t.k, t.j, 2)
                   ELSE Tag(t.k, t.j + 1, 1)

Follows(p, k, c, t, next) == /\ t.k = k
                             /\ OfFrame(p, t)
                             /\ c = CodeAt(p, t)
                             /\ next = Successor(p, t)

\* f tags the bytes that q begins frame k with, and the one after them.
Tagged(p, k, q, f, next) ==
  /\ f[1] = Tag(k, 0, 1)
  /\ f[Len(q) + 1] = next
  /\ \A i \in 1 .. Len(q) : Follows(p, k, q[i], f[i], f[i + 1])

LEMMA TagType ==
  ASSUME NEW k \in Nat, NEW j \in Nat, NEW h \in {1, 2}
  PROVE  Tag(k, j, h) \in Tags /\ Tag(k, j, h).k = k /\ Tag(k, j, h).j = j /\ Tag(k, j, h).h = h
BY DEF Tag, Tags

LEMMA TagOneMore ==
  ASSUME NEW p, NEW k \in Nat, NEW q \in Seq(Bytes), NEW f \in [Nat -> Tags], NEW t \in Tags,
         Tagged(p, k, q, f, t), NEW c \in Bytes, NEW next \in Tags,
         Follows(p, k, c, t, next)
  PROVE  \E g \in [Nat -> Tags] : Tagged(p, k, Append(q, c), g, next)
<1> DEFINE n == Len(q)
           g == [f EXCEPT ![n + 2] = next]
           r == Append(q, c)
<1>1. n \in Nat /\ Len(r) = n + 1 /\ r[n + 1] = c /\ \A i \in 1 .. n : r[i] = q[i]
  BY AppendProperties, LenProperties
<1>. HIDE DEF n, r
<1>2. /\ g \in [Nat -> Tags] /\ g[n + 2] = next
      /\ \A i \in 1 .. n + 1 : g[i] = f[i]
  BY <1>1
<1>. HIDE DEF g
<1>3. f[n + 1] = t /\ f[1] = Tag(k, 0, 1) /\ \A i \in 1 .. n : Follows(p, k, q[i], f[i], f[i + 1])
  BY DEF Tagged, n
<1>4. ASSUME NEW i \in 1 .. n + 1 PROVE Follows(p, k, r[i], g[i], g[i + 1])
  <2>1. CASE i = n + 1
    <3>1. g[i] = t /\ g[i + 1] = next /\ r[i] = c
      BY <1>1, <1>2, <1>3, <2>1
    <3>. QED BY <3>1
  <2>2. CASE i # n + 1
    <3>1. i \in 1 .. n /\ i + 1 \in 1 .. n + 1 /\ i \in 1 .. n + 1
      BY <1>1, <2>2
    <3>2. g[i] = f[i] /\ g[i + 1] = f[i + 1] /\ r[i] = q[i]
      BY <1>1, <1>2, <3>1
    <3>. QED BY <1>3, <3>1, <3>2
  <2>. QED BY <2>1, <2>2
<1>5. g[1] = Tag(k, 0, 1) /\ g[Len(r) + 1] = next
  BY <1>1, <1>2, <1>3
<1>6. Tagged(p, k, r, g, next)
  BY <1>1, <1>4, <1>5 DEF Tagged
<1>. QED BY <1>2, <1>6 DEF r

LEMMA AppendTwo ==
  ASSUME NEW q \in Seq(Bytes), NEW a \in Bytes, NEW b \in Bytes
  PROVE  q \o <<a, b>> = Append(Append(q, a), b) /\ Append(q, a) \in Seq(Bytes)
<1>1. Append(q, a) \in Seq(Bytes)
  BY AppendProperties
<1>2. Append(q, a) = q \o <<a>> /\ Append(Append(q, a), b) = Append(q, a) \o <<b>>
  BY <1>1, AppendIsConcat
<1>3. <<a>> \in Seq(Bytes) /\ <<b>> \in Seq(Bytes) /\ <<a>> \o <<b>> = <<a, b>>
  <2>1. <<a>> \in Seq(Bytes) /\ <<b>> \in Seq(Bytes) /\ <<a, b>> \in Seq(Bytes)
    OBVIOUS
  <2> DEFINE r == <<a>> \o <<b>>
  <2>2. r \in Seq(Bytes) /\ Len(r) = 2 /\ r[1] = a /\ r[2] = b
    BY <2>1, ConcatProperties
  <2>. HIDE DEF r
  <2>3. r = <<a, b>>
    BY <2>1, <2>2, SeqEqual
  <2>. QED BY <2>1, <2>3 DEF r
<1>4. (q \o <<a>>) \o <<b>> = q \o (<<a>> \o <<b>>)
  BY <1>3, ConcatAssociative
<1>. QED BY <1>1, <1>2, <1>3, <1>4

\* One byte of the payload.
LEMMA TagEscaped ==
  ASSUME NEW p \in Seq(PayloadBytes), NEW k \in Nat, NEW q \in Seq(Bytes),
         NEW f \in [Nat -> Tags], NEW m \in 1 .. Len(p), Tagged(p, k, q, f, Tag(k, m, 1))
  PROVE  \E g \in [Nat -> Tags] : Tagged(p, k, q \o Escaped(p[m]), g, Tag(k, m + 1, 1))
<1> DEFINE c == p[m]
<1>1. c \in PayloadBytes /\ m \in Nat /\ Len(p) \in Nat /\ m > 0 /\ ~(m > Len(p))
  BY LenProperties, ElementOfSeq
<1>2. /\ Tag(k, m, 1) \in Tags /\ Tag(k, m, 2) \in Tags /\ Tag(k, m + 1, 1) \in Tags
      /\ Tag(k, m, 1).k = k /\ Tag(k, m, 1).j = m /\ Tag(k, m, 1).h = 1
      /\ Tag(k, m, 2).k = k /\ Tag(k, m, 2).j = m /\ Tag(k, m, 2).h = 2
  BY <1>1, TagType
<1>3. CodeAt(p, Tag(k, m, 1)) = Escaped(c)[1] /\ CodeAt(p, Tag(k, m, 2)) = Escaped(c)[2]
  BY <1>1, <1>2 DEF CodeAt
<1>4. CASE Twice(c)
  <2>1. PICK b \in Bytes : Escaped(c) = <<"ESC", b>>
    BY <1>4 DEF Twice, Escaped, Bytes, PayloadBytes
  <2>2. "ESC" \in Bytes
    BY DEF Bytes, PayloadBytes
  <2>3. Follows(p, k, "ESC", Tag(k, m, 1), Tag(k, m, 2))
    BY <1>1, <1>2, <1>3, <1>4, <2>1 DEF Follows, OfFrame, Successor
  <2>4. Follows(p, k, b, Tag(k, m, 2), Tag(k, m + 1, 1))
    BY <1>1, <1>2, <1>3, <1>4, <2>1 DEF Follows, OfFrame, Successor
  <2>5. PICK g \in [Nat -> Tags] : Tagged(p, k, Append(q, "ESC"), g, Tag(k, m, 2))
    BY <1>2, <2>2, <2>3, TagOneMore
  <2>6. \E h \in [Nat -> Tags] : Tagged(p, k, Append(Append(q, "ESC"), b), h, Tag(k, m + 1, 1))
    BY <1>2, <2>2, <2>4, <2>5, AppendTwo, TagOneMore
  <2>. QED BY <2>1, <2>2, <2>6, AppendTwo
<1>5. CASE ~Twice(c)
  <2>1. Escaped(c) = <<c>> /\ c \in Bytes
    BY <1>1, <1>5 DEF Twice, Escaped, Bytes
  <2>2. Follows(p, k, c, Tag(k, m, 1), Tag(k, m + 1, 1))
    BY <1>1, <1>2, <1>3, <1>5, <2>1 DEF Follows, OfFrame, Successor
  <2>3. q \o Escaped(c) = Append(q, c)
    BY <2>1, AppendIsConcat
  <2>. HIDE DEF c
  <2>4. \E g \in [Nat -> Tags] : Tagged(p, k, Append(q, c), g, Tag(k, m + 1, 1))
    BY <1>2, <2>1, <2>2, TagOneMore
  <2>. QED BY <2>3, <2>4 DEF c
<1>. QED BY <1>4, <1>5

LEMMA FrameTags ==
  ASSUME NEW p \in Seq(PayloadBytes), NEW k \in Nat
  PROVE  /\ slip_framer(p) \in Seq(Bytes)
         /\ \E f \in [Nat -> Tags] : Tagged(p, k, slip_framer(p), f, Tag(k + 1, 0, 1))
<1> DEFINE out == Framing(p)
           T == {n \in 0 .. Len(p) : \E f \in [Nat -> Tags] : Tagged(p, k, out[n], f, Tag(k, n + 1, 1))}
<1>1. \A n \in 0 .. Len(p) : /\ out[n] \in Seq(Bytes)
                             /\ out[n] = IF n = 0 THEN <<"SOF">> ELSE out[n - 1] \o Escaped(p[n])
  BY FramingLoop
<1>2. Len(p) \in Nat
  BY LenProperties
<1>. HIDE DEF out
<1>3. 0 \in T
  <2> DEFINE f == [i \in Nat |-> Tag(k, 0, 1)]
  <2>1. Tag(k, 0, 1) \in Tags /\ Tag(k, 1, 1) \in Tags
    BY TagType
  <2>2. f \in [Nat -> Tags] /\ Tagged(p, k, << >>, f, Tag(k, 0, 1))
    BY <2>1, EmptySeq DEF Tagged
  <2>3. Follows(p, k, "SOF", Tag(k, 0, 1), Tag(k, 1, 1))
    BY <1>2, TagType DEF Follows, OfFrame, CodeAt, Successor
  <2>4. "SOF" \in Bytes /\ << >> \in Seq(Bytes)
    BY DEF Bytes, Delimiters
  <2>5. PICK g \in [Nat -> Tags] : Tagged(p, k, Append(<< >>, "SOF"), g, Tag(k, 1, 1))
    <3>. HIDE DEF f
    <3>. QED BY <2>1, <2>2, <2>3, <2>4, TagOneMore
  <2>6. Append(<< >>, "SOF") = <<"SOF">>
    OBVIOUS
  <2>7. out[0] = <<"SOF">> /\ 0 \in 0 .. Len(p)
    BY <1>1, <1>2
  <2>. QED BY <2>5, <2>6, <2>7
<1>4. ASSUME NEW n \in 0 .. Len(p) - 1, n \in T PROVE n + 1 \in T
  <2> DEFINE m == n + 1
  <2>1. m \in 1 .. Len(p) /\ m \in 0 .. Len(p) /\ m # 0 /\ m - 1 = n /\ n \in 0 .. Len(p)
    BY <1>2
  <2>2. PICK f \in [Nat -> Tags] : Tagged(p, k, out[n], f, Tag(k, m, 1))
    BY <1>4
  <2>. HIDE DEF m
  <2>3. out[m] = out[n] \o Escaped(p[m]) /\ out[n] \in Seq(Bytes)
    BY <1>1, <2>1
  <2>4. \E g \in [Nat -> Tags] : Tagged(p, k, out[m], g, Tag(k, m + 1, 1))
    BY <2>1, <2>2, <2>3, TagEscaped
  <2>5. m \in T
    BY <2>1, <2>4
  <2>. QED BY <2>5 DEF m
<1>5. Len(p) \in T
  <2>. HIDE DEF T
  <2>1. 0 .. Len(p) \subseteq T
    BY <1>2, <1>3, <1>4, UpTo
  <2>. QED BY <1>2, <2>1
<1>6. PICK f \in [Nat -> Tags] : Tagged(p, k, out[Len(p)], f, Tag(k, Len(p) + 1, 1))
  BY <1>5
<1>7. Follows(p, k, "EOF", Tag(k, Len(p) + 1, 1), Tag(k + 1, 0, 1))
  BY <1>2, TagType DEF Follows, OfFrame, CodeAt, Successor
<1>8. "EOF" \in Bytes /\ out[Len(p)] \in Seq(Bytes)
  BY <1>1, <1>2 DEF Bytes, Delimiters
<1>9. slip_framer(p) = Append(out[Len(p)], "EOF")
  BY <1>8, AppendIsConcat DEF slip_framer, out
<1>10. Tag(k, Len(p) + 1, 1) \in Tags /\ Tag(k + 1, 0, 1) \in Tags
  BY <1>2, TagType
<1>. QED BY <1>6, <1>7, <1>8, <1>9, <1>10, TagOneMore, AppendProperties

-----------------------------------------------------------------------------
(* The cases of the switch, and the rounds of the while loop. *)

Rets == {"more", "frame", "EOVERFLOW", "EINVAL"}
Rounds0 == [d : Deframers, ret : Rets, used : Nat]

Stopped(d) == [d EXCEPT !.state = "INIT"]

\* The cases of the switch.
LEMMA ByteIs ==
  ASSUME NEW d, NEW c \in Bytes
  PROVE  /\ d.state = "FIND_SOF" =>
              Byte(d, c) = [d |-> IF c \in Delimiters THEN [d EXCEPT !.state = "FIND_EOF"] ELSE d,
                            ret |-> "more"]
         /\ d.state = "FIND_EOF" /\ OutFull(d) => Byte(d, c) = [d |-> Stopped(d), ret |-> "EOVERFLOW"]
         /\ d.state # "FIND_SOF" /\ ~(d.state = "FIND_EOF" /\ OutFull(d)) =>
              /\ c \in Delimiters => Byte(d, c) = [d |-> Stopped(d), ret |-> "frame"]
              /\ c = "ESC" => Byte(d, c) = [d |-> [d EXCEPT !.get_escaped = TRUE], ret |-> "more"]
              /\ c \in {"ESC_ESC", "ESC_END", "DATA", "END"} /\ ~d.get_escaped =>
                   Byte(d, c) = [d |-> Put(d, c), ret |-> "more"]
              /\ d.get_escaped =>
                   /\ c = "ESC_ESC" => Byte(d, c) = [d |-> Put(d, "ESC"), ret |-> "more"]
                   /\ c = "ESC_END" => Byte(d, c) = [d |-> Put(d, "END"), ret |-> "more"]
                   /\ c \in {"DATA", "END"} => Byte(d, c) = [d |-> Stopped(d), ret |-> "EINVAL"]
<1>1. CASE d.state = "FIND_SOF"
  BY <1>1 DEF Byte
<1>2. CASE d.state = "FIND_EOF" /\ OutFull(d)
  BY <1>2 DEF Byte, Stopped
<1>3. CASE d.state # "FIND_SOF" /\ ~(d.state = "FIND_EOF" /\ OutFull(d))
  <2>1. CASE c \in Delimiters
    BY <1>3, <2>1 DEF Byte, Stopped, Delimiters
  <2>2. CASE c = "ESC"
    BY <1>3, <2>2 DEF Byte, Delimiters
  <2>3. CASE c = "ESC_ESC"
    BY <1>3, <2>3 DEF Byte, Delimiters
  <2>4. CASE c = "ESC_END"
    BY <1>3, <2>4 DEF Byte, Delimiters
  <2>5. CASE c \in {"DATA", "END"}
    BY <1>3, <2>5 DEF Byte, Stopped, Delimiters
  <2>. QED BY <1>3, <2>1, <2>2, <2>3, <2>4, <2>5 DEF Bytes, PayloadBytes, Delimiters
<1>. QED BY <1>1, <1>2, <1>3

LEMMA ByteTypes ==
  ASSUME NEW d \in Deframers, NEW c \in Bytes
  PROVE  Byte(d, c).d \in Deframers /\ Byte(d, c).ret \in Rets
<1>1. Stopped(d) \in Deframers
  BY DEF Deframers, Stopped
<1>2. [d EXCEPT !.state = "FIND_EOF"] \in Deframers
  BY DEF Deframers
<1>3. [d EXCEPT !.get_escaped = TRUE] \in Deframers
  BY DEF Deframers
<1>4. ASSUME NEW e \in Bytes PROVE Put(d, e) \in Deframers
  <2>1. d.out \in Seq(Bytes)
    BY DEF Deframers
  <2>2. Append(d.out, e) \in Seq(Bytes)
    BY <2>1, AppendProperties
  <2>. QED BY <2>2 DEF Put, Deframers
<1>5. "ESC" \in Bytes /\ "END" \in Bytes
  BY DEF Bytes, PayloadBytes
<1>6. CASE d.state = "FIND_SOF"
  BY <1>2, <1>6, ByteIs DEF Rets
<1>7. CASE d.state = "FIND_EOF" /\ OutFull(d)
  BY <1>1, <1>7, ByteIs DEF Rets
<1>8. CASE d.state # "FIND_SOF" /\ ~(d.state = "FIND_EOF" /\ OutFull(d))
  <2>1. CASE c \in Delimiters
    BY <1>1, <1>8, <2>1, ByteIs DEF Rets
  <2>2. CASE c = "ESC"
    <3>1. Byte(d, c) = [d |-> [d EXCEPT !.get_escaped = TRUE], ret |-> "more"]
      BY <1>8, <2>2, ByteIs
    <3>. QED BY <1>3, <3>1 DEF Rets
  <2>3. CASE c \in {"ESC_ESC", "ESC_END"}
    <3>1. \E e \in Bytes : Byte(d, c) = [d |-> Put(d, e), ret |-> "more"]
      BY <1>5, <1>8, <2>3, ByteIs
    <3>. QED BY <1>4, <3>1 DEF Rets
  <2>4. CASE c \in {"DATA", "END"}
    <3>1. \/ Byte(d, c) = [d |-> Put(d, c), ret |-> "more"]
          \/ Byte(d, c) = [d |-> Stopped(d), ret |-> "EINVAL"]
      BY <1>8, <2>4, ByteIs
    <3>. QED BY <1>1, <1>4, <3>1 DEF Rets
  <2>. QED BY <2>1, <2>2, <2>3, <2>4 DEF Bytes, PayloadBytes
<1>. QED BY <1>6, <1>7, <1>8

LEMMA StartTypes ==
  ASSUME NEW d \in Deframers
  PROVE  /\ Start(d) \in Deframers
         /\ Start(d).state # "INIT"
         /\ d.state # "INIT" => Start(d) = d
         /\ d.state = "INIT" => /\ Start(d).state = "FIND_SOF"
                                /\ Start(d).out = << >> /\ ~Start(d).get_escaped
BY EmptySeq DEF Start, Deframers

LEMMA LoopRounds ==
  ASSUME NEW d \in Deframers
  PROVE  \A n \in 0 .. Len(d.fifo) :
           /\ Loop(d)[n] \in Rounds0
           /\ Loop(d)[n] = IF n = 0 THEN [d |-> Start(d), ret |-> "more", used |-> 0]
                                    ELSE LoopStep(Loop(d)[n - 1], d.fifo[n])
<1> DEFINE s == d.fifo
           start == [d |-> Start(d), ret |-> "more", used |-> 0]
           Step == [x \in Rounds0 \X Bytes |-> LoopStep(x[1], x[2])]
           Is(g) == g = [n \in 0 .. Len(s) |-> IF n = 0 THEN start ELSE LoopStep(g[n - 1], s[n])]
<1>1. s \in Seq(Bytes)
  BY DEF Deframers
<1>2. Len(s) \in Nat /\ \A n \in 1 .. Len(s) : s[n] \in Bytes /\ n - 1 \in 0 .. Len(s)
  BY <1>1, LenProperties, ElementOfSeq
<1>3. start \in Rounds0
  BY StartTypes DEF Rounds0, Rets
<1>4. ASSUME NEW acc \in Rounds0, NEW c \in Bytes PROVE LoopStep(acc, c) \in Rounds0
  <2>1. acc.d \in Deframers /\ acc.used + 1 \in Nat
    BY DEF Rounds0
  <2>2. Byte(acc.d, c).d \in Deframers /\ Byte(acc.d, c).ret \in Rets
    BY <2>1, ByteTypes
  <2>. QED BY <2>1, <2>2 DEF LoopStep, Rounds0
<1>5. Step \in [Rounds0 \X Bytes -> Rounds0]
  BY <1>4
<1>6. \A acc \in Rounds0, c \in Bytes : Step[<<acc, c>>] = LoopStep(acc, c)
  OBVIOUS
<1>7. Loop(d) = CHOOSE g : Is(g)
  BY DEF Loop
<1>. HIDE DEF s, Step, start
<1>8. PICK f \in [0 .. Len(s) -> Rounds0] : Rounds(f, Step, start, s)
  BY <1>1, <1>3, <1>5, LoopExists
<1>9. Is(f)
  <2>1. \A n \in 0 .. Len(s) : f[n] = IF n = 0 THEN start ELSE LoopStep(f[n - 1], s[n])
    <3>. TAKE n \in 0 .. Len(s)
    <3>1. CASE n = 0
      BY <1>8, <3>1 DEF Rounds
    <3>2. CASE n # 0
      <4>1. n \in 1 .. Len(s) /\ f[n - 1] \in Rounds0 /\ s[n] \in Bytes
        BY <1>2, <3>2
      <4>2. f[n] = Step[<<f[n - 1], s[n]>>]
        BY <1>8, <3>2 DEF Rounds
      <4>. QED BY <1>6, <3>2, <4>1, <4>2
    <3>. QED BY <3>1, <3>2
  <2>. QED BY <2>1
<1>10. Is(Loop(d))
  <2>. HIDE DEF Is
  <2>. QED BY <1>7, <1>9
<1> DEFINE r == Loop(d)
<1>. HIDE DEF r
<1>11. \A n \in 0 .. Len(s) : r[n] = IF n = 0 THEN start ELSE LoopStep(r[n - 1], s[n])
  BY <1>10 DEF r
<1>12. \A n \in 0 .. Len(s) : r[n] \in Rounds0
  <2> DEFINE T == {n \in 0 .. Len(s) : r[n] \in Rounds0}
  <2>1. 0 \in T
    <3>1. 0 \in 0 .. Len(s)
      BY <1>2
    <3>. QED BY <1>3, <1>11, <3>1
  <2>2. ASSUME NEW k \in 0 .. Len(s) - 1, k \in T PROVE k + 1 \in T
    <3> DEFINE m == k + 1
    <3>1. m \in 1 .. Len(s) /\ m \in 0 .. Len(s) /\ m # 0 /\ m - 1 = k
      BY <1>2
    <3>. HIDE DEF m
    <3>2. r[m] = LoopStep(r[k], s[m]) /\ s[m] \in Bytes
      BY <1>2, <1>11, <3>1
    <3>3. r[m] \in Rounds0
      BY <1>4, <2>2, <3>2
    <3>. QED BY <3>1, <3>3 DEF m
  <2>3. 0 .. Len(s) \subseteq T
    <3>. HIDE DEF T
    <3>. QED BY <1>2, <2>1, <2>2, UpTo
  <2>. QED BY <2>3
<1>. QED BY <1>11, <1>12 DEF r, s, start

\* What the buffer may hold.
Bounded(d) == d.out \in Seq(PayloadBytes) /\ Len(d.out) =< BufOutMax

LEMMA PutBounded ==
  ASSUME NEW d \in Deframers, Bounded(d), ~OutFull(d), NEW e \in PayloadBytes
  PROVE  /\ Bounded(Put(d, e))
         /\ Put(d, e).state = d.state
         /\ Put(d, e).out = Append(d.out, e)
         /\ Put(d, e).get_escaped = FALSE
<1>1. /\ Put(d, e).out = Append(d.out, e)
      /\ Put(d, e).state = d.state
      /\ Put(d, e).get_escaped = FALSE
  BY DEF Put, Deframers
<1>2. /\ Append(d.out, e) \in Seq(PayloadBytes)
      /\ Len(Append(d.out, e)) = Len(d.out) + 1
      /\ Len(d.out) \in Nat
  BY AppendProperties, LenProperties DEF Bounded
<1>3. Len(d.out) + 1 =< BufOutMax
  BY <1>2, SlipAssumption DEF Bounded, OutFull
<1>. QED BY <1>1, <1>2, <1>3 DEF Bounded

LEMMA ByteBounded ==
  ASSUME NEW d \in Deframers, Bounded(d), d.state # "INIT", NEW c \in Bytes
  PROVE  /\ Bounded(Byte(d, c).d)
         /\ Byte(d, c).ret = "more" => Byte(d, c).d.state # "INIT"
         /\ Byte(d, c).ret # "more" => Byte(d, c).d = Stopped(d)
<1>1. Bounded(Stopped(d))
  BY DEF Bounded, Stopped, Deframers
<1>2. CASE d.state = "FIND_SOF"
  <2> DEFINE e == IF c \in Delimiters THEN [d EXCEPT !.state = "FIND_EOF"] ELSE d
  <2>1. Byte(d, c) = [d |-> e, ret |-> "more"]
    BY <1>2, ByteIs
  <2>2. Bounded(e) /\ e.state # "INIT"
    BY <1>2 DEF Bounded, Deframers
  <2>. HIDE DEF e
  <2>. QED BY <2>1, <2>2
<1>3. CASE d.state = "FIND_EOF" /\ OutFull(d)
  <2>1. Byte(d, c) = [d |-> Stopped(d), ret |-> "EOVERFLOW"]
    BY <1>3, ByteIs
  <2>. QED BY <1>1, <2>1
<1>4. CASE d.state = "FIND_EOF" /\ ~OutFull(d)
  <2>1. CASE c \in Delimiters
    <3>1. Byte(d, c) = [d |-> Stopped(d), ret |-> "frame"]
      BY <1>4, <2>1, ByteIs
    <3>. QED BY <1>1, <3>1
  <2>2. CASE c = "ESC"
    <3> DEFINE e == [d EXCEPT !.get_escaped = TRUE]
    <3>1. Byte(d, c) = [d |-> e, ret |-> "more"]
      BY <1>4, <2>2, ByteIs
    <3>2. Bounded(e) /\ e.state # "INIT"
      BY <1>4 DEF Bounded, Deframers
    <3>. HIDE DEF e
    <3>. QED BY <3>1, <3>2
  <2>3. CASE c \in PayloadBytes \ {"ESC"}
    <3>1. \/ \E e \in PayloadBytes : Byte(d, c) = [d |-> Put(d, e), ret |-> "more"]
          \/ Byte(d, c) = [d |-> Stopped(d), ret |-> "EINVAL"]
      <4>1. CASE c \in {"ESC_ESC", "ESC_END"}
        BY <1>4, <4>1, ByteIs DEF PayloadBytes
      <4>2. CASE c \in {"DATA", "END"}
        BY <1>4, <4>2, ByteIs DEF PayloadBytes
      <4>. QED BY <2>3, <4>1, <4>2 DEF PayloadBytes
    <3>2. CASE Byte(d, c) = [d |-> Stopped(d), ret |-> "EINVAL"]
      BY <1>1, <3>2
    <3>3. ASSUME NEW e \in PayloadBytes, Byte(d, c) = [d |-> Put(d, e), ret |-> "more"]
          PROVE  Bounded(Byte(d, c).d) /\ Byte(d, c).ret = "more" /\ Byte(d, c).d.state # "INIT"
      <4>1. Bounded(Put(d, e)) /\ Put(d, e).state # "INIT"
        BY <1>4, PutBounded
      <4>. QED BY <3>3, <4>1
    <3>. QED BY <3>1, <3>2, <3>3
  <2>. QED BY <2>1, <2>2, <2>3 DEF Bytes
<1>. QED BY <1>2, <1>3, <1>4 DEF Deframers

-----------------------------------------------------------------------------
(* The deframer and the stream. *)

\* Between two frames, or inside frame p: where the next byte belongs.
Between(d, t) == t.j = 0 /\ d.out = << >> /\ ~d.get_escaped
Inside(p, d, t) == /\ t.j \in 1 .. Len(p) + 1
                   /\ d.out = SubSeq(p, 1, t.j - 1)
                   /\ (d.get_escaped <=> t.h = 2)

\* What the deframer's state says of t, the tag of the next byte.
Matched(s, d, t) ==
  /\ d.state = "FIND_SOF" => d.out = << >> /\ ~d.get_escaped
  /\ d.state = "FIND_EOF" => Between(d, t) \/ (t.k \in 1 .. Len(s) /\ Inside(s[t.k], d, t))

\* It takes the first delimiter of a frame for the first one.
InStep(d, t) == IF d.state = "FIND_EOF" THEN t.j # 0 ELSE t.j = 0

\* c is the byte with tag t, and next the tag after it.
Moves(s, c, t, next) == t.k \in 1 .. Len(s) /\ Follows(s[t.k], t.k, c, t, next)

Frames == Seq(Seq(PayloadBytes))

LEMMA FrameOf ==
  ASSUME NEW s \in Frames, NEW t \in Tags, NEW c, NEW next, Moves(s, c, t, next)
  PROVE  /\ t.k \in Nat /\ t.j \in Nat /\ t.h \in {1, 2}
         /\ s[t.k] \in Seq(PayloadBytes) /\ Len(s[t.k]) \in Nat
         /\ t.j \in 0 .. Len(s[t.k]) + 1
         /\ c = CodeAt(s[t.k], t) /\ next = Successor(s[t.k], t)
         /\ t.j \in 1 .. Len(s[t.k]) => s[t.k][t.j] \in PayloadBytes
<1>1. s[t.k] \in Seq(PayloadBytes)
  BY ElementOfSeq DEF Moves, Frames
<1>. QED BY <1>1, LenProperties, ElementOfSeq DEF Moves, Follows, OfFrame, Tags

\* A payload byte is never sent as a delimiter.
LEMMA DelimiterAt ==
  ASSUME NEW s \in Frames, NEW t \in Tags, NEW c, NEW next, Moves(s, c, t, next)
  PROVE  c \in Delimiters <=> t.j = 0 \/ t.j = Len(s[t.k]) + 1
<1>1. CASE t.j = 0 \/ t.j = Len(s[t.k]) + 1
  BY <1>1, FrameOf DEF CodeAt, Delimiters
<1>2. CASE t.j \in 1 .. Len(s[t.k])
  <2> DEFINE x == s[t.k][t.j]
  <2>1. c = Escaped(x)[t.h] /\ x \in PayloadBytes /\ (t.h = 2 => Twice(x)) /\ t.h \in {1, 2}
    BY <1>2, FrameOf DEF CodeAt, Moves, Follows, OfFrame
  <2>. HIDE DEF x
  <2>2. c \notin Delimiters
    BY <2>1, EscapedBytes DEF Delimiters, PayloadBytes, Twice
  <2>. QED BY <1>2, <2>2, FrameOf
<1>. QED BY <1>1, <1>2, FrameOf

\* With the byte at place t.j of the frame complete, the buffer holds one more.
LEMMA Grows ==
  ASSUME NEW p \in Seq(PayloadBytes), NEW m \in 1 .. Len(p)
  PROVE  Append(SubSeq(p, 1, m - 1), p[m]) = SubSeq(p, 1, m)
<1>1. Len(p) \in Nat /\ \A i \in 1 .. Len(p) : p[i] \in PayloadBytes
  BY LenProperties, ElementOfSeq
<1>2. SubSeq(p, 1, m) = SubSeq(p, 1, m - 1) \o <<p[m]>>
  BY <1>1, SubSeqRecursiveSecond
<1>3. SubSeq(p, 1, m - 1) \in Seq(PayloadBytes)
  BY <1>1, SubSeqProperties
<1>. QED BY <1>1, <1>2, <1>3, AppendIsConcat

LEMMA FirstDelimiter ==
  ASSUME NEW s \in Frames, NEW d \in Deframers, NEW t \in Tags, NEW c \in Bytes, NEW next,
         Moves(s, c, t, next), Matched(s, d, t), d.state = "FIND_SOF"
  PROVE  /\ Byte(d, c).ret = "more"
         /\ Matched(s, Byte(d, c).d, next)
         /\ InStep(d, t) => InStep(Byte(d, c).d, next) /\ next.k = t.k
<1> DEFINE p == s[t.k]
           e == IF c \in Delimiters THEN [d EXCEPT !.state = "FIND_EOF"] ELSE d
<1>1. Byte(d, c) = [d |-> e, ret |-> "more"]
  BY ByteIs
<1>2. /\ t.k \in Nat /\ t.j \in 0 .. Len(p) + 1 /\ Len(p) \in Nat /\ p \in Seq(PayloadBytes)
      /\ next = Successor(p, t) /\ t.k \in 1 .. Len(s)
  BY FrameOf DEF Moves
<1>3. c \in Delimiters <=> t.j = 0 \/ t.j = Len(p) + 1
  BY DelimiterAt
<1>4. d.out = << >> /\ ~d.get_escaped
  BY DEF Matched
<1>. HIDE DEF p
<1>5. CASE t.j = 0
  <2>1. next = Tag(t.k, 1, 1) /\ next.k = t.k /\ next.j = 1 /\ next.h = 1
    BY <1>2, <1>5, TagType DEF Successor
  <2>2. e.state = "FIND_EOF" /\ e.out = << >> /\ ~e.get_escaped /\ e.get_escaped \in BOOLEAN
    BY <1>3, <1>4, <1>5 DEF Deframers
  <2>. HIDE DEF e
  <2>3. SubSeq(p, 1, next.j - 1) = << >>
    BY <2>1, SubSeqEmpty
  <2>4. Inside(p, e, next)
    BY <1>2, <2>1, <2>2, <2>3 DEF Inside
  <2>5. Matched(s, e, next) /\ InStep(e, next)
    BY <1>2, <2>1, <2>2, <2>4 DEF Matched, InStep, p
  <2>. QED BY <1>1, <2>1, <2>5
<1>6. CASE t.j = Len(p) + 1
  <2>1. next = Tag(t.k + 1, 0, 1) /\ next.j = 0
    BY <1>2, <1>6, TagType DEF Successor
  <2>2. e.state = "FIND_EOF" /\ e.out = << >> /\ ~e.get_escaped
    BY <1>3, <1>4, <1>6 DEF Deframers
  <2>. HIDE DEF e
  <2>3. Matched(s, e, next)
    BY <2>1, <2>2 DEF Matched, Between
  <2>4. ~InStep(d, t)
    BY <1>2, <1>6 DEF InStep
  <2>. QED BY <1>1, <2>3, <2>4
<1>7. CASE t.j \notin {0, Len(p) + 1}
  <2>1. e = d
    BY <1>3, <1>7
  <2>2. Matched(s, d, next)
    BY DEF Matched
  <2>3. ~InStep(d, t)
    BY <1>7 DEF InStep
  <2>. HIDE DEF e
  <2>. QED BY <1>1, <2>1, <2>2, <2>3
<1>. QED BY <1>5, <1>6, <1>7

\* A frame is returned when it is complete; out of step with the stream, an empty one.
Returned(s, d, t, next, e) == \/ e.out = << >> /\ ~InStep(d, t)
                              \/ e.out = s[t.k] /\ next = Tag(t.k + 1, 0, 1)

LEMMA ByteInside ==
  ASSUME NEW s \in Frames, NEW d \in Deframers, Bounded(d), NEW t \in Tags, NEW c \in Bytes,
         NEW next, Moves(s, c, t, next), Inside(s[t.k], d, t), t.j =< Len(s[t.k]),
         d.state = "FIND_EOF", ~OutFull(d)
  PROVE  /\ Byte(d, c).ret = "more"
         /\ Matched(s, Byte(d, c).d, next)
         /\ InStep(Byte(d, c).d, next) /\ next.k = t.k
<1> DEFINE p == s[t.k]
           m == t.j
           x == p[m]
           e == Byte(d, c).d
<1>1. /\ t.k \in Nat /\ m \in 1 .. Len(p) /\ Len(p) \in Nat /\ p \in Seq(PayloadBytes)
      /\ m \in Nat /\ t.h \in {1, 2}
      /\ next = Successor(p, t) /\ t.k \in 1 .. Len(s) /\ x \in PayloadBytes
      /\ c = Escaped(x)[t.h] /\ (t.h = 2 => Twice(x))
  BY FrameOf DEF Moves, Inside, CodeAt, Follows, OfFrame
<1>2. d.out = SubSeq(p, 1, m - 1) /\ (d.get_escaped <=> t.h = 2)
  BY DEF Inside
<1>3. ~(m > Len(p)) /\ m > 0
  BY <1>1
<1>. SUFFICES /\ Byte(d, c).ret = "more" /\ e.state = "FIND_EOF"
              /\ next.k = t.k /\ next.j \in 1 .. Len(p) + 1 /\ next.j # 0
              /\ e.out = SubSeq(p, 1, next.j - 1)
              /\ (e.get_escaped <=> next.h = 2)
  <2>. HIDE DEF e
  <2>. QED BY <1>1 DEF Matched, Inside, InStep, e
<1>4. ASSUME Byte(d, c) = [d |-> Put(d, x), ret |-> "more"], next = Tag(t.k, m + 1, 1)
      PROVE  /\ Byte(d, c).ret = "more" /\ e.state = "FIND_EOF"
             /\ next.k = t.k /\ next.j \in 1 .. Len(p) + 1 /\ next.j # 0
             /\ e.out = SubSeq(p, 1, next.j - 1)
             /\ (e.get_escaped <=> next.h = 2)
  <2>1. e = Put(d, x) /\ Byte(d, c).ret = "more"
    BY <1>4
  <2>2. next.k = t.k /\ next.j = m + 1 /\ next.h = 1
    BY <1>1, <1>4, TagType
  <2>3. e.state = "FIND_EOF" /\ e.out = Append(d.out, x) /\ e.get_escaped = FALSE
    BY <1>1, <2>1, PutBounded
  <2>4. e.out = SubSeq(p, 1, m)
    BY <1>1, <1>2, <2>3, Grows
  <2>5. next.j - 1 = m /\ next.j \in 1 .. Len(p) + 1 /\ next.j # 0
    BY <1>1, <2>2
  <2>. HIDE DEF p, m, x, e
  <2>. QED BY <2>1, <2>2, <2>3, <2>4, <2>5
<1>5. CASE Twice(x) /\ t.h = 1
  <2>1. c = "ESC"
    BY <1>1, <1>5, EscapedBytes DEF Twice
  <2>2. Byte(d, c) = [d |-> [d EXCEPT !.get_escaped = TRUE], ret |-> "more"]
    BY <2>1, ByteIs
  <2>3. next = Tag(t.k, m, 2) /\ next.k = t.k /\ next.j = m /\ next.h = 2
    BY <1>1, <1>3, <1>5, TagType DEF Successor
  <2>4. e.state = "FIND_EOF" /\ e.out = d.out /\ e.get_escaped = TRUE
    BY <2>2 DEF Deframers
  <2>5. m \in 1 .. Len(p) + 1 /\ m # 0 /\ Byte(d, c).ret = "more"
    BY <1>1, <2>2
  <2>. HIDE DEF p, m, x, e
  <2>. QED BY <1>2, <2>3, <2>4, <2>5
<1>6. CASE Twice(x) /\ t.h = 2
  <2>1. c = IF x = "END" THEN "ESC_END" ELSE "ESC_ESC"
    BY <1>1, <1>6, EscapedBytes DEF Twice
  <2>2. d.get_escaped
    BY <1>2, <1>6
  <2>3. Byte(d, c) = [d |-> Put(d, x), ret |-> "more"]
    BY <1>6, <2>1, <2>2, ByteIs DEF Twice
  <2>4. next = Tag(t.k, m + 1, 1)
    BY <1>1, <1>3, <1>6 DEF Successor
  <2>. QED BY <1>4, <2>3, <2>4
<1>7. CASE ~Twice(x)
  <2>1. c = x /\ t.h = 1
    BY <1>1, <1>7, EscapedBytes DEF Twice
  <2>2. ~d.get_escaped
    BY <1>2, <2>1
  <2>3. Byte(d, c) = [d |-> Put(d, x), ret |-> "more"]
    BY <1>1, <1>7, <2>1, <2>2, ByteIs DEF Twice, PayloadBytes
  <2>4. next = Tag(t.k, m + 1, 1)
    BY <1>1, <1>3, <1>7 DEF Successor
  <2>. QED BY <1>4, <2>3, <2>4
<1>. QED BY <1>1, <1>5, <1>6, <1>7

LEMMA ByteMatched ==
  ASSUME NEW s \in Frames, NEW d \in Deframers, Bounded(d), d.state # "INIT",
         NEW t \in Tags, NEW c \in Bytes, NEW next,
         Moves(s, c, t, next), Matched(s, d, t)
  PROVE  /\ Byte(d, c).ret = "more" =>
              /\ Matched(s, Byte(d, c).d, next)
              /\ InStep(d, t) => InStep(Byte(d, c).d, next) /\ next.k = t.k
         /\ Byte(d, c).ret = "frame" => Returned(s, d, t, next, Byte(d, c).d)
<1>1. CASE d.state = "FIND_SOF"
  BY <1>1, FirstDelimiter
<1>2. CASE d.state = "FIND_EOF" /\ OutFull(d)
  <2>1. Byte(d, c) = [d |-> Stopped(d), ret |-> "EOVERFLOW"]
    BY <1>2, ByteIs
  <2>. QED BY <2>1
<1>3. CASE d.state = "FIND_EOF" /\ ~OutFull(d)
  <2> DEFINE p == s[t.k]
  <2>1. /\ t.k \in Nat /\ Len(p) \in Nat /\ p \in Seq(PayloadBytes)
        /\ t.j \in 0 .. Len(p) + 1
        /\ next = Successor(p, t) /\ t.k \in 1 .. Len(s)
    BY FrameOf DEF Moves
  <2>2. c \in Delimiters <=> t.j = 0 \/ t.j = Len(p) + 1
    BY DelimiterAt
  <2>3. Between(d, t) \/ Inside(p, d, t)
    BY <1>3 DEF Matched
  <2>4. c \in Delimiters => /\ Byte(d, c).ret = "frame"
                            /\ Byte(d, c).d.out = d.out
    <3>1. c \in Delimiters => Byte(d, c) = [d |-> Stopped(d), ret |-> "frame"]
      BY <1>3, ByteIs
    <3>2. Stopped(d).out = d.out
      BY DEF Stopped, Deframers
    <3>. QED BY <3>1, <3>2
  <2>. HIDE DEF p
  <2>5. CASE Between(d, t)
    <3>1. Byte(d, c).ret = "frame" /\ Byte(d, c).d.out = << >>
      BY <2>2, <2>4, <2>5 DEF Between
    <3>2. ~InStep(d, t)
      BY <1>3, <2>5 DEF Between, InStep
    <3>. QED BY <3>1, <3>2 DEF Returned
  <2>6. CASE Inside(p, d, t) /\ t.j = Len(p) + 1
    <3>1. Byte(d, c).ret = "frame" /\ Byte(d, c).d.out = SubSeq(p, 1, Len(p))
      BY <2>1, <2>2, <2>4, <2>6 DEF Inside
    <3>2. Byte(d, c).d.out = p
      BY <2>1, <3>1, SubSeqFull
    <3>3. next = Tag(t.k + 1, 0, 1)
      BY <2>1, <2>6 DEF Successor
    <3>. QED BY <3>1, <3>2, <3>3 DEF Returned, p
  <2>7. CASE Inside(p, d, t) /\ t.j =< Len(p)
    BY <1>3, <2>7, ByteInside DEF p
  <2>. QED BY <2>1, <2>3, <2>5, <2>6, <2>7 DEF Inside
<1>. QED BY <1>1, <1>2, <1>3 DEF Deframers

-----------------------------------------------------------------------------
(* One call of slip_deframer. *)

\* What the loop has made of d after the first n bytes, tagged from 1 on.
RoundOK(s, d, tag, n, a) ==
  /\ a \in Rounds0 /\ Bounded(a.d) /\ a.used =< n
  /\ a.ret = "more" => /\ a.used = n /\ a.d.state # "INIT"
                       /\ Matched(s, a.d, tag[n + 1])
                       /\ InStep(d, tag[1]) => /\ InStep(a.d, tag[n + 1])
                                                /\ tag[n + 1].k = tag[1].k
  /\ a.ret # "more" => a.d.state = "INIT"
  /\ a.ret = "frame" =>
       /\ a.used # 0
       /\ \/ a.d.out = << >> /\ ~InStep(d, tag[1])
          \/ /\ a.d.out = s[tag[a.used].k]
             /\ tag[a.used + 1] = Tag(tag[a.used].k + 1, 0, 1)
             /\ InStep(d, tag[1]) => tag[a.used].k = tag[1].k

LEMMA FirstRound ==
  ASSUME NEW s \in Frames, NEW d \in Deframers, Bounded(d), NEW tag \in [Nat -> Tags],
         Matched(s, d, tag[1])
  PROVE  RoundOK(s, d, tag, 0, [d |-> Start(d), ret |-> "more", used |-> 0])
<1> DEFINE e == Start(d)
           a == [d |-> e, ret |-> "more", used |-> 0]
           t == tag[1]
<1>1. e \in Deframers /\ e.state # "INIT" /\ 0 + 1 = 1
  BY StartTypes
<1>2. Bounded(e)
  <2>1. << >> \in Seq(PayloadBytes) /\ Len(<< >>) = 0
    BY EmptySeq
  <2>2. CASE d.state = "INIT"
    <3>1. e.out = << >> /\ 0 =< BufOutMax
      BY <2>2, StartTypes, SlipAssumption
    <3>. HIDE DEF e
    <3>. QED BY <2>1, <3>1 DEF Bounded
  <2>3. CASE d.state # "INIT"
    BY <2>3, StartTypes
  <2>. QED BY <2>2, <2>3
<1>3. Matched(s, e, t) /\ (InStep(d, t) => InStep(e, t))
  <2>. HIDE DEF t
  <2>1. CASE d.state = "INIT"
    BY <2>1, StartTypes DEF Matched, InStep
  <2>2. CASE d.state # "INIT"
    BY <2>2, StartTypes DEF t
  <2>. QED BY <2>1, <2>2
<1>4. a \in Rounds0
  BY <1>1 DEF Rounds0, Rets
<1>5. a.d = e /\ a.ret = "more" /\ a.used = 0
  OBVIOUS
<1>. HIDE DEF e, a
<1>6. RoundOK(s, d, tag, 0, a)
  BY <1>1, <1>2, <1>3, <1>4, <1>5 DEF RoundOK
<1>. QED BY <1>6 DEF a, e

LEMMA NextRound ==
  ASSUME NEW s \in Frames, NEW d \in Deframers, NEW tag \in [Nat -> Tags],
         NEW n \in Nat, NEW a, RoundOK(s, d, tag, n, a), NEW c \in Bytes,
         Moves(s, c, tag[n + 1], tag[n + 2])
  PROVE  RoundOK(s, d, tag, n + 1, LoopStep(a, c))
<1> DEFINE t == tag[n + 1]
           next == tag[n + 2]
           b == Byte(a.d, c)
           r == LoopStep(a, c)
<1>1. t \in Tags /\ next \in Tags /\ (n + 1) + 1 = n + 2
  OBVIOUS
<1>2. a \in Rounds0 /\ a.d \in Deframers /\ a.used \in Nat /\ a.ret \in Rets
  BY DEF RoundOK, Rounds0
<1>3. CASE a.ret # "more"
  <2>1. r = a
    BY <1>3 DEF LoopStep
  <2>2. a.used =< n + 1
    BY <1>2 DEF RoundOK
  <2>. HIDE DEF r
  <2>3. RoundOK(s, d, tag, n + 1, a)
    BY <1>3, <2>2 DEF RoundOK
  <2>. QED BY <2>1, <2>3 DEF r
<1>4. CASE a.ret = "more"
  <2>1. /\ a.used = n /\ a.d.state # "INIT" /\ Matched(s, a.d, t) /\ Bounded(a.d)
        /\ InStep(d, tag[1]) => InStep(a.d, t) /\ t.k = tag[1].k
    BY <1>4 DEF RoundOK
  <2>2. r.d = b.d /\ r.ret = b.ret /\ r.used = n + 1 /\ r = [d |-> b.d, ret |-> b.ret, used |-> n + 1]
    BY <1>4, <2>1 DEF LoopStep
  <2>. HIDE DEF t, next
  <2>3. b.d \in Deframers /\ b.ret \in Rets
    BY <1>2, ByteTypes
  <2>4. /\ Bounded(b.d)
        /\ b.ret = "more" => b.d.state # "INIT"
        /\ b.ret # "more" => b.d.state = "INIT"
    <3>1. Stopped(a.d).state = "INIT"
      BY <1>2 DEF Stopped, Deframers
    <3>. QED BY <1>2, <2>1, <3>1, ByteBounded
  <2>5. Moves(s, c, t, next)
    BY DEF t, next
  <2>6. /\ b.ret = "more" => Matched(s, b.d, next) /\ (InStep(a.d, t) => InStep(b.d, next) /\ next.k = t.k)
        /\ b.ret = "frame" => Returned(s, a.d, t, next, b.d)
    BY <1>1, <1>2, <2>1, <2>5, ByteMatched
  <2>. HIDE DEF b, r
  <2>7. r \in Rounds0
    BY <2>2, <2>3 DEF Rounds0
  <2>8. tag[(n + 1) + 1] = next /\ tag[(n + 1)] = t
    BY <1>1 DEF t, next
  <2>9. b.ret = "frame" => \/ b.d.out = << >> /\ ~InStep(d, tag[1])
                           \/ /\ b.d.out = s[t.k] /\ next = Tag(t.k + 1, 0, 1)
                              /\ InStep(d, tag[1]) => t.k = tag[1].k
    BY <2>1, <2>6 DEF Returned
  <2>10. RoundOK(s, d, tag, n + 1, r)
    <3>1. r.ret = "more" => /\ r.used = n + 1 /\ r.d.state # "INIT"
                            /\ Matched(s, r.d, tag[(n + 1) + 1])
                            /\ InStep(d, tag[1]) =>
                                 /\ InStep(r.d, tag[(n + 1) + 1])
                                 /\ tag[(n + 1) + 1].k = tag[1].k
      BY <2>1, <2>2, <2>4, <2>6, <2>8
    <3>2. r.ret = "frame" =>
            /\ r.used # 0
            /\ \/ r.d.out = << >> /\ ~InStep(d, tag[1])
               \/ /\ r.d.out = s[tag[r.used].k]
                  /\ tag[r.used + 1] = Tag(tag[r.used].k + 1, 0, 1)
                  /\ InStep(d, tag[1]) => tag[r.used].k = tag[1].k
      BY <2>2, <2>8, <2>9
    <3>3. Bounded(r.d) /\ r.used =< n + 1 /\ (r.ret # "more" => r.d.state = "INIT")
      BY <2>2, <2>4
    <3>. QED BY <2>7, <3>1, <3>2, <3>3 DEF RoundOK
  <2>. QED BY <2>10 DEF r
<1>. QED BY <1>3, <1>4

\* One call of slip_deframer on a full fifo.
LEMMA LoopMatched ==
  ASSUME NEW s \in Frames, NEW d \in Deframers, Bounded(d), NEW tag \in [Nat -> Tags],
         Matched(s, d, tag[1]),
         \A i \in 1 .. Len(d.fifo) : Moves(s, d.fifo[i], tag[i], tag[i + 1])
  PROVE  RoundOK(s, d, tag, Len(d.fifo), Loop(d)[Len(d.fifo)])
<1> DEFINE N == Len(d.fifo)
           r == Loop(d)
           T == {n \in 0 .. N : RoundOK(s, d, tag, n, r[n])}
<1>1. N \in Nat /\ \A n \in 1 .. N : d.fifo[n] \in Bytes
  <2>1. d.fifo \in Seq(Bytes)
    BY DEF Deframers
  <2>. QED BY <2>1, LenProperties, ElementOfSeq
<1>2. \A n \in 0 .. N : r[n] = IF n = 0 THEN [d |-> Start(d), ret |-> "more", used |-> 0]
                                        ELSE LoopStep(r[n - 1], d.fifo[n])
  BY LoopRounds
<1>. HIDE DEF r
<1>3. 0 \in T
  <2>1. 0 \in 0 .. N /\ r[0] = [d |-> Start(d), ret |-> "more", used |-> 0]
    BY <1>1, <1>2
  <2>. QED BY <2>1, FirstRound
<1>4. ASSUME NEW n \in 0 .. N - 1, n \in T PROVE n + 1 \in T
  <2> DEFINE m == n + 1
  <2>1. m \in 1 .. N /\ m \in 0 .. N /\ m # 0 /\ m - 1 = n /\ n \in Nat
    BY <1>1
  <2>2. Moves(s, d.fifo[m], tag[m], tag[m + 1])
    BY <2>1
  <2>3. m = n + 1 /\ m + 1 = n + 2
    BY <1>1
  <2>4. RoundOK(s, d, tag, n, r[n])
    BY <1>4
  <2>. HIDE DEF m
  <2>5. r[m] = LoopStep(r[n], d.fifo[m]) /\ d.fifo[m] \in Bytes
    BY <1>1, <1>2, <2>1
  <2>6. RoundOK(s, d, tag, n + 1, LoopStep(r[n], d.fifo[m]))
    BY <2>1, <2>2, <2>3, <2>4, <2>5, NextRound
  <2>7. m \in T
    BY <2>1, <2>5, <2>6 DEF m
  <2>. QED BY <2>7 DEF m
<1>5. N \in T
  <2>. HIDE DEF T
  <2>1. 0 .. N \subseteq T
    BY <1>1, <1>3, <1>4, UpTo
  <2>. QED BY <1>1, <2>1
<1>. QED BY <1>5 DEF r

\* What one call of slip_deframer makes of the stream tagged by tag: it goes on
\* with the byte after the first `used' ones.
Outcome(s, d, all, tag, call, used) ==
  /\ call.d.fifo = SubSeq(all, used + 1, Len(all))
  /\ Matched(s, call.d, tag[used + 1])
  /\ \/ call.ret \notin {"more", "frame"} /\ call.frame = << >>
     \/ /\ call.ret = "more" /\ call.frame = << >>
        /\ InStep(d, tag[1]) => InStep(call.d, tag[used + 1]) /\ tag[used + 1].k = tag[1].k
     \/ call.ret = "frame" /\ call.frame = << >> /\ ~InStep(d, tag[1])
     \/ /\ call.ret = "frame" /\ used # 0
        /\ call.frame = s[tag[used].k]
        /\ tag[used + 1] = Tag(tag[used].k + 1, 0, 1)
        /\ call.d.state = "INIT"
        /\ InStep(d, tag[1]) => tag[used].k = tag[1].k

LEMMA DeframeStep ==
  ASSUME NEW s \in Frames, NEW d \in Deframers, Bounded(d), NEW tag \in [Nat -> Tags],
         Matched(s, d, tag[1]), NEW chunk \in Seq(Bytes), NEW all, all = d.fifo \o chunk,
         \A i \in 1 .. Len(all) : Moves(s, all[i], tag[i], tag[i + 1])
  PROVE  LET call == Deframe(d, chunk)
         IN  /\ call.d \in Deframers /\ Bounded(call.d) /\ Len(call.d.fifo) =< FifoDepth
             /\ call.frame \in Seq(PayloadBytes)
             /\ \E used \in 0 .. Len(all) : Outcome(s, d, all, tag, call, used)
<1> DEFINE call == Deframe(d, chunk)
           N == Len(all)
<1>1. d.fifo \in Seq(Bytes) /\ d.out \in Seq(PayloadBytes)
  BY DEF Deframers, Bounded
<1>2. /\ all \in Seq(Bytes) /\ N \in Nat /\ N = Len(d.fifo) + Len(chunk)
  BY <1>1, ConcatProperties, LenProperties
<1>3. /\ << >> \in Seq(Bytes) /\ << >> \in Seq(PayloadBytes) /\ Len(<< >>) = 0
      /\ SubSeq(all, N + 1, N) = << >> /\ FifoDepth \in Nat
  <2>1. SubSeq(all, N + 1, N) = << >>
    BY <1>2, SubSeqEmpty
  <2>. QED BY <2>1, EmptySeq, SlipAssumption
<1>4. CASE Len(d.fifo) + Len(chunk) > FifoDepth
  <2> DEFINE e == [d EXCEPT !.fifo = << >>, !.state = "INIT"]
  <2>1. call = [d |-> e, frame |-> << >>, ret |-> "fifo full"]
    BY <1>4 DEF Deframe
  <2>2. call.d = e /\ call.frame = << >> /\ call.ret = "fifo full"
    <3>. HIDE DEF e, call
    <3>. QED BY <2>1
  <2>3. e \in Deframers /\ e.fifo = << >> /\ e.state = "INIT" /\ e.out = d.out
    BY <1>3 DEF Deframers
  <2>4. Bounded(e)
    BY <2>3 DEF Bounded
  <2>. HIDE DEF e, call
  <2>5. Outcome(s, d, all, tag, call, N)
    BY <1>3, <2>2, <2>3 DEF Outcome, Matched
  <2>6. N \in 0 .. N
    BY <1>2
  <2>7. \E used \in 0 .. N : Outcome(s, d, all, tag, call, used)
    BY <2>5, <2>6
  <2>8. call.d \in Deframers /\ Bounded(call.d) /\ Len(call.d.fifo) =< FifoDepth
        /\ call.frame \in Seq(PayloadBytes)
    <3>1. 0 =< FifoDepth
      BY <1>3
    <3>. QED BY <1>3, <2>2, <2>3, <2>4, <3>1
  <2>. QED BY <2>7, <2>8 DEF call
<1>5. CASE ~(Len(d.fifo) + Len(chunk) > FifoDepth)
  <2> DEFINE f == [d EXCEPT !.fifo = all]
             r == Loop(f)[N]
             left == IF r.ret = "frame" THEN SubSeq(all, r.used + 1, N) ELSE << >>
             e == [r.d EXCEPT !.fifo = left]
  <2>1. call = [d |-> e, frame |-> IF r.ret = "frame" THEN r.d.out ELSE << >>, ret |-> r.ret]
    BY <1>5 DEF Deframe
  <2>2. /\ f \in Deframers /\ f.fifo = all /\ f.out = d.out /\ f.state = d.state
        /\ f.get_escaped = d.get_escaped
    BY <1>2 DEF Deframers
  <2>. HIDE DEF f
  <2>3. Bounded(f) /\ Matched(s, f, tag[1])
    BY <2>2 DEF Bounded, Matched, Between, Inside
  <2>4. \A i \in 1 .. Len(f.fifo) : Moves(s, f.fifo[i], tag[i], tag[i + 1])
    BY <2>2
  <2>5. RoundOK(s, f, tag, N, r)
    BY <2>2, <2>3, <2>4, LoopMatched
  <2>6. InStep(f, tag[1]) <=> InStep(d, tag[1])
    BY <2>2 DEF InStep
  <2>. HIDE DEF r
  <2>7. /\ r.d \in Deframers /\ r.ret \in Rets /\ r.used \in Nat /\ r.used =< N
        /\ Bounded(r.d)
    BY <2>5 DEF RoundOK, Rounds0
  <2>8. left \in Seq(Bytes) /\ Len(left) =< FifoDepth
    <3>1. r.ret = "frame" => /\ SubSeq(all, r.used + 1, N) \in Seq(Bytes)
                             /\ Len(SubSeq(all, r.used + 1, N)) =< N
      <4>1. r.used + 1 \in 1 .. N + 1 /\ N \in Nat
        BY <1>2, <2>7
      <4> DEFINE m == r.used + 1
      <4>2. CASE m = N + 1
        BY <1>2, <1>3, <4>2
      <4>3. CASE m \in 1 .. N
        <5>1. \A i \in m .. N : all[i] \in Bytes
          BY <1>2, <4>3, ElementOfSeq
        <5>. HIDE DEF m
        <5>2. SubSeq(all, m, N) \in Seq(Bytes) /\ Len(SubSeq(all, m, N)) =< N
          BY <1>2, <4>3, <5>1, SubSeqProperties
        <5>. QED BY <5>2 DEF m
      <4>. QED BY <4>1, <4>2, <4>3
    <3>2. N =< FifoDepth
      BY <1>2, <1>3, <1>5, <1>1, LenProperties
    <3>3. CASE r.ret = "frame"
      <4>1. left = SubSeq(all, r.used + 1, N)
        BY <3>3
      <4>2. left \in Seq(Bytes) /\ Len(left) =< N
        BY <3>1, <3>3, <4>1
      <4>. HIDE DEF left
      <4>3. Len(left) \in Nat
        BY <4>2, LenProperties
      <4>. QED BY <1>2, <1>3, <3>2, <4>2, <4>3
    <3>4. CASE r.ret # "frame"
      <4>1. left = << >>
        BY <3>4
      <4>. HIDE DEF left
      <4>. QED BY <1>3, <4>1
    <3>. QED BY <3>3, <3>4
  <2>. HIDE DEF left
  <2>9. /\ e \in Deframers /\ e.fifo = left /\ e.out = r.d.out /\ e.state = r.d.state
        /\ e.get_escaped = r.d.get_escaped
    BY <2>7, <2>8 DEF Deframers
  <2>. HIDE DEF e
  <2>10. /\ call.d = e /\ call.ret = r.ret
         /\ call.frame = IF r.ret = "frame" THEN r.d.out ELSE << >>
    BY <2>1
  <2>. HIDE DEF call
  <2>11. call.d \in Deframers /\ Bounded(call.d) /\ Len(call.d.fifo) =< FifoDepth
         /\ call.frame \in Seq(PayloadBytes)
    <3>1. r.d.out \in Seq(PayloadBytes)
      BY <2>7 DEF Bounded
    <3>2. Bounded(e)
      BY <2>7, <2>9 DEF Bounded
    <3>. QED BY <1>3, <2>8, <2>9, <2>10, <3>1, <3>2
  <2>12. \E used \in 0 .. N : Outcome(s, d, all, tag, call, used)
    <3>1. CASE r.ret = "frame"
      <4>1. left = SubSeq(all, r.used + 1, N) /\ r.d.state = "INIT"
        BY <2>5, <3>1 DEF left, RoundOK
      <4>2. Matched(s, e, tag[r.used + 1])
        BY <2>9, <4>1 DEF Matched
      <4>3. /\ r.used # 0
            /\ \/ r.d.out = << >> /\ ~InStep(d, tag[1])
               \/ /\ r.d.out = s[tag[r.used].k]
                  /\ tag[r.used + 1] = Tag(tag[r.used].k + 1, 0, 1)
                  /\ InStep(d, tag[1]) => tag[r.used].k = tag[1].k
        BY <2>5, <2>6, <3>1 DEF RoundOK
      <4>4. Outcome(s, d, all, tag, call, r.used)
        BY <2>9, <2>10, <3>1, <4>1, <4>2, <4>3 DEF Outcome
      <4>5. r.used \in 0 .. N
        BY <1>2, <2>7
      <4>. QED BY <4>4, <4>5
    <3>2. CASE r.ret = "more"
      <4>1. left = SubSeq(all, N + 1, N)
        BY <1>3, <3>2 DEF left
      <4>2. Matched(s, r.d, tag[N + 1])
            /\ (InStep(d, tag[1]) => InStep(r.d, tag[N + 1]) /\ tag[N + 1].k = tag[1].k)
        BY <2>5, <2>6, <3>2 DEF RoundOK
      <4>3. Matched(s, e, tag[N + 1]) /\ (InStep(r.d, tag[N + 1]) => InStep(e, tag[N + 1]))
        BY <2>9, <4>2 DEF Matched, Between, Inside, InStep
      <4>4. Outcome(s, d, all, tag, call, N)
        BY <2>9, <2>10, <3>2, <4>1, <4>2, <4>3 DEF Outcome
      <4>. QED BY <1>2, <4>4
    <3>3. CASE r.ret \notin {"more", "frame"}
      <4>1. left = SubSeq(all, N + 1, N)
        BY <1>3, <3>3 DEF left
      <4>2. r.d.state = "INIT"
        BY <2>5, <3>3 DEF RoundOK
      <4>3. Matched(s, e, tag[N + 1])
        BY <2>9, <4>2 DEF Matched
      <4>4. Outcome(s, d, all, tag, call, N)
        BY <2>9, <2>10, <3>3, <4>1, <4>3 DEF Outcome
      <4>. QED BY <1>2, <4>4
    <3>. QED BY <3>1, <3>2, <3>3
  <2>. QED BY <2>11, <2>12 DEF call
<1>. QED BY <1>4, <1>5

-----------------------------------------------------------------------------
(* The line. *)

\* What follows the first u elements, of a sequence of bytes.
LEMMA DropType ==
  ASSUME NEW S, NEW q \in Seq(S), NEW u \in 0 .. Len(q)
  PROVE  LET r == SubSeq(q, u + 1, Len(q))
         IN  /\ r \in Seq(S) /\ Len(r) = Len(q) - u
             /\ \A i \in 1 .. Len(q) - u : r[i] = q[u + i]
<1>1. Len(q) \in Nat /\ u \in Nat /\ \A i \in 1 .. Len(q) : q[i] \in S
  BY LenProperties, ElementOfSeq
<1> DEFINE m == u + 1
           r == SubSeq(q, m, Len(q))
<1>2. CASE u = Len(q)
  <2>1. r = << >>
    BY <1>1, <1>2, SubSeqEmpty
  <2>2. << >> \in Seq(S) /\ Len(<< >>) = 0
    BY EmptySeq
  <2>. QED BY <1>1, <1>2, <2>1, <2>2
<1>3. CASE u # Len(q)
  <2>1. m \in 1 .. Len(q) /\ m = u + 1 /\ \A i \in m .. Len(q) : q[i] \in S
    BY <1>1, <1>3
  <2>. HIDE DEF m
  <2>2. /\ r \in Seq(S) /\ Len(r) = IF m =< Len(q) THEN Len(q) - m + 1 ELSE 0
        /\ \A i \in 1 .. Len(q) - m + 1 : r[i] = q[m + i - 1]
    BY <1>1, <2>1, SubSeqProperties
  <2>3. Len(r) = Len(q) - u /\ \A i \in 1 .. Len(q) - u : r[i] = q[u + i]
    BY <1>1, <2>1, <2>2
  <2>. QED BY <2>2, <2>3 DEF m
<1>. QED BY <1>2, <1>3

LEMMA DropConcat ==
  ASSUME NEW S, NEW a \in Seq(S), NEW b \in Seq(S), NEW u \in 0 .. Len(a)
  PROVE  SubSeq(a, u + 1, Len(a)) \o b = SubSeq(a \o b, u + 1, Len(a \o b))
<1> DEFINE q == a \o b
           x == SubSeq(a, u + 1, Len(a))
           y == SubSeq(q, u + 1, Len(q))
<1>1. /\ Len(a) \in Nat /\ Len(b) \in Nat /\ u \in Nat
      /\ q \in Seq(S) /\ Len(q) = Len(a) + Len(b)
      /\ \A i \in 1 .. Len(q) : q[i] = IF i =< Len(a) THEN a[i] ELSE b[i - Len(a)]
  BY LenProperties, ConcatProperties
<1>2. x \in Seq(S) /\ Len(x) = Len(a) - u /\ \A i \in 1 .. Len(a) - u : x[i] = a[u + i]
  BY DropType
<1>3. u \in 0 .. Len(q)
  BY <1>1
<1>. HIDE DEF q
<1>4. y \in Seq(S) /\ Len(y) = Len(q) - u /\ \A i \in 1 .. Len(q) - u : y[i] = q[u + i]
  BY <1>1, <1>3, DropType
<1>. HIDE DEF x, y
<1>5. /\ x \o b \in Seq(S) /\ Len(x \o b) = Len(x) + Len(b)
      /\ \A i \in 1 .. Len(x) + Len(b) : (x \o b)[i] = IF i =< Len(x) THEN x[i] ELSE b[i - Len(x)]
  <2>1. x \in Seq(S)
    BY <1>2
  <2>. QED BY <2>1, ConcatProperties
<1> DEFINE z == x \o b
<1>. HIDE DEF z
<1>6. Len(z) = Len(y)
  BY <1>1, <1>2, <1>4, <1>5 DEF z
<1>7. ASSUME NEW i \in 1 .. Len(z) PROVE z[i] = y[i]
  <2>1. Len(z) = Len(a) - u + Len(b) /\ i \in Nat /\ i > 0
    BY <1>1, <1>2, <1>5 DEF z
  <2>2. y[i] = q[u + i]
    BY <1>1, <1>4, <2>1
  <2>3. z[i] = IF i =< Len(a) - u THEN a[u + i] ELSE b[i - (Len(a) - u)]
    BY <1>1, <1>2, <1>5, <2>1 DEF z
  <2>4. q[u + i] = IF u + i =< Len(a) THEN a[u + i] ELSE b[u + i - Len(a)]
    BY <1>1, <2>1
  <2>5. (i =< Len(a) - u <=> u + i =< Len(a)) /\ i - (Len(a) - u) = u + i - Len(a)
    BY <1>1, <2>1
  <2>. QED BY <2>2, <2>3, <2>4, <2>5
<1>8. z = y
  BY <1>4, <1>5, <1>6, <1>7, SeqEqual DEF z
<1>. QED BY <1>8 DEF x, y, z, q

-----------------------------------------------------------------------------
\* tag tags the bytes q sent and not yet used, and the first one of the frame to
\* be sent next.
Stream(s, q, tag) ==
  /\ \A i \in 1 .. Len(q) : Moves(s, q[i], tag[i], tag[i + 1])
  /\ tag[Len(q) + 1] = Tag(Len(s) + 1, 0, 1)
  /\ \A i, j \in 1 .. Len(q) + 1 : i =< j => tag[i].k =< tag[j].k

LEMMA StreamDrop ==
  ASSUME NEW s, NEW q \in Seq(Bytes), NEW tag \in [Nat -> Tags], Stream(s, q, tag),
         NEW u \in 0 .. Len(q)
  PROVE  \E g \in [Nat -> Tags] : /\ Stream(s, SubSeq(q, u + 1, Len(q)), g)
                                  /\ g[1] = tag[u + 1]
<1> DEFINE r == SubSeq(q, u + 1, Len(q))
           g == [i \in Nat |-> tag[u + i]]
<1>1. Len(q) \in Nat /\ u \in Nat
  BY LenProperties
<1>2. r \in Seq(Bytes) /\ Len(r) = Len(q) - u /\ \A i \in 1 .. Len(q) - u : r[i] = q[u + i]
  BY DropType
<1>3. g \in [Nat -> Tags] /\ \A i \in Nat : g[i] = tag[u + i]
  BY <1>1
<1>. HIDE DEF r, g
<1>4. ASSUME NEW i \in 1 .. Len(r) PROVE Moves(s, r[i], g[i], g[i + 1])
  <2>1. u + i \in 1 .. Len(q) /\ u + (i + 1) = u + i + 1 /\ i \in Nat /\ i + 1 \in Nat
    BY <1>1, <1>2
  <2>2. r[i] = q[u + i] /\ g[i] = tag[u + i] /\ g[i + 1] = tag[u + i + 1]
    <3>1. g[i + 1] = tag[u + (i + 1)]
      BY <1>3, <2>1
    <3>2. i \in 1 .. Len(q) - u
      BY <1>2
    <3>. QED BY <1>2, <1>3, <2>1, <3>1, <3>2
  <2> DEFINE v == u + i
  <2>3. Moves(s, q[v], tag[v], tag[v + 1])
    BY <2>1 DEF Stream
  <2>. QED BY <2>2, <2>3
<1>5. g[Len(r) + 1] = Tag(Len(s) + 1, 0, 1)
  <2>1. Len(r) + 1 \in Nat /\ u + (Len(r) + 1) = Len(q) + 1
    BY <1>1, <1>2
  <2>. QED BY <1>3, <2>1 DEF Stream
<1>6. ASSUME NEW i \in 1 .. Len(r) + 1, NEW j \in 1 .. Len(r) + 1, i =< j
      PROVE  g[i].k =< g[j].k
  <2>1. /\ u + i \in 1 .. Len(q) + 1 /\ u + j \in 1 .. Len(q) + 1 /\ u + i =< u + j
        /\ i \in Nat /\ j \in Nat
    BY <1>1, <1>2, <1>6
  <2>. QED BY <1>3, <2>1 DEF Stream
<1>7. g[1] = tag[u + 1]
  BY <1>3
<1>8. Stream(s, r, g)
  BY <1>4, <1>5, <1>6 DEF Stream
<1>. QED BY <1>3, <1>7, <1>8 DEF r

LEMMA MovesAppend ==
  ASSUME NEW s \in Frames, NEW p \in Seq(PayloadBytes), NEW c, NEW t, NEW next,
         Moves(s, c, t, next)
  PROVE  Moves(Append(s, p), c, t, next)
<1>1. /\ Len(Append(s, p)) = Len(s) + 1 /\ Len(s) \in Nat
      /\ \A i \in 1 .. Len(s) : Append(s, p)[i] = s[i]
  BY AppendProperties, LenProperties DEF Frames
<1>. QED BY <1>1 DEF Moves

LEMMA MatchedAppend ==
  ASSUME NEW s \in Frames, NEW p \in Seq(PayloadBytes), NEW d, NEW t, Matched(s, d, t)
  PROVE  Matched(Append(s, p), d, t)
<1>1. /\ Len(Append(s, p)) = Len(s) + 1 /\ Len(s) \in Nat
      /\ \A i \in 1 .. Len(s) : Append(s, p)[i] = s[i]
  BY AppendProperties, LenProperties DEF Frames
<1>2. t.k \in 1 .. Len(s) => t.k \in 1 .. Len(Append(s, p)) /\ Append(s, p)[t.k] = s[t.k]
  BY <1>1
<1>. QED BY <1>2 DEF Matched

LEMMA StreamSend ==
  ASSUME NEW s \in Frames, NEW q \in Seq(Bytes), NEW tag \in [Nat -> Tags],
         Stream(s, q, tag), NEW p \in Seq(PayloadBytes)
  PROVE  \E g \in [Nat -> Tags] : /\ Stream(Append(s, p), q \o slip_framer(p), g)
                                  /\ g[1] = tag[1]
<1> DEFINE K == Len(s) + 1
           n == Len(q)
           e == slip_framer(p)
           all == q \o e
           z == Append(s, p)
<1>1. /\ Len(s) \in Nat /\ K \in Nat /\ n \in Nat /\ Len(z) = K
      /\ z[K] = p /\ z \in Frames
  BY AppendProperties, LenProperties DEF Frames
<1>2. e \in Seq(Bytes) /\ \E f \in [Nat -> Tags] : Tagged(p, K, e, f, Tag(K + 1, 0, 1))
  BY <1>1, FrameTags
<1>3. /\ all \in Seq(Bytes) /\ Len(all) = n + Len(e) /\ Len(e) \in Nat
      /\ \A i \in 1 .. Len(all) : all[i] = IF i =< n THEN q[i] ELSE e[i - n]
  BY <1>2, ConcatProperties, LenProperties
<1>. HIDE DEF e, K, n, all, z
<1>4. PICK f \in [Nat -> Tags] : Tagged(p, K, e, f, Tag(K + 1, 0, 1))
  BY <1>2
<1>5. tag[n + 1] = Tag(K, 0, 1) /\ f[1] = Tag(K, 0, 1) /\ f[Len(e) + 1] = Tag(K + 1, 0, 1)
  BY <1>4 DEF Stream, Tagged, n, K
<1> DEFINE g == [i \in Nat |-> IF i =< n THEN tag[i] ELSE f[i - n]]
<1>6. /\ g \in [Nat -> Tags]
      /\ \A i \in 1 .. n + 1 : g[i] = tag[i]
      /\ \A i \in 1 .. Len(e) + 1 : g[n + i] = f[i]
  <2>1. ASSUME NEW i \in Nat PROVE g[i] \in Tags
    <3>1. i =< n \/ i - n \in Nat
      BY <1>1
    <3>. QED BY <3>1
  <2>2. ASSUME NEW i \in 1 .. n + 1 PROVE g[i] = tag[i]
    <3>1. i =< n \/ (i = n + 1 /\ i - n = 1 /\ ~(i =< n))
      BY <1>1
    <3>. QED BY <1>5, <3>1
  <2>3. ASSUME NEW i \in 1 .. Len(e) + 1 PROVE g[n + i] = f[i]
    <3> DEFINE m == n + i
    <3>1. m \in Nat /\ ~(m =< n) /\ m - n = i
      BY <1>1, <1>3
    <3>. HIDE DEF m
    <3>2. g[m] = f[i]
      BY <3>1
    <3>. QED BY <3>2 DEF m
  <2>. QED BY <2>1, <2>2, <2>3
<1>. HIDE DEF g
<1>7. ASSUME NEW i \in 1 .. Len(all) PROVE Moves(z, all[i], g[i], g[i + 1])
  <2>1. CASE i =< n
    <3>1. i \in 1 .. n /\ i \in 1 .. n + 1 /\ i + 1 \in 1 .. n + 1
      BY <1>1, <1>3, <2>1
    <3>2. all[i] = q[i] /\ g[i] = tag[i] /\ g[i + 1] = tag[i + 1]
      BY <1>3, <1>6, <2>1, <3>1
    <3>3. Moves(s, q[i], tag[i], tag[i + 1])
      BY <3>1 DEF Stream, n
    <3>. QED BY <3>2, <3>3, MovesAppend DEF z
  <2>2. CASE ~(i =< n)
    <3> DEFINE m == i - n
    <3>1. m \in 1 .. Len(e) /\ m \in 1 .. Len(e) + 1 /\ m + 1 \in 1 .. Len(e) + 1
          /\ i = n + m /\ i + 1 = n + (m + 1)
      BY <1>1, <1>3, <2>2
    <3>2. all[i] = e[m]
      BY <1>3, <2>2
    <3>. HIDE DEF m
    <3>3. g[i] = f[m] /\ g[i + 1] = f[m + 1]
      BY <1>6, <3>1
    <3>4. Follows(p, K, e[m], f[m], f[m + 1])
      BY <1>4, <3>1 DEF Tagged
    <3>5. f[m].k = K
      BY <3>4 DEF Follows
    <3>6. K \in 1 .. Len(z)
      BY <1>1 DEF K
    <3>. QED BY <1>1, <3>2, <3>3, <3>4, <3>5, <3>6 DEF Moves
  <2>. QED BY <2>1, <2>2
<1>8. g[Len(all) + 1] = Tag(Len(z) + 1, 0, 1)
  <2>1. Len(all) + 1 = n + (Len(e) + 1) /\ Len(e) + 1 \in 1 .. Len(e) + 1
    BY <1>1, <1>3
  <2>. QED BY <1>1, <1>5, <1>6, <2>1
<1>9. \A i \in 1 .. n + 1 : g[i].k =< K /\ g[i].k \in Nat
  <2>. TAKE i \in 1 .. n + 1
  <2>1. i =< n + 1 /\ n + 1 \in 1 .. n + 1 /\ i \in Nat
    BY <1>1
  <2>2. tag[i].k =< tag[n + 1].k
    BY <2>1 DEF Stream, n
  <2>3. tag[n + 1].k = K
    BY <1>1, <1>5, TagType
  <2>4. tag[i] \in Tags
    BY <2>1
  <2>. QED BY <1>6, <2>2, <2>3, <2>4 DEF Tags
<1>10. \A i \in 1 .. Len(e) : g[n + i].k = K
  <2>. TAKE i \in 1 .. Len(e)
  <2>1. Follows(p, K, e[i], f[i], f[i + 1]) /\ i \in 1 .. Len(e) + 1
    BY <1>3, <1>4 DEF Tagged
  <2>2. g[n + i] = f[i] /\ f[i].k = K
    BY <1>6, <2>1 DEF Follows
  <2>. QED BY <2>2
<1>11. g[Len(all) + 1].k = K + 1
  <2>1. Len(z) + 1 = K + 1 /\ K + 1 \in Nat
    BY <1>1
  <2>2. Tag(K + 1, 0, 1).k = K + 1
    BY <2>1, TagType
  <2>. QED BY <1>8, <2>1, <2>2
<1>12. ASSUME NEW i \in 1 .. Len(all) + 1, NEW j \in 1 .. Len(all) + 1, i =< j
       PROVE  g[i].k =< g[j].k
  <2>0. \A m \in 1 .. Len(all) : g[m].k \in Nat /\ g[m].k =< K /\ (m > n => g[m].k = K)
    <3>. TAKE m \in 1 .. Len(all)
    <3>1. CASE m =< n
      <4>1. m \in 1 .. n + 1
        BY <1>1, <3>1
      <4>. QED BY <1>1, <1>9, <3>1, <4>1
    <3>2. CASE ~(m =< n)
      <4>1. m - n \in 1 .. Len(e) /\ m = n + (m - n)
        BY <1>1, <1>3, <3>2
      <4>2. g[m].k = K
        BY <1>10, <4>1
      <4>. QED BY <1>1, <4>2
    <3>. QED BY <3>1, <3>2
  <2>1. CASE i = j
    <3>1. i \in Nat
      BY <1>3
    <3>2. g[i] \in Tags
      BY <1>6, <3>1
    <3>3. g[i].k \in Nat
      BY <3>2 DEF Tags
    <3>. QED BY <2>1, <3>3
  <2>2. CASE j = Len(all) + 1 /\ i # j
    <3>1. i \in 1 .. Len(all)
      BY <1>1, <1>3, <2>2
    <3>. QED BY <1>1, <1>11, <2>0, <2>2, <3>1
  <2>3. CASE j # Len(all) + 1 /\ j =< n
    <3>1. i \in 1 .. n + 1 /\ j \in 1 .. n + 1
      BY <1>1, <1>3, <1>12, <2>3
    <3>2. tag[i].k =< tag[j].k
      BY <1>12, <3>1 DEF Stream, n
    <3>. QED BY <1>6, <3>1, <3>2
  <2>4. CASE j # Len(all) + 1 /\ ~(j =< n)
    <3> DEFINE M == Len(all)
    <3>0. M \in Nat /\ n \in Nat /\ i \in 1 .. M + 1 /\ j \in 1 .. M + 1 /\ i =< j /\ j # M + 1
      BY <1>1, <1>3, <1>12, <2>4
    <3>. HIDE DEF M
    <3>2. i \in 1 .. M /\ j \in 1 .. M /\ j > n
      BY <2>4, <3>0
    <3>1. i \in 1 .. Len(all) /\ j \in 1 .. Len(all) /\ j > n
      BY <3>2 DEF M
    <3>. QED BY <1>1, <2>0, <3>1
  <2>. QED BY <2>1, <2>2, <2>3, <2>4
<1>13. Stream(z, all, g)
  BY <1>7, <1>8, <1>12 DEF Stream
<1>14. g[1] = tag[1]
  BY <1>1, <1>6
<1>. QED BY <1>6, <1>13, <1>14 DEF z, all, e

-----------------------------------------------------------------------------
(* The frames received, among those sent. *)

\* g is made of frames of s, in their order and each once, all before place m.
Chosen(at, g, s, m) ==
  /\ at \in [1 .. Len(g) -> 1 .. Len(s)]
  /\ \A i, j \in 1 .. Len(g) : i < j => at[i] < at[j]
  /\ \A i \in 1 .. Len(g) : g[i] = s[at[i]] /\ at[i] < m

Picked(g, s, m) == \E at : Chosen(at, g, s, m)

\* g is all of s before place m.
Complete(g, s, m) == Len(g) = m - 1 /\ \A i \in 1 .. Len(g) : g[i] = s[i]

LEMMA PickedMore ==
  ASSUME NEW g, NEW s \in Frames, NEW m \in Nat, NEW n \in Nat, m =< n, Picked(g, s, m)
  PROVE  Picked(g, s, n)
<1>1. PICK at : Chosen(at, g, s, m)
  BY DEF Picked
<1>2. Len(s) \in Nat
  BY LenProperties DEF Frames
<1>3. \A i \in 1 .. Len(g) : at[i] \in Nat /\ at[i] < n
  BY <1>1, <1>2 DEF Chosen
<1>4. Chosen(at, g, s, n)
  BY <1>1, <1>3 DEF Chosen
<1>. QED BY <1>4 DEF Picked

LEMMA PickedSend ==
  ASSUME NEW g, NEW s \in Frames, NEW m, NEW p \in Seq(PayloadBytes), Picked(g, s, m)
  PROVE  Picked(g, Append(s, p), m)
<1> DEFINE z == Append(s, p)
<1>1. PICK at : Chosen(at, g, s, m)
  BY DEF Picked
<1>2. /\ Len(s) \in Nat /\ Len(z) = Len(s) + 1
      /\ \A i \in 1 .. Len(s) : z[i] = s[i] /\ i \in 1 .. Len(z)
  <2>1. Len(s) \in Nat /\ Len(z) = Len(s) + 1 /\ \A i \in 1 .. Len(s) : z[i] = s[i]
    BY AppendProperties, LenProperties DEF Frames
  <2>. QED BY <2>1
<1>. HIDE DEF z
<1>3. at \in [1 .. Len(g) -> 1 .. Len(s)]
  BY <1>1 DEF Chosen
<1>4. at \in [1 .. Len(g) -> 1 .. Len(z)]
  BY <1>2, <1>3
<1>5. \A i \in 1 .. Len(g) : g[i] = z[at[i]] /\ at[i] < m
  BY <1>1, <1>2, <1>3 DEF Chosen
<1>6. Chosen(at, g, z, m)
  BY <1>1, <1>4, <1>5 DEF Chosen
<1>. QED BY <1>6 DEF Picked, z

LEMMA PickedOneMore ==
  ASSUME NEW g \in Frames, NEW s \in Frames, NEW m \in Nat, NEW k \in 1 .. Len(s), m =< k,
         Picked(g, s, m)
  PROVE  Picked(Append(g, s[k]), s, k + 1)
<1> DEFINE h == Append(g, s[k])
           n == Len(g)
<1>1. PICK at : Chosen(at, g, s, m)
  BY DEF Picked
<1>2. /\ Len(s) \in Nat /\ n \in Nat /\ k \in Nat
      /\ Len(h) = n + 1 /\ h[n + 1] = s[k] /\ \A i \in 1 .. n : h[i] = g[i]
  <2>1. s[k] \in Seq(PayloadBytes)
    BY ElementOfSeq DEF Frames
  <2>. QED BY <2>1, AppendProperties, LenProperties DEF Frames
<1> DEFINE b == [i \in 1 .. n + 1 |-> IF i = n + 1 THEN k ELSE at[i]]
<1>3. \A i \in 1 .. n : at[i] \in 1 .. Len(s) /\ at[i] < m /\ g[i] = s[at[i]]
  BY <1>1 DEF Chosen
<1>4. \A i, j \in 1 .. n : i < j => at[i] < at[j]
  BY <1>1 DEF Chosen
<1>. HIDE DEF h, n
<1>5. \A i \in 1 .. n + 1 : i # n + 1 => i \in 1 .. n
  BY <1>2
<1>6. b \in [1 .. Len(h) -> 1 .. Len(s)]
  BY <1>2, <1>3, <1>5
<1>7. b[n + 1] = k /\ \A i \in 1 .. n : b[i] = at[i]
  BY <1>2
<1>. HIDE DEF b
<1>8. \A i, j \in 1 .. Len(h) : i < j => b[i] < b[j]
  <2>. SUFFICES ASSUME NEW i \in 1 .. n + 1, NEW j \in 1 .. n + 1, i < j PROVE b[i] < b[j]
    BY <1>2
  <2>1. i \in 1 .. n
    BY <1>2
  <2>2. CASE j = n + 1
    BY <1>2, <1>3, <1>7, <2>1, <2>2
  <2>3. CASE j # n + 1
    BY <1>4, <1>5, <1>7, <2>1, <2>3
  <2>. QED BY <2>2, <2>3
<1>9. \A i \in 1 .. Len(h) : h[i] = s[b[i]] /\ b[i] < k + 1
  <2>. SUFFICES ASSUME NEW i \in 1 .. n + 1 PROVE h[i] = s[b[i]] /\ b[i] < k + 1
    BY <1>2
  <2>1. CASE i = n + 1
    BY <1>2, <1>7, <2>1
  <2>2. CASE i # n + 1
    <3>1. i \in 1 .. n
      BY <1>5, <2>2
    <3>. QED BY <1>2, <1>3, <1>7, <3>1
  <2>. QED BY <2>1, <2>2
<1>10. Chosen(b, h, s, k + 1)
  BY <1>6, <1>8, <1>9 DEF Chosen
<1>. QED BY <1>10 DEF Picked, h

\* A frame is left out.
LEMMA PickedLess ==
  ASSUME NEW g \in Frames, NEW s \in Frames, NEW m \in Nat, Picked(g, s, m),
         NEW d \in 1 .. Len(g), NEW h \in Frames, Len(h) = Len(g) - 1,
         \A i \in 1 .. Len(h) : h[i] = IF i < d THEN g[i] ELSE g[i + 1]
  PROVE  Picked(h, s, m)
<1> DEFINE n == Len(g)
<1>1. PICK at : Chosen(at, g, s, m)
  BY DEF Picked
<1>2. n \in Nat /\ Len(s) \in Nat /\ Len(h) = n - 1 /\ d \in 1 .. n
  BY LenProperties DEF Frames
<1>3. \A i \in 1 .. n : at[i] \in 1 .. Len(s) /\ at[i] < m /\ g[i] = s[at[i]]
  BY <1>1 DEF Chosen
<1>4. \A i, j \in 1 .. n : i < j => at[i] < at[j]
  BY <1>1 DEF Chosen
<1> DEFINE b == [i \in 1 .. n - 1 |-> IF i < d THEN at[i] ELSE at[i + 1]]
<1>. HIDE DEF n
<1>5. \A i \in 1 .. n - 1 : i \in 1 .. n /\ i + 1 \in 1 .. n
  BY <1>2
<1>6. b \in [1 .. n - 1 -> 1 .. Len(s)]
  BY <1>3, <1>5
<1>7. \A i \in 1 .. n - 1 : b[i] = IF i < d THEN at[i] ELSE at[i + 1]
  OBVIOUS
<1>. HIDE DEF b
<1>8. \A i, j \in 1 .. n - 1 : i < j => b[i] < b[j]
  <2>. SUFFICES ASSUME NEW i \in 1 .. n - 1, NEW j \in 1 .. n - 1, i < j PROVE b[i] < b[j]
    OBVIOUS
  <2>1. i < j + 1 /\ i + 1 < j + 1 /\ i \in Nat /\ j \in Nat
    BY <1>2
  <2>2. at[i] < at[j] /\ at[i] < at[j + 1] /\ at[i + 1] < at[j + 1]
    BY <1>4, <1>5, <2>1
  <2>3. CASE j < d
    <3>1. i < d
      BY <1>2, <2>1, <2>3
    <3>. QED BY <1>7, <2>2, <2>3, <3>1
  <2>4. CASE ~(j < d)
    BY <1>7, <2>2, <2>4
  <2>. QED BY <2>3, <2>4
<1>9. \A i \in 1 .. n - 1 : h[i] = s[b[i]] /\ b[i] < m
  <2>. TAKE i \in 1 .. n - 1
  <2>1. h[i] = IF i < d THEN g[i] ELSE g[i + 1]
    BY <1>2
  <2>. QED BY <1>3, <1>5, <1>7, <2>1
<1>10. Chosen(b, h, s, m)
  BY <1>2, <1>6, <1>8, <1>9 DEF Chosen
<1>. QED BY <1>10 DEF Picked

LEMMA CompleteSend ==
  ASSUME NEW g \in Frames, NEW s \in Frames, NEW p \in Seq(PayloadBytes), NEW m \in 1 .. Len(s) + 1,
         Complete(g, s, m)
  PROVE  Complete(g, Append(s, p), m)
<1>1. Len(s) \in Nat /\ \A i \in 1 .. Len(s) : Append(s, p)[i] = s[i]
  BY AppendProperties, LenProperties DEF Frames
<1>2. \A i \in 1 .. Len(g) : i \in 1 .. Len(s)
  BY <1>1 DEF Complete
<1>. QED BY <1>1, <1>2 DEF Complete

LEMMA CompleteOneMore ==
  ASSUME NEW g \in Frames, NEW s \in Frames, NEW m \in 1 .. Len(s), Complete(g, s, m)
  PROVE  Complete(Append(g, s[m]), s, m + 1)
<1> DEFINE h == Append(g, s[m])
<1>1. s[m] \in Seq(PayloadBytes) /\ Len(s) \in Nat /\ Len(g) \in Nat
  BY ElementOfSeq, LenProperties DEF Frames
<1>2. Len(h) = Len(g) + 1 /\ h[Len(g) + 1] = s[m] /\ \A i \in 1 .. Len(g) : h[i] = g[i]
  BY <1>1, AppendProperties DEF Frames
<1>. HIDE DEF h
<1>3. Len(g) + 1 = m
  BY <1>1 DEF Complete
<1>4. ASSUME NEW i \in 1 .. Len(h) PROVE h[i] = s[i]
  <2>1. i = Len(g) + 1 \/ i \in 1 .. Len(g)
    BY <1>1, <1>2
  <2>. QED BY <1>2, <1>3, <2>1 DEF Complete
<1>. QED BY <1>2, <1>3, <1>4, <1>1 DEF Complete, h

\* Held, of any state.
Queued(f, m) == [i \in 1 .. Len(f) |-> m[f[i]]]
HeldOf(s, b, f, m) == (IF s = "got" THEN <<m[b]>> ELSE << >>) \o Queued(f, m)

LEMMA OneFrame ==
  ASSUME NEW x \in Seq(PayloadBytes)
  PROVE  <<x>> \in Frames /\ Len(<<x>>) = 1 /\ <<x>>[1] = x
BY DEF Frames

\* The frames of the queue, and those held, one by one.
Splits(s, b, f, m) ==
  /\ Queued(f, m) \in Frames /\ Len(Queued(f, m)) = Len(f)
  /\ \A i \in 1 .. Len(f) : Queued(f, m)[i] = m[f[i]]
  /\ s # "got" => HeldOf(s, b, f, m) = Queued(f, m)
  /\ s = "got" => HeldOf(s, b, f, m) = <<m[b]>> \o Queued(f, m)

LEMMA HeldSplit ==
  ASSUME NEW s, NEW b, NEW f \in Seq(Blocks), NEW m \in [Blocks -> Seq(PayloadBytes)]
  PROVE  Splits(s, b, f, m)
<1> DEFINE q == Queued(f, m)
<1>1. Len(f) \in Nat /\ \A i \in 1 .. Len(f) : m[f[i]] \in Seq(PayloadBytes)
  <2>1. Len(f) \in Nat /\ \A i \in 1 .. Len(f) : f[i] \in Blocks
    BY LenProperties, ElementOfSeq
  <2>. QED BY <2>1
<1>2. q \in Frames /\ Len(q) = Len(f) /\ \A i \in 1 .. Len(f) : q[i] = m[f[i]]
  BY <1>1 DEF Frames, Queued
<1>3. HeldOf(s, b, f, m) = (IF s = "got" THEN <<m[b]>> ELSE << >>) \o q
  BY DEF HeldOf
<1>. HIDE DEF q
<1>4. << >> \o q = q
  BY <1>2, ConcatEmptySeq DEF Frames
<1>. QED BY <1>2, <1>3, <1>4 DEF q, Splits

\* The frames of h are m[b] first, if s is "got", and those of the blocks of f.
Holds(h, s, b, f, m) ==
  /\ h \in Frames
  /\ Len(h) = IF s = "got" THEN Len(f) + 1 ELSE Len(f)
  /\ \A i \in 1 .. Len(h) : h[i] = IF s # "got" THEN m[f[i]]
                                   ELSE IF i = 1 THEN m[b] ELSE m[f[i - 1]]

LEMMA HeldIs ==
  ASSUME NEW s, NEW b, NEW f \in Seq(Blocks), NEW m \in [Blocks -> Seq(PayloadBytes)],
         s = "got" => b \in Blocks
  PROVE  Holds(HeldOf(s, b, f, m), s, b, f, m)
<1>1. Len(f) \in Nat
  BY LenProperties
<1>2. Splits(s, b, f, m)
  BY HeldSplit
<1> DEFINE q == Queued(f, m)
           h == HeldOf(s, b, f, m)
           a == <<m[b]>>
<1>3. /\ q \in Frames /\ Len(q) = Len(f) /\ \A i \in 1 .. Len(f) : q[i] = m[f[i]]
      /\ s # "got" => h = q
      /\ s = "got" => h = a \o q
  BY <1>2 DEF Splits
<1>. HIDE DEF q, h
<1>4. CASE s # "got"
  <2>1. h \in Frames /\ Len(h) = Len(f) /\ \A i \in 1 .. Len(h) : h[i] = m[f[i]]
    BY <1>3, <1>4
  <2>2. Holds(h, s, b, f, m)
    BY <1>4, <2>1 DEF Holds
  <2>. QED BY <2>2 DEF h
<1>5. CASE s = "got"
  <2>1. a \in Frames /\ Len(a) = 1 /\ a[1] = m[b]
    BY <1>5, OneFrame
  <2>2. h = a \o q
    BY <1>3, <1>5
  <2>. HIDE DEF a
  <2>3. /\ h \in Frames /\ Len(h) = 1 + Len(q)
        /\ \A i \in 1 .. 1 + Len(q) : h[i] = IF i =< 1 THEN a[i] ELSE q[i - 1]
    <3>1. /\ a \o q \in Seq(Seq(PayloadBytes)) /\ Len(a \o q) = Len(a) + Len(q)
          /\ \A i \in 1 .. Len(a) + Len(q) : (a \o q)[i] = IF i =< Len(a) THEN a[i] ELSE q[i - Len(a)]
      <4>1. a \in Seq(Seq(PayloadBytes)) /\ q \in Seq(Seq(PayloadBytes))
        BY <1>3, <2>1 DEF Frames
      <4>. QED BY <4>1, ConcatProperties
    <3>. QED BY <2>1, <2>2, <3>1 DEF Frames
  <2>4. \A i \in 1 .. 1 + Len(f) : h[i] = IF i = 1 THEN m[b] ELSE m[f[i - 1]]
    <3>. TAKE i \in 1 .. 1 + Len(f)
    <3>1. CASE i = 1
      BY <1>1, <1>3, <2>1, <2>3, <3>1
    <3>2. CASE i # 1
      <4>1. i - 1 \in 1 .. Len(f) /\ ~(i =< 1)
        BY <1>1, <3>2
      <4>. QED BY <1>3, <2>3, <3>2, <4>1
    <3>. QED BY <3>1, <3>2
  <2>5. Len(h) = Len(f) + 1 /\ 1 + Len(f) = Len(f) + 1
    BY <1>1, <1>3, <2>3
  <2>6. Holds(h, s, b, f, m)
    BY <1>5, <2>3, <2>4, <2>5 DEF Holds
  <2>. QED BY <2>6 DEF h
<1>. QED BY <1>4, <1>5

\* The frame is put in block c, which was free, and the block on the fifo.
Queues(s, b, f, m, c, frame, e, w) ==
  /\ f \in Seq(Blocks) /\ m \in [Blocks -> Seq(PayloadBytes)] /\ (s = "got" => b \in Blocks)
  /\ c \in Blocks /\ frame \in Seq(PayloadBytes)
  /\ c # b /\ \A i \in 1 .. Len(f) : f[i] # c
  /\ e = Append(f, c) /\ w = [m EXCEPT ![c] = frame]

LEMMA HeldEnqueue ==
  ASSUME NEW s, NEW b, NEW f, NEW m, NEW c, NEW frame, NEW e, NEW w,
         Queues(s, b, f, m, c, frame, e, w)
  PROVE  HeldOf(s, b, e, w) = Append(HeldOf(s, b, f, m), frame)
<1> DEFINE x == HeldOf(s, b, e, w)
           h == HeldOf(s, b, f, m)
           y == Append(h, frame)
           k == Len(f)
<1>0. /\ f \in Seq(Blocks) /\ m \in [Blocks -> Seq(PayloadBytes)] /\ (s = "got" => b \in Blocks)
      /\ c \in Blocks /\ frame \in Seq(PayloadBytes)
      /\ c # b /\ \A i \in 1 .. Len(f) : f[i] # c
  BY DEF Queues
<1>1. /\ e \in Seq(Blocks) /\ Len(e) = k + 1 /\ k \in Nat
      /\ e[k + 1] = c /\ \A i \in 1 .. k : e[i] = f[i] /\ f[i] \in Blocks
  BY <1>0, AppendProperties, LenProperties, ElementOfSeq DEF Queues
<1>2. /\ w \in [Blocks -> Seq(PayloadBytes)] /\ w[c] = frame
      /\ \A i \in Blocks : i # c => w[i] = m[i]
  BY <1>0 DEF Queues
<1>3. /\ x \in Frames /\ Len(x) = IF s = "got" THEN k + 2 ELSE k + 1
      /\ \A i \in 1 .. Len(x) : x[i] = IF s # "got" THEN w[e[i]]
                                       ELSE IF i = 1 THEN w[b] ELSE w[e[i - 1]]
  <2>1. Holds(x, s, b, e, w)
    BY <1>0, <1>1, <1>2, HeldIs
  <2>. HIDE DEF x
  <2>2. Len(e) + 1 = k + 2
    BY <1>1
  <2>. QED BY <1>1, <2>1, <2>2 DEF Holds
<1>4. /\ h \in Frames /\ Len(h) = IF s = "got" THEN k + 1 ELSE k
      /\ \A i \in 1 .. Len(h) : h[i] = IF s # "got" THEN m[f[i]]
                                       ELSE IF i = 1 THEN m[b] ELSE m[f[i - 1]]
  <2>1. Holds(h, s, b, f, m)
    BY <1>0, HeldIs
  <2>. HIDE DEF h
  <2>. QED BY <2>1 DEF Holds
<1>. HIDE DEF x, h
<1>5. /\ y \in Frames /\ Len(y) = Len(h) + 1 /\ y[Len(h) + 1] = frame
      /\ \A i \in 1 .. Len(h) : y[i] = h[i]
  BY <1>0, <1>4, AppendProperties DEF Frames
<1>6. Len(x) = Len(y)
  BY <1>1, <1>3, <1>4, <1>5
<1>. HIDE DEF y, k
<1>7. \A i \in 1 .. k : w[e[i]] = m[f[i]]
  BY <1>0, <1>1, <1>2 DEF k
<1>8. w[e[k + 1]] = frame
  BY <1>1, <1>2
<1>9. ASSUME NEW i \in 1 .. Len(x) PROVE x[i] = y[i]
  <2>1. CASE s # "got"
    <3>1. Len(x) = k + 1 /\ Len(h) = k /\ x[i] = w[e[i]]
      BY <1>3, <1>4, <2>1
    <3>2. CASE i = k + 1
      BY <1>5, <1>8, <3>1, <3>2
    <3>3. CASE i # k + 1
      <4>1. i \in 1 .. k
        BY <1>1, <3>1, <3>3
      <4>. QED BY <1>4, <1>5, <1>7, <2>1, <3>1, <4>1
    <3>. QED BY <3>2, <3>3
  <2>2. CASE s = "got"
    <3>1. Len(x) = k + 2 /\ Len(h) = k + 1 /\ k \in Nat
      BY <1>1, <1>3, <1>4, <2>2
    <3>2. CASE i = 1
      <4>1. 1 \in 1 .. Len(h)
        BY <3>1
      <4>2. x[i] = w[b] /\ y[i] = m[b]
        BY <1>3, <1>4, <1>5, <2>2, <3>2, <4>1
      <4>. QED BY <1>0, <1>2, <2>2, <4>2
    <3>3. CASE i = k + 2
      <4>1. i # 1 /\ i - 1 = k + 1 /\ Len(h) + 1 = i
        BY <3>1, <3>3
      <4>2. x[i] = w[e[k + 1]] /\ y[i] = frame
        BY <1>3, <1>5, <2>2, <4>1
      <4>. QED BY <1>8, <4>2
    <3>4. CASE i # 1 /\ i # k + 2
      <4>1. i - 1 \in 1 .. k /\ i \in 1 .. Len(h)
        BY <3>1, <3>4
      <4>2. x[i] = w[e[i - 1]] /\ y[i] = m[f[i - 1]]
        BY <1>3, <1>4, <1>5, <2>2, <3>4, <4>1
      <4>. QED BY <1>7, <4>1, <4>2
    <3>. QED BY <3>2, <3>3, <3>4
  <2>. QED BY <2>1, <2>2
<1>10. x = y
  <2>1. x \in Seq(Seq(PayloadBytes)) /\ y \in Seq(Seq(PayloadBytes))
    BY <1>3, <1>5 DEF Frames
  <2>. QED BY <1>6, <1>9, <2>1, SeqEqual
<1>. QED BY <1>10 DEF x, y, h

\* The head of the fifo becomes rx_thread's.
LEMMA HeldGet ==
  ASSUME NEW b, NEW s, s # "got", NEW f \in Seq(Blocks), f # << >>,
         NEW m \in [Blocks -> Seq(PayloadBytes)]
  PROVE  HeldOf("got", Head(f), Tail(f), m) = HeldOf(s, b, f, m)
<1> DEFINE c == Head(f)
           e == Tail(f)
           x == HeldOf("got", c, e, m)
           y == HeldOf(s, b, f, m)
<1>1. /\ c \in Blocks /\ e \in Seq(Blocks) /\ Len(e) = Len(f) - 1 /\ c = f[1]
      /\ Len(f) \in Nat \ {0} /\ \A i \in 1 .. Len(e) : e[i] = f[i + 1]
  BY HeadTailProperties, EmptySeq
<1>. HIDE DEF c, e
<1>2. /\ x \in Frames /\ Len(x) = Len(e) + 1
      /\ \A i \in 1 .. Len(x) : x[i] = IF i = 1 THEN m[c] ELSE m[e[i - 1]]
  <2>1. Holds(x, "got", c, e, m)
    BY <1>1, HeldIs
  <2>. HIDE DEF x
  <2>. QED BY <2>1 DEF Holds
<1>3. y \in Frames /\ Len(y) = Len(f) /\ \A i \in 1 .. Len(y) : y[i] = m[f[i]]
  <2>1. Holds(y, s, b, f, m)
    BY HeldIs
  <2>. HIDE DEF y
  <2>. QED BY <2>1 DEF Holds
<1>. HIDE DEF x, y
<1>4. Len(x) = Len(y)
  BY <1>1, <1>2, <1>3
<1>5. ASSUME NEW i \in 1 .. Len(x) PROVE x[i] = y[i]
  <2>1. CASE i = 1
    BY <1>1, <1>2, <1>3, <1>4, <2>1
  <2>2. CASE i # 1
    <3>1. i - 1 \in 1 .. Len(e) /\ (i - 1) + 1 = i
      BY <1>1, <1>2, <2>2
    <3>2. e[i - 1] = f[i]
      BY <1>1, <3>1
    <3>. QED BY <1>2, <1>3, <1>4, <2>2, <3>2
  <2>. QED BY <2>1, <2>2
<1>6. x = y
  BY <1>2, <1>3, <1>4, <1>5, SeqEqual DEF Frames
<1>. QED BY <1>6 DEF x, y, c, e

\* rx_thread's frame passed on, and left out.
LEMMA PassOn ==
  ASSUME NEW a \in Frames, NEW x \in Seq(PayloadBytes), NEW q \in Frames
  PROVE  Append(a, x) \o q = a \o (<<x>> \o q)
<1>1. Append(a, x) = a \o <<x>> /\ <<x>> \in Frames
  BY AppendIsConcat, OneFrame DEF Frames
<1>. QED BY <1>1, ConcatAssociative DEF Frames

LEMMA LeaveOut ==
  ASSUME NEW a \in Frames, NEW x \in Seq(PayloadBytes), NEW q \in Frames,
         NEW s \in Frames, NEW m \in Nat, Picked(a \o (<<x>> \o q), s, m)
  PROVE  Picked(a \o q, s, m)
<1> DEFINE y == <<x>> \o q
           g == a \o y
           h == a \o q
           one == <<x>>
<1>1. Len(a) \in Nat /\ Len(q) \in Nat
  BY LenProperties DEF Frames
<1>2. one \in Frames /\ Len(one) = 1
  BY OneFrame
<1>3. /\ y \in Frames /\ Len(y) = 1 + Len(q)
      /\ \A i \in 1 .. 1 + Len(q) : y[i] = IF i =< 1 THEN one[i] ELSE q[i - 1]
  <2>. HIDE DEF one
  <2>1. /\ one \o q \in Frames /\ Len(one \o q) = 1 + Len(q)
        /\ \A i \in 1 .. 1 + Len(q) : (one \o q)[i] = IF i =< 1 THEN one[i] ELSE q[i - 1]
    <3>1. one \in Seq(Seq(PayloadBytes)) /\ q \in Seq(Seq(PayloadBytes))
      BY <1>2 DEF Frames
    <3>2. /\ one \o q \in Seq(Seq(PayloadBytes)) /\ Len(one \o q) = Len(one) + Len(q)
          /\ \A i \in 1 .. Len(one) + Len(q) :
               (one \o q)[i] = IF i =< Len(one) THEN one[i] ELSE q[i - Len(one)]
      BY <3>1, ConcatProperties
    <3>. QED BY <1>2, <3>2 DEF Frames
  <2>. QED BY <2>1 DEF one
<1>. HIDE DEF one, y
<1>4. /\ g \in Frames /\ Len(g) = Len(a) + Len(y)
      /\ \A i \in 1 .. Len(a) + Len(y) : g[i] = IF i =< Len(a) THEN a[i] ELSE y[i - Len(a)]
  BY <1>3, ConcatProperties DEF Frames
<1>5. /\ h \in Frames /\ Len(h) = Len(a) + Len(q)
      /\ \A i \in 1 .. Len(a) + Len(q) : h[i] = IF i =< Len(a) THEN a[i] ELSE q[i - Len(a)]
  BY ConcatProperties DEF Frames
<1> DEFINE d == Len(a) + 1
<1>. HIDE DEF g, h
<1>6. d \in 1 .. Len(g) /\ Len(h) = Len(g) - 1
  BY <1>1, <1>3, <1>4, <1>5
<1>7. ASSUME NEW i \in 1 .. Len(h) PROVE h[i] = IF i < d THEN g[i] ELSE g[i + 1]
  <2>1. CASE i < d
    <3>1. i =< Len(a) /\ i \in 1 .. Len(a) + Len(q) /\ i \in 1 .. Len(a) + Len(y)
      BY <1>1, <1>3, <1>5, <2>1
    <3>. QED BY <1>4, <1>5, <2>1, <3>1
  <2>2. CASE ~(i < d)
    <3> DEFINE j == i - Len(a)
               r == j + 1
               k == i + 1
    <3>1. /\ ~(i =< Len(a)) /\ i \in 1 .. Len(a) + Len(q)
          /\ r \in 1 .. 1 + Len(q) /\ ~(r =< 1) /\ r - 1 = j
          /\ k \in 1 .. Len(a) + Len(y) /\ ~(k =< Len(a)) /\ k - Len(a) = r
      BY <1>1, <1>3, <1>5, <2>2
    <3>2. h[i] = q[j]
      BY <1>5, <3>1
    <3>. HIDE DEF j, r, k
    <3>3. g[k] = y[r]
      BY <1>4, <3>1
    <3>4. y[r] = q[j]
      BY <1>3, <3>1
    <3>. QED BY <2>2, <3>1, <3>2, <3>3, <3>4 DEF k
  <2>. QED BY <2>1, <2>2
<1>. HIDE DEF d
<1>8. Picked(g, s, m)
  BY DEF g, y, one
<1>9. Picked(h, s, m)
  BY <1>4, <1>5, <1>6, <1>7, <1>8, PickedLess
<1>. QED BY <1>9 DEF h

-----------------------------------------------------------------------------
(* The deframer on the line. *)

LEMMA FirstTag ==
  ASSUME NEW s \in Frames, NEW q \in Seq(Bytes), NEW tag \in [Nat -> Tags], Stream(s, q, tag)
  PROVE  tag[1].k \in 1 .. Len(s) + 1
<1>1. Len(s) \in Nat /\ Len(q) \in Nat
  BY LenProperties DEF Frames
<1>2. CASE Len(q) = 0
  <2>1. tag[1] = Tag(Len(s) + 1, 0, 1)
    BY <1>2 DEF Stream
  <2>2. tag[1].k = Len(s) + 1
    BY <1>1, <2>1, TagType
  <2>. QED BY <1>1, <2>2
<1>3. CASE Len(q) # 0
  <2>1. 1 \in 1 .. Len(q)
    BY <1>1, <1>3
  <2>2. tag[1].k \in 1 .. Len(s)
    BY <2>1 DEF Stream, Moves
  <2>. QED BY <1>1, <2>2
<1>. QED BY <1>2, <1>3

\* What a call of slip_deframer says, with t the tag of the first byte before it
\* and u after it: the frame it returns was sent at place t.k or after it, and in
\* step with the stream it is the one at t.k.
Got(s, d, t, call, u) ==
  \/ /\ call.frame = << >>
     /\ InStep(d, t) => \/ call.ret \notin {"more", "frame"}
                        \/ InStep(call.d, u) /\ u.k = t.k
  \/ \E k \in 1 .. Len(s) : /\ call.frame = s[k]
                            /\ t.k =< k /\ u.k = k + 1
                            /\ InStep(call.d, u)
                            /\ InStep(d, t) => k = t.k

LEMMA BytesRegroup ==
  ASSUME NEW a \in Seq(Bytes), NEW b \in Seq(Bytes), NEW c \in Seq(Bytes)
  PROVE  (a \o b) \o c = a \o (b \o c)
BY ConcatAssociative

LEMMA StreamAfter ==
  ASSUME NEW s \in Frames, NEW d \in Deframers, Bounded(d), NEW l \in Seq(Bytes),
         NEW n \in 1 .. Len(l), NEW tag \in [Nat -> Tags], Stream(s, d.fifo \o l, tag),
         Matched(s, d, tag[1])
  PROVE  LET call == Deframe(d, SubSeq(l, 1, n))
         IN  /\ call.d \in Deframers /\ Bounded(call.d) /\ Len(call.d.fifo) =< FifoDepth
             /\ call.frame \in Seq(PayloadBytes)
             /\ \E g \in [Nat -> Tags] :
                  /\ Stream(s, call.d.fifo \o SubSeq(l, n + 1, Len(l)), g)
                  /\ Matched(s, call.d, g[1])
                  /\ tag[1].k =< g[1].k
                  /\ Got(s, d, tag[1], call, g[1])
<1> DEFINE chunk == SubSeq(l, 1, n)
           rest == SubSeq(l, n + 1, Len(l))
           call == Deframe(d, chunk)
           all == d.fifo \o chunk
           q == all \o rest
<1>1. /\ Len(l) \in Nat /\ n \in Nat /\ d.fifo \in Seq(Bytes)
      /\ \A i \in 1 .. n : l[i] \in Bytes
  BY LenProperties, ElementOfSeq DEF Deframers
<1>2. chunk \in Seq(Bytes) /\ Len(chunk) = n
  BY <1>1, SubSeqProperties
<1>3. rest \in Seq(Bytes)
  <2>1. n \in 0 .. Len(l)
    BY <1>1
  <2>. QED BY <2>1, DropType
<1>4. l = chunk \o rest
  <2>1. 1 \in 1 .. Len(l) + 1 /\ n \in 1 - 1 .. Len(l) /\ Len(l) \in n .. Len(l)
    BY <1>1
  <2>2. chunk \o rest = SubSeq(l, 1, Len(l))
    BY <2>1, ConcatAdjacentSubSeq
  <2>. QED BY <2>2, SubSeqFull
<1>. HIDE DEF chunk, rest
<1>5. /\ all \in Seq(Bytes) /\ Len(all) \in Nat /\ d.fifo \o l = q
      /\ q \in Seq(Bytes) /\ Len(q) \in Nat /\ Len(q) >= Len(all)
      /\ \A i \in 1 .. Len(all) : i \in 1 .. Len(q) /\ q[i] = all[i]
  <2>1. all \in Seq(Bytes) /\ Len(all) \in Nat /\ Len(rest) \in Nat
    BY <1>1, <1>2, <1>3, ConcatProperties, LenProperties
  <2>2. d.fifo \o l = q
    <3> DEFINE f == d.fifo
    <3>1. f \in Seq(Bytes) /\ chunk \in Seq(Bytes) /\ rest \in Seq(Bytes)
      BY <1>1, <1>2, <1>3
    <3>. HIDE DEF f
    <3>2. (f \o chunk) \o rest = f \o (chunk \o rest)
      BY <3>1, BytesRegroup
    <3>. QED BY <1>4, <3>2 DEF f
  <2>. HIDE DEF all
  <2>3. /\ q \in Seq(Bytes) /\ Len(q) = Len(all) + Len(rest)
        /\ \A i \in 1 .. Len(all) + Len(rest) : q[i] = IF i =< Len(all) THEN all[i] ELSE rest[i - Len(all)]
    BY <1>3, <2>1, ConcatProperties
  <2>4. \A i \in 1 .. Len(all) : i \in 1 .. Len(all) + Len(rest) /\ i =< Len(all)
    BY <2>1
  <2>. QED BY <2>1, <2>2, <2>3, <2>4
<1>. HIDE DEF q
<1>6. Stream(s, q, tag)
  BY <1>5
<1> DEFINE a == all
<1>7. a = d.fifo \o chunk
  OBVIOUS
<1>. HIDE DEF a
<1>8. \A i \in 1 .. Len(a) : Moves(s, a[i], tag[i], tag[i + 1])
  BY <1>5, <1>6 DEF Stream, a
<1>9. /\ call.d \in Deframers /\ Bounded(call.d) /\ Len(call.d.fifo) =< FifoDepth
      /\ call.frame \in Seq(PayloadBytes)
      /\ \E used \in 0 .. Len(a) : Outcome(s, d, a, tag, call, used)
  BY <1>2, <1>7, <1>8, DeframeStep
<1>. HIDE DEF call
<1>10. PICK used \in 0 .. Len(a) : Outcome(s, d, a, tag, call, used)
  BY <1>9
<1>11. /\ used \in Nat /\ used \in 0 .. Len(q) /\ used \in 0 .. Len(all)
       /\ used + 1 \in 1 .. Len(q) + 1 /\ 1 \in 1 .. Len(q) + 1 /\ 1 =< used + 1
       /\ used # 0 => used \in 1 .. Len(a) /\ used \in 1 .. Len(q) + 1 /\ 1 =< used
  <2> DEFINE x == Len(a)
             y == Len(q)
  <2>1. x \in Nat /\ y \in Nat /\ x =< y /\ used \in 0 .. x /\ Len(all) = x
    BY <1>5 DEF a
  <2>. HIDE DEF x, y
  <2>2. /\ used \in Nat /\ used \in 0 .. y /\ used \in 0 .. x
        /\ used + 1 \in 1 .. y + 1 /\ 1 \in 1 .. y + 1 /\ 1 =< used + 1
        /\ used # 0 => used \in 1 .. x /\ used \in 1 .. y + 1 /\ 1 =< used
    BY <2>1
  <2>. QED BY <2>1, <2>2 DEF x, y
<1>12. call.d.fifo \o rest = SubSeq(q, used + 1, Len(q))
  <2>1. call.d.fifo = SubSeq(all, used + 1, Len(all))
    BY <1>10 DEF Outcome, a
  <2>2. SubSeq(all, used + 1, Len(all)) \o rest = SubSeq(all \o rest, used + 1, Len(all \o rest))
    BY <1>3, <1>5, <1>11, DropConcat
  <2>. QED BY <2>1, <2>2 DEF q
<1>13. PICK g \in [Nat -> Tags] : /\ Stream(s, SubSeq(q, used + 1, Len(q)), g)
                                  /\ g[1] = tag[used + 1]
  <2>1. q \in Seq(Bytes) /\ Stream(s, q, tag) /\ used \in 0 .. Len(q)
    BY <1>5, <1>6, <1>11
  <2>. QED BY <2>1, StreamDrop
<1>14. Stream(s, call.d.fifo \o rest, g)
  BY <1>12, <1>13
<1>15. Matched(s, call.d, g[1])
  BY <1>10, <1>13 DEF Outcome
<1>16. tag[1].k =< g[1].k
  BY <1>6, <1>11, <1>13 DEF Stream
<1>17. Got(s, d, tag[1], call, g[1])
  <2> DEFINE u == g[1]
             t == tag[1]
  <2>1. u = tag[used + 1]
    BY <1>13
  <2>. HIDE DEF u, t
  <2>2. CASE call.ret \notin {"more", "frame"} /\ call.frame = << >>
    BY <2>2 DEF Got, u, t
  <2>3. CASE /\ call.ret = "more" /\ call.frame = << >>
             /\ InStep(d, t) => InStep(call.d, u) /\ u.k = t.k
    BY <2>3 DEF Got, u, t
  <2>4. CASE call.frame = << >> /\ ~InStep(d, t)
    BY <2>4 DEF Got, u, t
  <2>5. CASE /\ used # 0
             /\ call.frame = s[tag[used].k]
             /\ u = Tag(tag[used].k + 1, 0, 1)
             /\ call.d.state = "INIT"
             /\ InStep(d, t) => tag[used].k = t.k
    <3> DEFINE k == tag[used].k
    <3>1. k \in 1 .. Len(s) /\ k \in Nat
      <4>1. Moves(s, a[used], tag[used], tag[used + 1])
        BY <1>8, <1>11, <2>5
      <4>2. Len(s) \in Nat
        BY LenProperties DEF Frames
      <4>. QED BY <4>1, <4>2 DEF Moves
    <3>2. t.k =< k
      BY <1>6, <1>11, <2>5 DEF Stream, t
    <3>3. u.k = k + 1 /\ u.j = 0
      BY <2>5, <3>1, TagType
    <3>4. InStep(call.d, u)
      BY <2>5, <3>3 DEF InStep
    <3>5. call.frame = s[k] /\ (InStep(d, t) => k = t.k)
      BY <2>5
    <3>. HIDE DEF k
    <3>. QED BY <3>1, <3>2, <3>3, <3>4, <3>5 DEF Got, u, t
  <2>6. \/ call.ret \notin {"more", "frame"} /\ call.frame = << >>
        \/ /\ call.ret = "more" /\ call.frame = << >>
           /\ InStep(d, t) => InStep(call.d, u) /\ u.k = t.k
        \/ call.frame = << >> /\ ~InStep(d, t)
        \/ /\ used # 0
           /\ call.frame = s[tag[used].k]
           /\ u = Tag(tag[used].k + 1, 0, 1)
           /\ call.d.state = "INIT"
           /\ InStep(d, t) => tag[used].k = t.k
    BY <1>10, <2>1 DEF Outcome, t
  <2>. QED BY <2>2, <2>3, <2>4, <2>5, <2>6 DEF u, t
<1>. QED BY <1>9, <1>14, <1>15, <1>16, <1>17 DEF call, chunk, rest

-----------------------------------------------------------------------------
(* The invariant. *)

\* The frames received so far, delivered or not.
Received == passed \o Held

\* A loss was reported, or bytes came too early.
Lossy == reported \/ discarded

\* The bytes the deframer has not used are a stretch of the framing of the frames
\* sent, up to its end; the deframer's state fits the place where it begins, and
\* the frames received were all sent before that place.
StreamInv ==
  \E tag \in [Nat -> Tags] :
    /\ Stream(sent, deframer.fifo \o line, tag)
    /\ Matched(sent, deframer, tag[1])
    /\ Picked(Received, sent, tag[1].k)
    /\ ~Lossy => InStep(deframer, tag[1]) /\ Complete(Received, sent, tag[1].k)

EthInv == /\ TypeOK
          /\ OneOwner
          /\ Bounded(deframer)
          /\ ~init_done => deframer = slip_deframer_init
          /\ StreamInv

LEMMA SentFrames ==
  ASSUME NEW s \in Seq(Packets)
  PROVE  s \in Frames /\ \A i \in 1 .. Len(s) : s[i] \in Seq(PayloadBytes) \ {<< >>}
<1>1. Packets \subseteq Seq(PayloadBytes) \ {<< >>} /\ Packets \subseteq Seq(PayloadBytes)
  BY EthSerialAssumption
<1>2. s \in Seq(Seq(PayloadBytes))
  BY <1>1, SeqMonotonic
<1>3. \A i \in 1 .. Len(s) : s[i] \in Packets
  BY ElementOfSeq
<1>. QED BY <1>1, <1>2, <1>3 DEF Frames

\* What the invariant says of the variables' types, in the forms the lemmas want.
LEMMA EthTypes ==
  ASSUME EthInv
  PROVE  /\ line \in Seq(Bytes) /\ deframer \in Deframers /\ deframer.fifo \in Seq(Bytes)
         /\ deframer.fifo \o line \in Seq(Bytes)
         /\ rx_fifo \in Seq(Blocks) /\ msg \in [Blocks -> Seq(PayloadBytes)]
         /\ stage # "wait" => item \in Blocks
         /\ sent \in Seq(Packets) /\ sent \in Frames /\ Len(sent) \in Nat
         /\ passed \in Frames /\ Held \in Frames /\ Received \in Frames
         /\ Held = HeldOf(stage, item, rx_fifo, msg)
         /\ BlockInv
<1>1. /\ line \in Seq(Bytes) /\ deframer \in Deframers
      /\ rx_fifo \in Seq(Blocks) /\ msg \in [Blocks -> Seq(PayloadBytes)]
      /\ sent \in Seq(Packets) /\ passed \in Frames
      /\ stage # "wait" => item \in Blocks
      /\ BlockInv
  BY DEF EthInv, TypeOK, OneOwner, BlockInv, Owner, Frames
<1>2. deframer.fifo \in Seq(Bytes)
  BY <1>1 DEF Deframers
<1>3. deframer.fifo \o line \in Seq(Bytes)
  BY <1>1, <1>2, ConcatProperties
<1>4. sent \in Frames
  BY <1>1, SentFrames
<1>5. Len(sent) \in Nat
  BY <1>1, LenProperties
<1>6. Held = HeldOf(stage, item, rx_fifo, msg)
  BY DEF Held, HeldOf, Queued
<1>7. stage = "got" => item \in Blocks
  BY <1>1
<1>8. Holds(HeldOf(stage, item, rx_fifo, msg), stage, item, rx_fifo, msg)
  BY <1>1, <1>7, HeldIs
<1>9. Held \in Frames
  BY <1>6, <1>8 DEF Holds
<1>10. Received \in Frames
  BY <1>1, <1>9, ConcatProperties DEF Frames, Received
<1>. QED BY <1>1, <1>2, <1>3, <1>4, <1>5, <1>6, <1>9, <1>10

LEMMA EthInit == Init => EthInv
<1>. SUFFICES ASSUME Init PROVE EthInv
  OBVIOUS
<1> USE DEF Init
<1>1. << >> \in Frames /\ << >> \in Seq(Bytes) /\ << >> \in Seq(PayloadBytes) /\ Len(<< >>) = 0
  BY EmptySeq DEF Frames
<1>2. /\ deframer.fifo = << >> /\ deframer.out = << >> /\ deframer.state = "INIT"
      /\ deframer.get_escaped = FALSE /\ deframer \in Deframers
  BY <1>1 DEF slip_deframer_init, Deframers
<1>3. TypeOK
  <2>1. 0 =< FifoDepth /\ 0 =< BufOutMax
    BY SlipAssumption
  <2>2. /\ rx_fifo \in Seq(Blocks) /\ sent \in Seq(Packets)
        /\ passed \in Seq(Seq(PayloadBytes)) /\ msg \in [Blocks -> Seq(PayloadBytes)]
        /\ line \in Seq(Bytes)
    BY EmptySeq
  <2>. QED BY <1>1, <1>2, <2>1, <2>2 DEF TypeOK
<1>4. OneOwner
  BY EthSerialAssumption DEF OneOwner
<1>5. Bounded(deframer)
  <2>1. 0 =< BufOutMax
    BY SlipAssumption
  <2>. QED BY <1>1, <1>2, <2>1 DEF Bounded
<1>6. Received = << >>
  <2>1. Held = HeldOf("wait", NoBlock, << >>, msg)
    BY DEF Held, HeldOf, Queued
  <2>2. << >> \in Seq(Blocks) /\ msg \in [Blocks -> Seq(PayloadBytes)]
    BY EmptySeq
  <2>3. HeldOf("wait", NoBlock, << >>, msg) = Queued(<< >>, msg)
        /\ Queued(<< >>, msg) \in Frames /\ Len(Queued(<< >>, msg)) = 0
    <3>. HIDE DEF Init
    <3>1. Splits("wait", NoBlock, << >>, msg)
      BY <2>2, HeldSplit
    <3>. QED BY <3>1 DEF Splits
  <2>4. Held \in Frames /\ Len(Held) = 0
    BY <2>1, <2>3
  <2>5. Held = << >>
    BY <2>4, EmptySeq DEF Frames
  <2>6. << >> \o << >> = << >>
    BY <1>1, ConcatEmptySeq DEF Frames
  <2>. QED BY <2>5, <2>6 DEF Received
<1>7. StreamInv
  <2> DEFINE tag == [i \in Nat |-> Tag(1, 0, 1)]
             q == deframer.fifo \o line
  <2>1. tag \in [Nat -> Tags] /\ \A i \in Nat : tag[i] = Tag(1, 0, 1)
    BY TagType
  <2>2. q = << >> /\ Len(q) = 0
    BY <1>1, <1>2, ConcatEmptySeq
  <2>. HIDE DEF tag, q
  <2>3. Tag(1, 0, 1).k = 1 /\ Tag(1, 0, 1).j = 0 /\ 0 + 1 = 1 /\ 1 .. 0 = {}
    BY TagType
  <2>4. tag[1] = Tag(1, 0, 1)
    BY <2>1
  <2>5. Stream(sent, q, tag)
    <3>1. \A i, j \in 1 .. 0 + 1 : tag[i].k =< tag[j].k
      <4>. TAKE i, j \in 1 .. 0 + 1
      <4>1. tag[i].k = 1 /\ tag[j].k = 1
        BY <2>1, <2>3
      <4>. QED BY <4>1
    <3>. QED BY <1>1, <2>2, <2>3, <2>4, <3>1 DEF Stream
  <2>6. Matched(sent, deframer, tag[1])
    BY <1>2 DEF Matched
  <2>7. Picked(Received, sent, tag[1].k)
    <3>1. Chosen(<< >>, << >>, << >>, 1)
      <4>1. << >> \in [1 .. 0 -> 1 .. 0]
        BY <1>1, LenProperties, EmptySeq
      <4>. QED BY <1>1, <2>3, <4>1 DEF Chosen
    <3>. QED BY <1>6, <2>3, <2>4, <3>1 DEF Picked
  <2>8. InStep(deframer, tag[1]) /\ Complete(Received, sent, tag[1].k)
    BY <1>1, <1>2, <1>6, <2>3, <2>4 DEF InStep, Complete
  <2>. QED BY <2>1, <2>5, <2>6, <2>7, <2>8 DEF StreamInv, q
<1>. QED BY <1>3, <1>4, <1>5, <1>7 DEF EthInv

\* A step that does not receive a byte and keeps every frame.
LEMMA FramesKept ==
  ASSUME EthInv, UNCHANGED <<line, deframer, sent>>, Lossy => Lossy', Received' = Received
  PROVE  StreamInv'
<1>1. PICK tag \in [Nat -> Tags] :
        /\ Stream(sent, deframer.fifo \o line, tag)
        /\ Matched(sent, deframer, tag[1])
        /\ Picked(Received, sent, tag[1].k)
        /\ ~Lossy => InStep(deframer, tag[1]) /\ Complete(Received, sent, tag[1].k)
  BY DEF EthInv, StreamInv
<1>. HIDE DEF Received
<1>. QED BY <1>1 DEF StreamInv

\* A step that does not receive a byte and drops a frame.
LEMMA FrameDropped ==
  ASSUME EthInv, UNCHANGED <<line, deframer, sent>>, Lossy',
         \A m \in Nat : Picked(Received, sent, m) => Picked(Received', sent, m)
  PROVE  StreamInv'
<1>1. PICK tag \in [Nat -> Tags] :
        /\ Stream(sent, deframer.fifo \o line, tag)
        /\ Matched(sent, deframer, tag[1])
        /\ Picked(Received, sent, tag[1].k)
  BY DEF EthInv, StreamInv
<1>2. tag[1].k \in Nat
  <2>1. tag[1] \in Tags
    OBVIOUS
  <2>. QED BY <2>1 DEF Tags
<1>. HIDE DEF Received
<1>3. Picked(Received', sent, tag[1].k)
  BY <1>1, <1>2
<1>. QED BY <1>1, <1>3 DEF StreamInv

LEMMA SendEth == ASSUME EthInv, NEW p \in Packets, eth_serial_send(p) PROVE EthInv'
<1> DEFINE q == deframer.fifo \o line
           e == slip_framer(p)
<1>1. p \in Seq(PayloadBytes)
  BY EthSerialAssumption
<1>2. /\ sent' = Append(sent, p) /\ line' = line \o e
      /\ UNCHANGED <<init_done, deframer, rx_pool, rx_fifo, msg, item, stage, passed, reported, discarded>>
  BY DEF eth_serial_send
<1>3. e \in Seq(Bytes)
  <2>1. 1 \in Nat
    OBVIOUS
  <2>. QED BY <1>1, <2>1, FrameTags
<1>. HIDE DEF e
<1>4. line' \in Seq(Bytes) /\ deframer'.fifo \o line' = q \o e
  <2> DEFINE f == deframer.fifo
  <2>1. f \in Seq(Bytes) /\ line \in Seq(Bytes)
    BY EthTypes
  <2>. HIDE DEF f
  <2>2. line \o e \in Seq(Bytes) /\ (f \o line) \o e = f \o (line \o e)
    BY <1>3, <2>1, ConcatProperties, ConcatAssociative
  <2>. QED BY <1>2, <2>2 DEF f
<1>5. sent' \in Seq(Packets)
  <2>1. sent \in Seq(Packets)
    BY EthTypes
  <2>. QED BY <1>2, <2>1, AppendProperties
<1>6. TypeOK'
  BY <1>2, <1>4, <1>5 DEF EthInv, TypeOK
<1>7. OneOwner' /\ Bounded(deframer)' /\ (~init_done' => deframer' = slip_deframer_init)
  BY <1>2 DEF EthInv, OneOwner, Bounded
<1>8. Received' = Received
  BY <1>2 DEF Received, Held
<1>9. sent \in Frames /\ Len(sent) \in Nat /\ q \in Seq(Bytes) /\ Received \in Frames
  BY EthTypes
<1>. HIDE DEF q
<1>10. PICK tag \in [Nat -> Tags] :
         /\ Stream(sent, q, tag)
         /\ Matched(sent, deframer, tag[1])
         /\ Picked(Received, sent, tag[1].k)
         /\ ~Lossy => InStep(deframer, tag[1]) /\ Complete(Received, sent, tag[1].k)
  BY DEF EthInv, StreamInv, q
<1>11. PICK g \in [Nat -> Tags] : Stream(Append(sent, p), q \o e, g) /\ g[1] = tag[1]
  BY <1>1, <1>9, <1>10, StreamSend DEF e
<1>12. tag[1].k \in 1 .. Len(sent) + 1
  BY <1>9, <1>10, FirstTag
<1>. HIDE DEF Received
<1>13. /\ Matched(sent', deframer', g[1])
       /\ Picked(Received', sent', g[1].k)
       /\ ~Lossy' => InStep(deframer', g[1]) /\ Complete(Received', sent', g[1].k)
  <2>1. Matched(Append(sent, p), deframer, tag[1])
    BY <1>1, <1>9, <1>10, MatchedAppend
  <2>2. Picked(Received, Append(sent, p), tag[1].k)
    BY <1>1, <1>9, <1>10, PickedSend
  <2>3. ~Lossy => Complete(Received, Append(sent, p), tag[1].k)
    BY <1>1, <1>9, <1>10, <1>12, CompleteSend
  <2>. QED BY <1>2, <1>8, <1>10, <1>11, <2>1, <2>2, <2>3 DEF Lossy
<1>14. Stream(sent', deframer'.fifo \o line', g)
  BY <1>2, <1>4, <1>11
<1>15. StreamInv'
  BY <1>13, <1>14 DEF StreamInv
<1>. QED BY <1>6, <1>7, <1>15 DEF EthInv

LEMMA InitEth == ASSUME EthInv, eth_serial_iface_init PROVE EthInv'
<1>1. /\ init_done' = TRUE
      /\ UNCHANGED <<line, deframer, rx_pool, rx_fifo, msg, item, stage, sent, passed, reported, discarded>>
  BY DEF eth_serial_iface_init
<1>2. TypeOK' /\ OneOwner' /\ Bounded(deframer)'
  BY <1>1 DEF EthInv, TypeOK, OneOwner, Bounded
<1>3. Received' = Received
  BY <1>1 DEF Received, Held
<1>4. StreamInv'
  BY <1>1, <1>3, FramesKept DEF Lossy
<1>. QED BY <1>1, <1>2, <1>4 DEF EthInv

\* Bytes discarded before the interface is initialised.
LEMMA EarlyEth ==
  ASSUME EthInv, NEW n \in 1 .. ChunkMax, n =< Len(line), recv_cb_early(n) PROVE EthInv'
<1> DEFINE rest == SubSeq(line, n + 1, Len(line))
<1>1. /\ ~init_done /\ line' = rest /\ discarded' = TRUE
      /\ UNCHANGED <<init_done, deframer, rx_pool, rx_fifo, msg, item, stage, sent, passed,
                     reported>>
  BY DEF recv_cb_early
<1>2. line \in Seq(Bytes) /\ sent \in Frames /\ Len(line) \in Nat
  <2>1. line \in Seq(Bytes) /\ sent \in Frames
    BY EthTypes
  <2>. QED BY <2>1, LenProperties
<1>3. n \in 0 .. Len(line) /\ 1 \in 1 .. Len(line) + 1 /\ n + 1 \in 1 .. Len(line) + 1 /\ 1 =< n + 1
  BY <1>2, EthSerialAssumption
<1>4. rest \in Seq(Bytes)
  BY <1>2, <1>3, DropType
<1>5. TypeOK' /\ OneOwner' /\ Bounded(deframer)' /\ (~init_done' => deframer' = slip_deframer_init)
  <2>. HIDE DEF rest
  <2>. QED BY <1>1, <1>4 DEF EthInv, TypeOK, OneOwner, Bounded
<1>6. deframer.fifo = << >> /\ deframer.state = "INIT"
  BY <1>1 DEF EthInv, slip_deframer_init
<1>7. << >> \o line = line /\ << >> \o rest = rest
  <2>. HIDE DEF rest
  <2>. QED BY <1>2, <1>4, ConcatEmptySeq
<1>8. Received' = Received
  BY <1>1 DEF Received, Held
<1>9. PICK tag \in [Nat -> Tags] : Stream(sent, line, tag) /\ Picked(Received, sent, tag[1].k)
  BY <1>6, <1>7 DEF EthInv, StreamInv
<1>10. PICK g \in [Nat -> Tags] : Stream(sent, rest, g) /\ g[1] = tag[n + 1]
  BY <1>2, <1>3, <1>9, StreamDrop
<1>11. tag[1].k \in Nat /\ g[1].k \in Nat
  <2>1. tag[1] \in Tags /\ g[1] \in Tags
    OBVIOUS
  <2>. QED BY <2>1 DEF Tags
<1>12. tag[1].k =< g[1].k
  BY <1>3, <1>9, <1>10 DEF Stream
<1>. HIDE DEF Received, rest
<1>13. Picked(Received, sent, g[1].k)
  BY <1>2, <1>9, <1>11, <1>12, PickedMore
<1>14. /\ Stream(sent', deframer'.fifo \o line', g)
       /\ Matched(sent', deframer', g[1])
       /\ Picked(Received', sent', g[1].k)
  <2>1. Matched(sent, deframer, g[1])
    BY <1>6 DEF Matched
  <2>. QED BY <1>1, <1>6, <1>7, <1>8, <1>10, <1>13, <2>1
<1>15. StreamInv'
  BY <1>1, <1>14 DEF StreamInv, Lossy
<1>. QED BY <1>5, <1>15 DEF EthInv

LEMMA ConcatAppend ==
  ASSUME NEW a \in Frames, NEW h \in Frames, NEW x \in Seq(PayloadBytes)
  PROVE  a \o Append(h, x) = Append(a \o h, x)
<1> DEFINE one == <<x>>
           y == a \o h
<1>1. one \in Frames /\ Append(h, x) = h \o one
  BY OneFrame, AppendIsConcat DEF Frames
<1>2. y \in Frames
  BY ConcatProperties DEF Frames
<1>. HIDE DEF one, y
<1>3. Append(y, x) = y \o <<x>>
  BY <1>2, AppendIsConcat DEF Frames
<1>4. (a \o h) \o one = a \o (h \o one)
  BY <1>1, ConcatAssociative DEF Frames
<1>. QED BY <1>1, <1>3, <1>4 DEF one, y

\* A frame returned by slip_deframer is queued after those received before.
LEMMA EnqueueReceived ==
  ASSUME EthInv, NEW frame \in Seq(PayloadBytes), Enqueue(frame),
         UNCHANGED <<item, stage, passed>>
  PROVE  /\ Received' = Append(Received, frame)
         /\ rx_pool' \subseteq Blocks /\ rx_fifo' \in Seq(Blocks)
         /\ msg' \in [Blocks -> Seq(PayloadBytes)]
<1>1. PICK b \in rx_pool : /\ rx_pool' = rx_pool \ {b}
                           /\ rx_fifo' = Append(rx_fifo, b)
                           /\ msg' = [msg EXCEPT ![b] = frame]
  BY DEF Enqueue
<1>2. /\ rx_fifo \in Seq(Blocks) /\ msg \in [Blocks -> Seq(PayloadBytes)]
      /\ passed \in Frames /\ Held \in Frames
      /\ Held = HeldOf(stage, item, rx_fifo, msg) /\ (stage = "got" => item \in Blocks)
  BY EthTypes
<1>3. b \in Blocks /\ b # item /\ \A i \in 1 .. Len(rx_fifo) : rx_fifo[i] # b
  BY DEF EthInv, TypeOK, OneOwner
<1>4. /\ rx_pool' \subseteq Blocks /\ rx_fifo' \in Seq(Blocks)
      /\ msg' \in [Blocks -> Seq(PayloadBytes)]
  <2>1. rx_pool \subseteq Blocks
    BY DEF EthInv, TypeOK
  <2>. QED BY <1>1, <1>2, <1>3, <2>1, AppendProperties
<1>5. Held' = HeldOf(stage', item', rx_fifo', msg')
  BY DEF Held, HeldOf, Queued
<1>6. HeldOf(stage, item, rx_fifo', msg') = Append(HeldOf(stage, item, rx_fifo, msg), frame)
  <2>1. Queues(stage, item, rx_fifo, msg, b, frame, rx_fifo', msg')
    BY <1>1, <1>2, <1>3 DEF Queues
  <2>. QED BY <2>1, HeldEnqueue
<1>7. Held' = Append(Held, frame)
  BY <1>2, <1>5, <1>6
<1>8. passed \o Append(Held, frame) = Append(passed \o Held, frame)
  BY <1>2, ConcatAppend
<1>. QED BY <1>4, <1>7, <1>8 DEF Received

LEMMA RecvEth ==
  ASSUME EthInv, NEW n \in 1 .. ChunkMax, n =< Len(line), recv_cb(n) PROVE EthInv'
<1> DEFINE rest == SubSeq(line, n + 1, Len(line))
           call == Deframe(deframer, SubSeq(line, 1, n))
           frame == call.frame
<1>1. /\ init_done /\ line' = rest /\ deframer' = call.d
      /\ (~Lossy' => /\ ~Lossy /\ call.ret \in {"more", "frame"}
                       /\ ~(Len(frame) > 0 /\ rx_pool = {}))
      /\ reported' \in BOOLEAN
      /\ UNCHANGED <<init_done, item, stage, sent, passed, discarded>>
  BY DEF recv_cb, Lossy
<1>2. IF Len(frame) > 0 /\ rx_pool # {} THEN Enqueue(frame) ELSE UNCHANGED <<rx_pool, rx_fifo, msg>>
  BY DEF recv_cb
<1>3. /\ line \in Seq(Bytes) /\ Len(line) \in Nat /\ deframer \in Deframers /\ Bounded(deframer)
      /\ sent \in Frames /\ sent \in Seq(Packets) /\ Received \in Frames
  <2>1. line \in Seq(Bytes)
    BY EthTypes
  <2>. QED BY <2>1, EthTypes, LenProperties DEF EthInv
<1>4. n \in 1 .. Len(line) /\ n \in 0 .. Len(line)
  BY <1>3, EthSerialAssumption
<1>5. rest \in Seq(Bytes)
  BY <1>3, <1>4, DropType
<1>6. PICK tag \in [Nat -> Tags] :
        /\ Stream(sent, deframer.fifo \o line, tag)
        /\ Matched(sent, deframer, tag[1])
        /\ Picked(Received, sent, tag[1].k)
        /\ ~Lossy => InStep(deframer, tag[1]) /\ Complete(Received, sent, tag[1].k)
  BY DEF EthInv, StreamInv
<1>7. /\ call.d \in Deframers /\ Bounded(call.d) /\ Len(call.d.fifo) =< FifoDepth
      /\ frame \in Seq(PayloadBytes)
      /\ \E g \in [Nat -> Tags] : /\ Stream(sent, call.d.fifo \o rest, g)
                                  /\ Matched(sent, call.d, g[1])
                                  /\ tag[1].k =< g[1].k
                                  /\ Got(sent, deframer, tag[1], call, g[1])
  BY <1>3, <1>4, <1>6, StreamAfter
<1>. HIDE DEF call, rest
<1>8. PICK g \in [Nat -> Tags] : /\ Stream(sent, call.d.fifo \o rest, g)
                                 /\ Matched(sent, call.d, g[1])
                                 /\ tag[1].k =< g[1].k
                                 /\ Got(sent, deframer, tag[1], call, g[1])
  BY <1>7
<1>9. Len(frame) \in Nat /\ (Len(frame) > 0 <=> frame # << >>)
  BY <1>7, EmptySeq, LenProperties
<1>10. /\ rx_pool' \subseteq Blocks /\ rx_fifo' \in Seq(Blocks)
       /\ msg' \in [Blocks -> Seq(PayloadBytes)]
  BY <1>1, <1>2, <1>7, EnqueueReceived DEF EthInv, TypeOK
<1>11. TypeOK'
  <2>1. Len(call.d.out) =< BufOutMax
    BY <1>7 DEF Bounded
  <2>. HIDE DEF frame
  <2>. QED BY <1>1, <1>5, <1>7, <1>10, <2>1 DEF EthInv, TypeOK
<1>12. Bounded(deframer)' /\ (~init_done' => deframer' = slip_deframer_init)
  BY <1>1, <1>7 DEF Bounded
<1>13. OneOwner'
  <2>1. BlockInv
    BY EthTypes
  <2>2. Enqueue(frame) \/ UNCHANGED <<rx_pool, rx_fifo, msg>>
    BY <1>2
  <2>3. UNCHANGED <<item, stage>>
    BY <1>1
  <2>4. BlockInv'
    <3>. HIDE DEF frame
    <3>. QED BY <2>1, <2>2, <2>3, EnqueueBlock, BlockStutter DEF blockVars
  <2>. QED BY <2>4 DEF BlockInv
<1> DEFINE t == tag[1]
           u == g[1]
<1>14. t.k \in Nat /\ u.k \in Nat /\ t.k =< u.k /\ Len(sent) \in Nat
  <2>1. t \in Tags /\ u \in Tags
    OBVIOUS
  <2>. QED BY <1>3, <1>8, <2>1, LenProperties DEF Tags, Frames
<1>15. UNCHANGED <<rx_pool, rx_fifo, msg>> => Received' = Received
  BY <1>1 DEF Received, Held
<1>16. Enqueue(frame) => Received' = Append(Received, frame)
  BY <1>1, <1>7, EnqueueReceived
<1>17. /\ Picked(Received, sent, t.k)
       /\ ~Lossy => InStep(deframer, t) /\ Complete(Received, sent, t.k)
       /\ Got(sent, deframer, t, call, u)
  BY <1>6, <1>8
<1>. HIDE DEF t, u, Received, frame
<1>18. /\ Picked(Received', sent, u.k)
       /\ ~Lossy' => InStep(call.d, u) /\ Complete(Received', sent, u.k)
  <2>1. CASE /\ frame = << >>
             /\ InStep(deframer, t) => \/ call.ret \notin {"more", "frame"}
                                       \/ InStep(call.d, u) /\ u.k = t.k
    <3>1. Received' = Received
      BY <1>2, <1>9, <1>15, <2>1
    <3>2. Picked(Received, sent, u.k)
      BY <1>3, <1>14, <1>17, PickedMore
    <3>3. ~Lossy' => InStep(call.d, u) /\ u.k = t.k /\ Complete(Received, sent, t.k)
      BY <1>1, <1>17, <2>1
    <3>. QED BY <3>1, <3>2, <3>3
  <2>2. ASSUME NEW k \in 1 .. Len(sent), frame = sent[k], t.k =< k, u.k = k + 1,
               InStep(call.d, u), InStep(deframer, t) => k = t.k
        PROVE  /\ Picked(Received', sent, u.k)
               /\ ~Lossy' => InStep(call.d, u) /\ Complete(Received', sent, u.k)
    <3>1. frame # << >> /\ Len(frame) > 0
      BY <1>3, <1>9, <2>2, SentFrames
    <3>2. CASE rx_pool = {}
      <4>1. Received' = Received /\ Lossy'
        BY <1>1, <1>2, <1>15, <3>1, <3>2
      <4>2. Picked(Received, sent, u.k)
        BY <1>3, <1>14, <1>17, PickedMore
      <4>. QED BY <4>1, <4>2
    <3>3. CASE rx_pool # {}
      <4>1. Received' = Append(Received, sent[k])
        BY <1>2, <1>16, <2>2, <3>1, <3>3
      <4>2. Picked(Append(Received, sent[k]), sent, k + 1)
        BY <1>3, <1>14, <1>17, <2>2, PickedOneMore
      <4>3. ~Lossy' => Complete(Append(Received, sent[k]), sent, k + 1)
        <5>1. ~Lossy' => k = t.k /\ Complete(Received, sent, k)
          BY <1>1, <1>17, <2>2
        <5>2. Complete(Received, sent, k) => Complete(Append(Received, sent[k]), sent, k + 1)
          BY <1>3, CompleteOneMore
        <5>. QED BY <5>1, <5>2
      <4>. QED BY <2>2, <4>1, <4>2, <4>3
    <3>. QED BY <3>2, <3>3
  <2>. QED BY <1>17, <2>1, <2>2 DEF Got, frame
<1>19. StreamInv'
  <2>1. /\ Stream(sent', deframer'.fifo \o line', g)
        /\ Matched(sent', deframer', g[1])
    BY <1>1, <1>8
  <2>2. /\ Picked(Received', sent', g[1].k)
        /\ ~Lossy' => InStep(deframer', g[1]) /\ Complete(Received', sent', g[1].k)
    BY <1>1, <1>18 DEF u
  <2>. QED BY <2>1, <2>2 DEF StreamInv
<1>. QED BY <1>11, <1>12, <1>13, <1>19 DEF EthInv

-----------------------------------------------------------------------------
(* rx_thread. *)

LEMMA RxGetEth == ASSUME EthInv, RxGet PROVE EthInv'
<1>1. /\ stage = "wait" /\ rx_fifo # << >> /\ item' = Head(rx_fifo) /\ rx_fifo' = Tail(rx_fifo)
      /\ stage' = "got"
      /\ UNCHANGED <<line, init_done, deframer, rx_pool, msg, sent, passed, reported, discarded>>
  BY DEF RxGet
<1>2. /\ rx_fifo \in Seq(Blocks) /\ msg \in [Blocks -> Seq(PayloadBytes)] /\ BlockInv
      /\ Held = HeldOf(stage, item, rx_fifo, msg)
  BY EthTypes
<1>3. Head(rx_fifo) \in Blocks /\ Tail(rx_fifo) \in Seq(Blocks)
  BY <1>1, <1>2, HeadTailProperties
<1>4. TypeOK' /\ Bounded(deframer)' /\ (~init_done' => deframer' = slip_deframer_init)
  BY <1>1, <1>3 DEF EthInv, TypeOK, Bounded
<1>5. OneOwner'
  BY <1>2, RxGetBlock DEF BlockInv
<1>6. Held' = Held
  <2>1. Held' = HeldOf(stage', item', rx_fifo', msg')
    BY DEF Held, HeldOf, Queued
  <2>2. HeldOf("got", Head(rx_fifo), Tail(rx_fifo), msg) = HeldOf(stage, item, rx_fifo, msg)
    BY <1>1, <1>2, HeldGet
  <2>. QED BY <1>1, <1>2, <2>1, <2>2
<1>7. StreamInv'
  <2>1. Received' = Received
    BY <1>1, <1>6 DEF Received
  <2>. QED BY <1>1, <2>1, FramesKept DEF Lossy
<1>. QED BY <1>4, <1>5, <1>7 DEF EthInv

\* rx_thread's frame, in front of those queued.
LEMMA InHand ==
  ASSUME EthInv, stage = "got"
  PROVE  /\ Held = <<msg[item]>> \o Queued(rx_fifo, msg)
         /\ msg[item] \in Seq(PayloadBytes) /\ Queued(rx_fifo, msg) \in Frames
<1>1. /\ rx_fifo \in Seq(Blocks) /\ msg \in [Blocks -> Seq(PayloadBytes)] /\ item \in Blocks
      /\ Held = HeldOf(stage, item, rx_fifo, msg)
  BY EthTypes
<1>2. Splits(stage, item, rx_fifo, msg)
  BY <1>1, HeldSplit
<1>. QED BY <1>1, <1>2 DEF Splits

LEMMA NotInHand ==
  ASSUME EthInv, stage' # "got", UNCHANGED <<rx_fifo, msg>>
  PROVE  Held' = Queued(rx_fifo, msg)
<1>1. rx_fifo \in Seq(Blocks) /\ msg \in [Blocks -> Seq(PayloadBytes)]
  BY EthTypes
<1>2. Held' = HeldOf(stage', item', rx_fifo', msg')
  BY DEF Held, HeldOf, Queued
<1>3. HeldOf(stage', item', rx_fifo, msg) = Queued(rx_fifo, msg)
  <2>1. Splits(stage', item', rx_fifo, msg)
    BY <1>1, HeldSplit
  <2>. QED BY <2>1 DEF Splits
<1>. QED BY <1>2, <1>3

LEMMA LeftOut ==
  ASSUME EthInv, stage = "got", stage' # "got", UNCHANGED <<rx_fifo, msg, sent, passed>>
  PROVE  \A m \in Nat : Picked(Received, sent, m) => Picked(Received', sent, m)
<1> DEFINE x == msg[item]
           q == Queued(rx_fifo, msg)
<1>1. Received = passed \o (<<x>> \o q) /\ x \in Seq(PayloadBytes) /\ q \in Frames
  BY InHand DEF Received
<1>2. Received' = passed \o q
  BY NotInHand DEF Received
<1>3. passed \in Frames /\ sent \in Frames
  BY EthTypes
<1>. HIDE DEF x, q, Received
<1>. QED BY <1>1, <1>2, <1>3, LeaveOut

LEMMA AllocFailEth == ASSUME EthInv, RxAllocFail PROVE EthInv'
<1>1. /\ stage = "got" /\ item' = NoBlock /\ stage' = "wait" /\ reported' = TRUE
      /\ UNCHANGED <<line, init_done, deframer, rx_pool, rx_fifo, msg, sent, passed,
                     discarded>>
  BY DEF RxAllocFail
<1>2. TypeOK' /\ Bounded(deframer)' /\ (~init_done' => deframer' = slip_deframer_init)
  BY <1>1 DEF EthInv, TypeOK, Bounded
<1>3. OneOwner'
  <2>1. BlockInv
    BY EthTypes
  <2>2. Next
    BY DEF Next
  <2>. QED BY <2>1, <2>2, BlockInvStep DEF BlockInv
<1>4. StreamInv'
  <2>1. \A m \in Nat : Picked(Received, sent, m) => Picked(Received', sent, m)
    BY <1>1, LeftOut
  <2>. QED BY <1>1, <2>1, FrameDropped DEF Lossy
<1>. QED BY <1>2, <1>3, <1>4 DEF EthInv

LEMMA DeliverEth == ASSUME EthInv, RxDeliver PROVE EthInv'
<1>1. /\ stage = "got" /\ stage' = "delivered"
      /\ UNCHANGED <<line, init_done, deframer, rx_pool, rx_fifo, msg, item, sent, discarded>>
      /\ \/ passed' = Append(passed, msg[item]) /\ UNCHANGED reported
         \/ reported' = TRUE /\ UNCHANGED passed
  BY DEF RxDeliver
<1> DEFINE x == msg[item]
           q == Queued(rx_fifo, msg)
<1>2. Held = <<x>> \o q /\ x \in Seq(PayloadBytes) /\ q \in Frames
  BY <1>1, InHand
<1>3. passed \in Frames
  BY EthTypes
<1>4. TypeOK' /\ Bounded(deframer)' /\ (~init_done' => deframer' = slip_deframer_init)
  <2>1. passed' \in Seq(Seq(PayloadBytes))
    <3>1. passed \in Seq(Seq(PayloadBytes))
      BY <1>3 DEF Frames
    <3>2. Append(passed, x) \in Seq(Seq(PayloadBytes))
      BY <1>2, <3>1, AppendProperties
    <3>. QED BY <1>1, <3>1, <3>2
  <2>2. reported' \in BOOLEAN
    BY <1>1 DEF EthInv, TypeOK
  <2>. QED BY <1>1, <2>1, <2>2 DEF EthInv, TypeOK, Bounded
<1>5. OneOwner'
  <2>1. BlockInv
    BY EthTypes
  <2>2. Next
    BY DEF Next
  <2>. QED BY <2>1, <2>2, BlockInvStep DEF BlockInv
<1>6. StreamInv'
  <2>1. CASE passed' = Append(passed, x) /\ UNCHANGED reported
    <3>1. Held' = q
      BY <1>1, NotInHand
    <3>2. Received' = Append(passed, x) \o q
      BY <2>1, <3>1 DEF Received
    <3>3. Received = passed \o (<<x>> \o q)
      BY <1>2 DEF Received
    <3>. HIDE DEF x, q, Received
    <3>4. Received' = Received
      BY <1>2, <1>3, <3>2, <3>3, PassOn
    <3>. QED BY <1>1, <2>1, <3>4, FramesKept DEF Lossy
  <2>2. CASE reported' = TRUE /\ UNCHANGED passed
    <3>1. \A m \in Nat : Picked(Received, sent, m) => Picked(Received', sent, m)
      BY <1>1, <2>2, LeftOut
    <3>. QED BY <1>1, <2>2, <3>1, FrameDropped DEF Lossy
  <2>. QED BY <1>1, <2>1, <2>2
<1>. QED BY <1>4, <1>5, <1>6 DEF EthInv

LEMMA FreeEth == ASSUME EthInv, RxFree PROVE EthInv'
<1>1. /\ stage = "delivered" /\ rx_pool' = rx_pool \cup {item} /\ item' = NoBlock
      /\ stage' = "wait"
      /\ UNCHANGED <<line, init_done, deframer, rx_fifo, msg, sent, passed, reported, discarded>>
  BY DEF RxFree
<1>2. item \in Blocks
  BY <1>1, EthTypes
<1>3. TypeOK' /\ Bounded(deframer)' /\ (~init_done' => deframer' = slip_deframer_init)
  BY <1>1, <1>2 DEF EthInv, TypeOK, Bounded
<1>4. OneOwner'
  <2>1. BlockInv
    BY EthTypes
  <2>2. Next
    BY DEF Next
  <2>. QED BY <2>1, <2>2, BlockInvStep DEF BlockInv
<1>5. StreamInv'
  <2>1. Held' = Held
    BY <1>1 DEF Held
  <2>2. Received' = Received
    BY <1>1, <2>1 DEF Received
  <2>. QED BY <1>1, <2>2, FramesKept DEF Lossy
<1>. QED BY <1>3, <1>4, <1>5 DEF EthInv

LEMMA EthStep == EthInv /\ [Next]_vars => EthInv'
<1>. SUFFICES ASSUME EthInv, [Next]_vars PROVE EthInv'
  OBVIOUS
<1>1. CASE \E p \in Packets : eth_serial_send(p)
  BY <1>1, SendEth
<1>2. CASE eth_serial_iface_init
  BY <1>2, InitEth
<1>3. CASE \E n \in 1 .. ChunkMax : n =< Len(line) /\ (recv_cb_early(n) \/ recv_cb(n))
  BY <1>3, EarlyEth, RecvEth
<1>4. CASE RxGet
  BY <1>4, RxGetEth
<1>5. CASE RxAllocFail
  BY <1>5, AllocFailEth
<1>6. CASE RxDeliver
  BY <1>6, DeliverEth
<1>7. CASE RxFree
  BY <1>7, FreeEth
<1>8. CASE UNCHANGED vars
  <2>1. TypeOK' /\ OneOwner' /\ Bounded(deframer)' /\ (~init_done' => deframer' = slip_deframer_init)
    BY <1>8 DEF vars, EthInv, TypeOK, OneOwner, Bounded
  <2>2. Received' = Received
    BY <1>8 DEF vars, Received, Held
  <2>3. StreamInv'
    BY <1>8, <2>2, FramesKept DEF vars, Lossy
  <2>. QED BY <2>1, <2>3 DEF EthInv
<1>. QED BY <1>1, <1>2, <1>3, <1>4, <1>5, <1>6, <1>7, <1>8 DEF Next

\* In every behaviour the deframer's fifo and output buffer stay within their
\* sizes and the driver's state within its types.
THEOREM EthTypeCorrect == Spec => []TypeOK
<1>1. EthInv => TypeOK
  BY DEF EthInv
<1>. QED BY <1>1, EthInit, EthStep, PTL DEF Spec

\* Whatever recv_cb discards, flushes or refuses and however the uart cuts the
\* line up, what reaches the network stack was sent: each frame whole, in the order
\* sent and once.
THEOREM PassedFramesIntact == Spec => []PassedIntact
<1>1. ASSUME EthInv PROVE PassedIntact
  <2>1. PICK tag \in [Nat -> Tags] : Picked(Received, sent, tag[1].k)
    BY <1>1 DEF EthInv, StreamInv
  <2>2. PICK at : Chosen(at, Received, sent, tag[1].k)
    BY <2>1 DEF Picked
  <2>3. Received \in Frames /\ sent \in Frames
    BY <1>1, EthTypes
  <2>4. DOMAIN Received = 1 .. Len(Received) /\ DOMAIN sent = 1 .. Len(sent)
    BY <2>3, LenProperties DEF Frames
  <2> DEFINE got == Received
  <2>5. \E f \in [DOMAIN got -> DOMAIN sent] :
          /\ \A i, j \in DOMAIN got : i < j => f[i] < f[j]
          /\ \A i \in DOMAIN got : got[i] = sent[f[i]]
    <3>. HIDE DEF Received
    <3>. QED BY <2>2, <2>4 DEF Chosen
  <2>. QED BY <2>5 DEF PassedIntact, Received
<1>. QED BY <1>1, EthInit, EthStep, PTL DEF Spec

\* While recv_cb and rx_thread have logged no error and no byte came before the
\* interface was initialised (recv_cb discards such a byte and logs nothing), the
\* frames received are the first ones sent, and all of them once nothing is left to
\* read.
THEOREM FirstLossIsReported == Spec => []FirstLossReported
<1>1. ASSUME EthInv PROVE FirstLossReported
  <2>. SUFFICES ASSUME ~Lossy
                PROVE  /\ IsPrefix(Received, sent)
                       /\ line = << >> /\ deframer.fifo = << >> => Received = sent
    BY DEF FirstLossReported, Received, Lossy
  <2>1. PICK tag \in [Nat -> Tags] : /\ Stream(sent, deframer.fifo \o line, tag)
                                     /\ Complete(Received, sent, tag[1].k)
    BY <1>1 DEF EthInv, StreamInv
  <2> DEFINE g == Received
             k == tag[1].k
             q == deframer.fifo \o line
  <2>2. g \in Frames /\ sent \in Frames /\ q \in Seq(Bytes)
    BY <1>1, EthTypes
  <2>3. Len(g) \in Nat /\ Len(sent) \in Nat
    BY <2>2, LenProperties DEF Frames
  <2>4. k \in 1 .. Len(sent) + 1
    <3>. HIDE DEF q
    <3>1. Stream(sent, q, tag)
      BY <2>1 DEF q
    <3>. QED BY <2>2, <3>1, FirstTag
  <2>. HIDE DEF g, k
  <2>5. Len(g) = k - 1 /\ \A i \in 1 .. Len(g) : g[i] = sent[i]
    BY <2>1 DEF Complete, g, k
  <2>6. IsPrefix(g, sent)
    <3>1. Len(g) =< Len(sent)
      BY <2>3, <2>4, <2>5
    <3>2. \A i \in 1 .. Len(g) : i \in 1 .. Len(sent)
      BY <2>3, <3>1
    <3>3. SubSeq(sent, 1, Len(g)) = g
      <4> DEFINE n == Len(g)
                 r == SubSeq(sent, 1, n)
      <4>1. \A i \in 1 .. n : sent[i] \in Seq(PayloadBytes)
        BY <2>2, <3>2, ElementOfSeq DEF Frames
      <4>2. n \in Int /\ n \in Nat
        BY <2>3
      <4>. HIDE DEF n
      <4>3. /\ r \in Seq(Seq(PayloadBytes))
            /\ Len(r) = IF 1 =< n THEN n - 1 + 1 ELSE 0
            /\ \A i \in 1 .. n - 1 + 1 : r[i] = sent[1 + i - 1]
        BY <4>1, <4>2, SubSeqProperties
      <4>. HIDE DEF r
      <4>4. Len(r) = n /\ \A i \in 1 .. n : r[i] = sent[i]
        BY <4>2, <4>3
      <4>5. r = g
        BY <2>2, <2>5, <4>3, <4>4, SeqEqual DEF n, Frames
      <4>. QED BY <4>5 DEF r, n
    <3>4. SubSeq(g, 1, Len(g)) = g
      BY <2>2, SubSeqFull DEF Frames
    <3>. QED BY <3>1, <3>3, <3>4 DEF IsPrefix
  <2>7. ASSUME line = << >>, deframer.fifo = << >> PROVE g = sent
    <3>1. Len(q) = 0
      <4>1. << >> \o << >> = << >> /\ Len(<< >>) = 0
        BY EmptySeq, ConcatEmptySeq
      <4>. QED BY <2>7, <4>1
    <3>2. tag[1] = Tag(Len(sent) + 1, 0, 1)
      BY <2>1, <3>1 DEF Stream
    <3>3. k = Len(sent) + 1
      BY <2>3, <3>2, TagType DEF k
    <3>4. Len(g) = Len(sent)
      BY <2>3, <2>5, <3>3
    <3>. QED BY <2>2, <2>5, <3>4, SeqEqual DEF Frames
  <2>. QED BY <2>6, <2>7 DEF g
<1>. QED BY <1>1, EthInit, EthStep, PTL DEF Spec
=============================================================================
