------------------------------ MODULE CudaCopy ------------------------------
(***************************************************************************)
(* How the CUDA builds take a stripe to the graphics card and its parity   *)
(* back: raid6_cuda_gen_syndrome_synccopy() (CUDA) and                     *)
(* multi_rs_cuda_gen_syndrome() (MULTI).  Each cuts the stripe into        *)
(* rounds; in a round blocks are copied to the card, the kernel is         *)
(* launched over them and the parity is copied back.                       *)
(*                                                                         *)
(* Lengths and offsets are counted in words, of which each kernel thread   *)
(* treats one.  A word on the card is named by the word of the stripe that *)
(* it was computed from; Old is what was there before.                     *)
(***************************************************************************)
EXTENDS Integers, Sequences

CONSTANTS
  DMA_BLOCKSIZE,     \* words of a transfer
  THREAD_BLOCKSIZE,  \* threads of a block of the grid; divides DMA_BLOCKSIZE
  Sizes,             \* words of the stripes
  MaxCalls           \* bound: calls of one process

ASSUME CopyAssumption ==
  /\ DMA_BLOCKSIZE \in Nat \ {0} /\ THREAD_BLOCKSIZE \in Nat \ {0}
  /\ DMA_BLOCKSIZE % THREAD_BLOCKSIZE = 0
  /\ Sizes \subseteq Nat

Old == -1

VARIABLES
  cpc,         \* idle, or what comes next in the first round, or exit
  mem_tag,     \* the card's buffers have been allocated
  serving,     \* the process has gone on from its benchmark to its server loop
  captured,    \* the array in the static variable dptrs of synccopy
  call,        \* the last call: implementation, pointer array, words
  todo,        \* its remaining rounds
  card,        \* content of the card's buffers: data and parity
  parity,      \* content of the host's parity blocks, and behind them
  calls        \* the pointer arrays of the calls made

copyVars == <<cpc, mem_tag, serving, captured, call, todo, card, parity, calls>>

Blank == [w \in 0 .. DMA_BLOCKSIZE - 1 |-> Old]

-----------------------------------------------------------------------------
(* The rounds of a call                                                     *)

\* One buffer in a round: the words copied to it and their place in the
\* stripe, the grid of the launch, and the words copied back.
Transfer(buf, at, in, blocks, out) ==
  [buf |-> buf, at |-> at, in |-> in, blocks |-> blocks, out |-> out]
Whole(buf, at) ==
  Transfer(buf, at, DMA_BLOCKSIZE, DMA_BLOCKSIZE \div THREAD_BLOCKSIZE, DMA_BLOCKSIZE)

\* Mutant: the single block is not counted.
RestIndexForgets(runs, odd) == 2 * runs

\* j counts pairs; only the single block turns it into a count of blocks.
RestIndex(runs, odd) == IF odd THEN 2 * runs + 1 ELSE runs

\* Mutant: the rest is copied as a whole block.
RestAsBlock(at, carry_off) == IF carry_off = 0 THEN <<>> ELSE <<{Whole(1, at)}>>

Rest(at, carry_off) ==
  IF carry_off = 0 THEN <<>>
  ELSE <<{Transfer(1, at, carry_off, carry_off \div THREAD_BLOCKSIZE + 1, carry_off)}>>

\* Pairs of blocks, then one more block if there is one, then the rest.
synccopy(bytes) ==
  LET pair == 2 * DMA_BLOCKSIZE
      runs == bytes \div pair
      carry == bytes - runs * pair
      odd == carry >= DMA_BLOCKSIZE
  IN  [k \in 1 .. runs |-> {Whole(1, (k - 1) * pair), Whole(2, (k - 1) * pair + DMA_BLOCKSIZE)}]
      \o (IF odd THEN <<{Whole(1, runs * pair)}>> ELSE <<>>)
      \o Rest(RestIndex(runs, odd) * DMA_BLOCKSIZE, carry % DMA_BLOCKSIZE)

\* Whole blocks, then a rest that is copied as a whole block, from and to
\* the multiple of its own length.
multi_rs(bytes) ==
  LET runs == bytes \div DMA_BLOCKSIZE
      carry == bytes - runs * DMA_BLOCKSIZE
  IN  [k \in 1 .. runs |-> {Whole(1, (k - 1) * DMA_BLOCKSIZE)}]
      \o (IF carry > 0
            THEN <<{Transfer(1, runs * carry, DMA_BLOCKSIZE,
                             carry \div THREAD_BLOCKSIZE, DMA_BLOCKSIZE)}>>
            ELSE <<>>)

-----------------------------------------------------------------------------
CopyInit ==
  /\ cpc = "idle" /\ mem_tag = FALSE /\ serving = FALSE /\ captured = "none"
  /\ call = [impl |-> "none", ptrs |-> "none", bytes |-> 0] /\ todo = <<>>
  /\ card = [b \in 1 .. 2 |-> [dp |-> Blank, pq |-> Blank]]
  /\ parity = <<>> /\ calls = <<>>

\* main() goes on from the benchmark to the server loop.
Serve ==
  /\ cpc = "idle" /\ ~serving
  /\ serving' = TRUE
  /\ UNCHANGED <<cpc, mem_tag, captured, call, todo, card, parity, calls>>

\* get_card_mem() in the first call: without memory the process ends.
CardMemFails ==
  /\ cpc = "idle" /\ ~mem_tag
  /\ cpc' = "exit"
  /\ UNCHANGED <<mem_tag, serving, captured, call, todo, card, parity, calls>>

\* A call, up to its first copy.  The benchmark passes an array of its own,
\* the server loops always global_dptrs.  synccopy keeps ptrs in a static
\* variable, which is initialised by its first call only.  A process uses one
\* of the implementations, with the card's buffers of that implementation.
Call(impl, bytes) ==
  LET ptrs == IF serving THEN "global" ELSE "bench"
  IN  /\ cpc = "idle" /\ Len(calls) < MaxCalls
      /\ call.impl \in {"none", impl}
      /\ call' = [impl |-> impl, ptrs |-> ptrs, bytes |-> bytes]
      /\ mem_tag' = TRUE
      /\ captured' = IF impl = "CUDA" /\ captured = "none" THEN ptrs ELSE captured
      /\ todo' = IF impl = "CUDA" THEN synccopy(bytes) ELSE multi_rs(bytes)
      /\ cpc' = "in"
      /\ parity' = [w \in 0 .. bytes - 1 |-> Old]
      /\ calls' = Append(calls, ptrs)
      /\ UNCHANGED <<serving, card>>

Transfers(b) == {t \in Head(todo) : t.buf = b}

\* The copies of the data disks to the card.
CopyIn ==
  /\ cpc = "in" /\ todo # <<>>
  /\ card' = [b \in 1 .. 2 |-> [card[b] EXCEPT !.dp =
                [w \in DOMAIN @ |->
                   IF \E t \in Transfers(b) : w < t.in
                   THEN (CHOOSE t \in Transfers(b) : TRUE).at + w ELSE @[w]]]]
  /\ cpc' = "launch"
  /\ UNCHANGED <<mem_tag, serving, captured, call, todo, parity, calls>>

\* The kernel, one word of every disk per thread.  An empty grid is an
\* invalid launch, which is not noticed.
Launch ==
  /\ cpc = "launch"
  /\ card' = [b \in 1 .. 2 |-> [card[b] EXCEPT !.pq =
                [w \in DOMAIN @ |->
                   IF \E t \in Transfers(b) : w < t.blocks * THREAD_BLOCKSIZE
                   THEN card[b].dp[w] ELSE @[w]]]]
  /\ cpc' = "out"
  /\ UNCHANGED <<mem_tag, serving, captured, call, todo, parity, calls>>

\* The copies of the parity back, to wherever the transfer says.
Lands(t) == t.at .. t.at + t.out - 1
CopyOut ==
  /\ cpc = "out"
  /\ parity' = [w \in DOMAIN parity \cup UNION {Lands(t) : t \in Head(todo)} |->
                  IF \E t \in Head(todo) : w \in Lands(t)
                  THEN LET t == CHOOSE t \in Head(todo) : w \in Lands(t)
                       IN  card[t.buf].pq[w - t.at]
                  ELSE parity[w]]
  /\ todo' = Tail(todo)
  /\ cpc' = "in"
  /\ UNCHANGED <<mem_tag, serving, captured, call, card, calls>>

CopyReturn ==
  /\ cpc = "in" /\ todo = <<>>
  /\ cpc' = "idle"
  /\ UNCHANGED <<mem_tag, serving, captured, call, todo, card, parity, calls>>

CopyNext ==
  \/ Serve
  \/ CardMemFails
  \/ \E impl \in {"CUDA", "MULTI"}, bytes \in Sizes : Call(impl, bytes)
  \/ CopyIn
  \/ Launch
  \/ CopyOut
  \/ CopyReturn

CopySpec == CopyInit /\ [][CopyNext]_copyVars

-----------------------------------------------------------------------------
(* Properties                                                               *)

Returning(impl) == cpc = "in" /\ todo = <<>> /\ call.impl = impl
ParityRight == \A w \in 0 .. call.bytes - 1 : parity[w] = w
Benchmarked == \E k \in DOMAIN calls : calls[k] = "bench"

\* synccopy() has put every parity word of its caller's stripe in its place
\* exactly if the stripe is shorter than a pair of blocks, consists of whole
\* blocks, or has a single block between its pairs and its rest (otherwise
\* the rest is copied from and to half its offset), and if the process has
\* not run a benchmark before (otherwise the benchmark's array is used).
\* multi_rs_cuda_gen_syndrome() has done so for a stripe of whole blocks,
\* whatever earlier calls left on the card.
ParityPlaced ==
  LET n == call.bytes
      pair == 2 * DMA_BLOCKSIZE
  IN  /\ Returning("CUDA") =>
           ((captured = call.ptrs /\ ParityRight) <=>
              /\ n < pair \/ n % DMA_BLOCKSIZE = 0 \/ n % pair > DMA_BLOCKSIZE
              /\ ~(call.ptrs = "global" /\ Benchmarked))
      /\ Returning("MULTI") /\ n % DMA_BLOCKSIZE = 0 => ParityRight

\* Nothing is copied behind the parity blocks: not by synccopy(), and not by
\* the MULTI version for a stripe of whole blocks.
CopiesInside ==
  call.impl = "CUDA" \/ call.bytes % DMA_BLOCKSIZE = 0 =>
    DOMAIN parity = 0 .. call.bytes - 1
=============================================================================
