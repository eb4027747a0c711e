------------------------------- MODULE Rtskb -------------------------------
(***************************************************************************)
(* The preallocated packet buffers of src/stack/rtskb.c: pools of rtskbs   *)
(* (intrusive FIFO free lists), alloc_rtskb, kfree_rtskb in both builds    *)
(* (with and without CONFIG_RTNET_ADDON_RTCAP), rtskb_acquire,             *)
(* rtskb_clone, rtskb_pool_extend and rtskb_pool_shrink, and the checked   *)
(* build's per-pool balance counter.                                       *)
(*                                                                         *)
(* Buffer payload and cursors are abstracted away: what is kept is which  *)
(* pool a buffer is charged to (skb->pool), where it sits (a free list, a *)
(* chain the stack holds, the capture add-on), the chain links            *)
(* (skb->next, skb->chain_end) and the capture fields (cap_flags,         *)
(* cap_comp_skb).                                                          *)
(*                                                                         *)
(* The stack side is an environment that allocates, chains, acquires and   *)
(* frees buffers in any order; the capture add-on (rtcap, not in this     *)
(* repository) marks received buffers shared and frees them later, as the *)
(* specification describes.  rtskb_acquire is split at the point where it *)
(* restores interrupts (line 402) and before it stores the new pool       *)
(* (line 404): another CPU may free the same shared buffer in between.    *)
(***************************************************************************)
EXTENDS Integers, Sequences, FiniteSets

CONSTANTS
  Buf,        \* the rtskb structures the slab cache can hand out
  Pools,      \* the rtskb_queue pools
  CapPool,    \* the pool the capture add-on draws companion buffers from
  InitQueue,  \* [Pools -> Seq(Buf)]: each pool as rtskb_pool_init leaves it
  RTCAP,      \* CONFIG_RTNET_ADDON_RTCAP
  MapCanFail, \* whether rtdev_map_rtskb may fail inside rtskb_pool_extend
  CaptureChainHeads, \* whether a buffer the capture add-on holds may head a chain
  MixedChains, \* whether a chain may link buffers charged to different pools
  MaxExtend,  \* largest add_rtskbs / rem_rtskbs of one extend or shrink call
  None        \* the NULL pointer

ASSUME CapPool \in Pools
ASSUME {RTCAP, MapCanFail, CaptureChainHeads, MixedChains} \subseteq BOOLEAN
ASSUME None \notin Buf
ASSUME InitQueue \in [Pools -> Seq(Buf)]

VARIABLES
  queue,     \* queue[p]: the free list of pool p, first element dequeued first
  pool,      \* pool[b]: skb->pool, the pool b returns to when freed
  next,      \* next[b]: skb->next
  chainEnd,  \* chainEnd[b]: skb->chain_end
  shared,    \* shared[b]: RTSKB_CAP_SHARED set in skb->cap_flags
  comp,      \* comp[b]: skb->cap_comp_skb
  balance,   \* balance[p]: pool->pool_balance (CONFIG_RTNET_CHECKED)
  held,      \* heads of the chains the stack side holds
  capq,      \* buffers the capture add-on holds until it frees them
  acq,       \* a pending rtskb_acquire: [skb, cpool], or None
  slab       \* buffers the slab cache has not handed out (or got back)

vars == <<queue, pool, next, chainEnd, shared, comp, balance, held, capq,
          acq, slab>>

(***************************************************************************)
(* Helpers                                                                 *)
(***************************************************************************)

\* The places at which buffer b appears in the free lists.
Positions(b) == UNION {{<<p, i>> : i \in {j \in DOMAIN queue[p] : queue[p][j] = b}}
                       : p \in Pools}

\* The buffers kfree_rtskb visits from x up to end, following next: the
\* walk ends in None when a NULL next pointer is met first, which the code
\* would dereference.
RECURSIVE WalkFrom(_, _, _)
WalkFrom(x, end, fuel) ==
  IF x = end THEN <<x>>
  ELSE IF next[x] = None \/ fuel = 0 THEN <<x, None>>
  ELSE <<x>> \o WalkFrom(next[x], end, fuel - 1)

\* The chain whose head is h, as kfree_rtskb or __rtskb_queue_tail walk it.
Chain(h) == WalkFrom(h, chainEnd[h], Cardinality(Buf))

ElemsOf(s) == {s[i] : i \in DOMAIN s}

\* The buffer a pending rtskb_acquire is working on.
Acquiring(h) == acq # None /\ acq.skb = h

Quiescent == held = {} /\ capq = {} /\ acq = None

(***************************************************************************)
(* The kfree_rtskb loop of the RTCAP build (lines 214-246), one element at *)
(* a time over a state record: a shared element swaps its pool with its    *)
(* companion and releases the companion in its place (lines 223-234); any  *)
(* other element is queued on its own pool (lines 236-244).                *)
(***************************************************************************)
\* Mutant: the RTSKB_CAP_SHARED test is lost, a shared buffer is queued.
FreeOneIgnoringShare(st, x) ==
  [st EXCEPT !.chainEnd[x] = x, !.next[x] = None,
             !.queue[st.pool[x]] = Append(@, x),
             !.balance[st.pool[x]] = @ + 1]

\* Mutant: the xchg is a plain assignment, the companion keeps its pool.
FreeOneNoSwap(st, x) ==
  IF st.shared[x]
  THEN LET c == comp[x] IN
       [st EXCEPT !.shared[x] = FALSE, !.comp[x] = None,
                  !.pool[x] = st.pool[c], !.next[c] = None,
                  !.queue[st.pool[x]] = Append(@, c),
                  !.balance[st.pool[x]] = @ + 1]
  ELSE FreeOneIgnoringShare(st, x)

FreeOne(st, x) ==
  IF st.shared[x]
  THEN LET c   == comp[x]
           old == st.pool[x]
       IN [st EXCEPT !.shared[x] = FALSE,
                     !.comp[x]   = None,
                     !.pool[x]   = st.pool[c],
                     !.pool[c]   = old,
                     !.next[c]   = None,
                     !.queue[old] = Append(@, c),
                     !.balance[old] = @ + 1]
  ELSE [st EXCEPT !.chainEnd[x] = x,
                  !.next[x] = None,
                  !.queue[st.pool[x]] = Append(@, x),
                  !.balance[st.pool[x]] = @ + 1]

RECURSIVE FreeLoop(_, _)
FreeLoop(st, s) ==
  IF s = <<>> THEN st ELSE FreeLoop(FreeOne(st, Head(s)), Tail(s))

State == [queue |-> queue, pool |-> pool, next |-> next, comp |-> comp,
          chainEnd |-> chainEnd, shared |-> shared, balance |-> balance]

SetState(st) ==
  /\ queue' = st.queue
  /\ pool' = st.pool
  /\ next' = st.next
  /\ chainEnd' = st.chainEnd
  /\ shared' = st.shared
  /\ comp' = st.comp
  /\ balance' = st.balance

\* The build without RTCAP (lines 250-253): the whole chain is appended to
\* the free list of the head's pool, and that pool's balance grows by the
\* chain length.  The code adds skb->chain_len (line 252); the model takes
\* it to be the chain's length, which the code that links chains (not in
\* this repository) maintains, so a wrong chain_len is not explored.
\* Mutant: the balance is credited one buffer, not chain_len.
FreePlainOne(h) ==
  LET s == Chain(h)
      p == pool[h]
  IN /\ queue' = [queue EXCEPT ![p] = @ \o s]
     /\ next' = [next EXCEPT ![s[Len(s)]] = None]
     /\ balance' = [balance EXCEPT ![p] = @ + 1]
     /\ UNCHANGED <<pool, chainEnd, shared, comp>>

FreePlain(h) ==
  LET s == Chain(h)
      p == pool[h]
  IN /\ queue' = [queue EXCEPT ![p] = @ \o s]
     /\ next' = [next EXCEPT ![s[Len(s)]] = None]
     /\ balance' = [balance EXCEPT ![p] = @ + Len(s)]
     /\ UNCHANGED <<pool, chainEnd, shared, comp>>

\* kfree_rtskb(h) as a state change of the pool variables.
FreeChain(h) ==
  /\ None \notin ElemsOf(Chain(h))
  /\ IF RTCAP THEN SetState(FreeLoop(State, Chain(h))) ELSE FreePlain(h)

\* __rtskb_dequeue of pool p's first buffer: it leaves with next = NULL.
DequeueState(b, p) ==
  /\ queue' = [queue EXCEPT ![p] = Tail(@)]
  /\ next' = [next EXCEPT ![b] = None]

(***************************************************************************)
(* Operations of src/stack/rtskb.c                                         *)
(***************************************************************************)

\* alloc_rtskb (lines 160-191): dequeue the pool's first buffer, reset its
\* chain and capture flags; an empty pool returns NULL and changes nothing.
AllocRtskb(p) ==
  /\ queue[p] # <<>>
  /\ LET b == Head(queue[p]) IN
       /\ DequeueState(b, p)
       /\ balance' = [balance EXCEPT ![p] = @ - 1]
       /\ chainEnd' = [chainEnd EXCEPT ![b] = b]
       /\ shared' = [shared EXCEPT ![b] = FALSE]
       /\ held' = held \cup {b}
  /\ UNCHANGED <<pool, comp, capq, acq, slab>>

\* rtskb_clone (lines 413-452): a new buffer from pool p with a copy of
\* h's payload; the copy itself is data and abstracted away.
RtskbClone(h, p) ==
  /\ h \in held
  /\ AllocRtskb(p)

\* kfree_rtskb called by the stack side on the chain it holds at h.
KfreeRtskb(h) ==
  /\ h \in held
  /\ ~Acquiring(h)
  /\ FreeChain(h)
  /\ held' = held \ {h}
  /\ UNCHANGED <<capq, acq, slab>>

\* rtskb_acquire, locked section (lines 377-402): take a companion from
\* comp_pool, charge it to skb's current pool and queue it there.  An
\* empty comp_pool returns -ENOMEM and changes nothing.  Only the head
\* changes pool ("acquires only the first skb of a chain"), so where chains
\* must stay single-pool (MixedChains = FALSE) only single buffers are
\* acquired, as rtcfg_rx_handler does with a frame just received.
\* Mutant: the NULL check on the companion dequeue (line 380) is lost.
RtskbAcquireNoCheck(h, cp) ==
  /\ h \in held
  /\ MixedChains \/ chainEnd[h] = h
  /\ acq = None
  /\ cp # pool[h]
  /\ LET c  == IF queue[cp] = <<>> THEN None ELSE Head(queue[cp])
         rp == pool[h]
     IN /\ queue' = [queue EXCEPT ![cp] = IF @ = <<>> THEN @ ELSE Tail(@),
                                   ![rp] = Append(@, c)]
        /\ next' = [b \in Buf |-> IF b = c THEN None ELSE next[b]]
        /\ chainEnd' = [b \in Buf |-> IF b = c THEN b ELSE chainEnd[b]]
        /\ pool' = [b \in Buf |-> IF b = c THEN rp ELSE pool[b]]
        /\ balance' = [balance EXCEPT ![cp] = @ - 1, ![rp] = @ + 1]
        /\ acq' = [skb |-> h, cpool |-> cp]
  /\ UNCHANGED <<shared, comp, held, capq, slab>>

RtskbAcquireBegin(h, cp) ==
  /\ h \in held
  /\ MixedChains \/ chainEnd[h] = h
  /\ acq = None
  /\ cp # pool[h]
  /\ queue[cp] # <<>>
  /\ LET c  == Head(queue[cp])
         rp == pool[h]
     IN /\ queue' = [queue EXCEPT ![cp] = Tail(@), ![rp] = Append(@, c)]
        /\ next' = [next EXCEPT ![c] = None]
        /\ chainEnd' = [chainEnd EXCEPT ![c] = c]
        /\ pool' = [pool EXCEPT ![c] = rp]
        /\ balance' = [balance EXCEPT ![cp] = @ - 1, ![rp] = @ + 1]
        /\ acq' = [skb |-> h, cpool |-> cp]
  /\ UNCHANGED <<shared, comp, held, capq, slab>>

\* rtskb_acquire, after interrupts are restored (line 404):
\* rtskb->pool = comp_pool.
RtskbAcquireEnd ==
  /\ acq # None
  /\ pool' = [pool EXCEPT ![acq.skb] = acq.cpool]
  /\ acq' = None
  /\ UNCHANGED <<queue, next, chainEnd, shared, comp, balance, held, capq,
                 slab>>

\* rtskb_pool_extend (lines 309-346): up to n fresh buffers from the slab
\* cache are queued on p.  The loop stops early when the cache is empty;
\* when rtdev_map_rtskb fails (line 335) the buffer just taken from the
\* cache is neither queued nor given back.
RtskbPoolExtend(p, n) ==
  \E k \in 0 .. n :
    \E s \in {f \in [1 .. k -> slab] : Cardinality(ElemsOf(f)) = k} :
      \E lost \in {None} \cup (IF MapCanFail /\ k < n THEN slab \ ElemsOf(s)
                                                    ELSE {}) :
        LET new == ElemsOf(s) IN
        /\ queue' = [queue EXCEPT ![p] = @ \o s]
        /\ slab' = slab \ (new \cup {lost})
        /\ pool' = [b \in Buf |-> IF b \in new THEN p ELSE pool[b]]
        /\ next' = [b \in Buf |-> IF b \in new THEN None ELSE next[b]]
        /\ chainEnd' = [b \in Buf |-> IF b \in new THEN b ELSE chainEnd[b]]
        /\ shared' = [b \in Buf |-> IF b \in new THEN FALSE ELSE shared[b]]
        /\ comp' = [b \in Buf |-> IF b \in new THEN None ELSE comp[b]]
        /\ UNCHANGED <<balance, held, capq, acq>>

\* rtskb_pool_shrink (lines 349-366): up to n free buffers of p go back to
\* the slab cache.
RtskbPoolShrink(p, n) ==
  LET k == IF n < Len(queue[p]) THEN n ELSE Len(queue[p])
  IN /\ k > 0
     /\ queue' = [queue EXCEPT ![p] = SubSeq(@, k + 1, Len(@))]
     /\ slab' = slab \cup {queue[p][i] : i \in 1 .. k}
     /\ UNCHANGED <<pool, next, chainEnd, shared, comp, balance, held, capq,
                    acq>>

\* __rtskb_pool_release (lines 293-304): every free buffer of p goes back
\* to the slab cache.  Buffers charged to p but not free stay where they
\* are; nothing waits for them.
RtskbPoolRelease(p) ==
  /\ queue' = [queue EXCEPT ![p] = <<>>]
  /\ slab' = slab \cup ElemsOf(queue[p])
  /\ UNCHANGED <<pool, next, chainEnd, shared, comp, balance, held, capq,
                 acq>>

(***************************************************************************)
(* The environment of the pool layer, as the specification describes it   *)
(***************************************************************************)

\* A user links the chain at h2 behind the chain at h1 (IP defragmentation,
\* RTcfg stage-2 collection): the tail's next and the head's chain_end.
ChainLink(h1, h2) ==
  /\ h1 \in held /\ h2 \in held /\ h1 # h2
  /\ ~Acquiring(h1) /\ ~Acquiring(h2)
  /\ CaptureChainHeads \/ h1 \notin capq
  /\ MixedChains \/ \A b \in ElemsOf(Chain(h1)) \cup ElemsOf(Chain(h2)) :
                      pool[b] = pool[h1]
  /\ next' = [next EXCEPT ![chainEnd[h1]] = h2]
  /\ chainEnd' = [chainEnd EXCEPT ![h1] = chainEnd[h2]]
  /\ held' = held \ {h2}
  /\ UNCHANGED <<queue, pool, shared, comp, balance, capq, acq, slab>>

\* The capture hook on a received buffer h: a companion is allocated from
\* CapPool, h is marked shared and the capture add-on keeps a reference.
CaptureTee(h) ==
  /\ RTCAP
  /\ h \in held /\ chainEnd[h] = h /\ ~shared[h] /\ h \notin capq
  /\ ~Acquiring(h)
  /\ queue[CapPool] # <<>>
  /\ LET c == Head(queue[CapPool]) IN
       /\ DequeueState(c, CapPool)
       /\ balance' = [balance EXCEPT ![CapPool] = @ - 1]
       /\ shared' = [shared EXCEPT ![h] = TRUE]
       /\ comp' = [comp EXCEPT ![h] = c]
       /\ capq' = capq \cup {h}
  /\ UNCHANGED <<pool, chainEnd, held, acq, slab>>

\* The capture add-on is done with b and calls kfree_rtskb(b).
CaptureFree(b) ==
  /\ b \in capq
  /\ FreeChain(b)
  /\ capq' = capq \ {b}
  /\ UNCHANGED <<held, acq, slab>>

(***************************************************************************)
(* Specification                                                           *)
(***************************************************************************)

InitSlab == Buf \ UNION {ElemsOf(InitQueue[p]) : p \in Pools}

Init ==
  /\ queue = InitQueue
  /\ pool = [b \in Buf |-> CHOOSE p \in Pools :
               b \in ElemsOf(InitQueue[p]) \/ b \in InitSlab]
  /\ next = [b \in Buf |-> None]
  /\ chainEnd = [b \in Buf |-> b]
  /\ shared = [b \in Buf |-> FALSE]
  /\ comp = [b \in Buf |-> None]
  /\ balance = [p \in Pools |-> 0]
  /\ held = {}
  /\ capq = {}
  /\ acq = None
  /\ slab = InitSlab

Next ==
  \/ \E p \in Pools : AllocRtskb(p)
  \/ \E h \in Buf, p \in Pools : RtskbClone(h, p)
  \/ \E h \in Buf : KfreeRtskb(h)
  \/ \E h \in Buf, p \in Pools : RtskbAcquireBegin(h, p)
  \/ RtskbAcquireEnd
  \/ \E p \in Pools, n \in 1 .. MaxExtend : RtskbPoolExtend(p, n)
  \/ \E p \in Pools, n \in 1 .. MaxExtend : RtskbPoolShrink(p, n)
  \/ \E h1, h2 \in Buf : ChainLink(h1, h2)
  \/ \E h \in Buf : CaptureTee(h)
  \/ \E b \in Buf : CaptureFree(b)

Spec == Init /\ [][Next]_vars

(***************************************************************************)
(* Properties                                                              *)
(***************************************************************************)

TypeOK ==
  /\ queue \in [Pools -> Seq(Buf)]
  /\ pool \in [Buf -> Pools]
  /\ next \in [Buf -> Buf \cup {None}]
  /\ chainEnd \in [Buf -> Buf]
  /\ shared \in [Buf -> BOOLEAN]
  /\ comp \in [Buf -> Buf \cup {None}]
  /\ balance \in [Pools -> Int]
  /\ held \subseteq Buf /\ capq \subseteq Buf /\ slab \subseteq Buf
  /\ acq \in {None} \cup [skb : Buf, cpool : Pools]

\* How many owners buffer b has: a place in a free list, a chain the stack
\* holds, the capture add-on (unless b is shared, when the stack's chain
\* already counts it), or a shared buffer that reserved b as companion.
Owners(b) ==
  Cardinality(Positions(b))
  + Cardinality({h \in held : b \in ElemsOf(Chain(h))})
  + (IF b \in capq /\ ~shared[b] THEN 1 ELSE 0)
  + Cardinality({x \in Buf : shared[x] /\ comp[x] = b})

\* Every buffer the slab cache handed out has exactly one owner at every
\* moment: kfree_rtskb, rtskb_acquire and the capture swap never free a
\* buffer twice (a corrupted free list) and never lose one (a leak).
OwnedOnce == \A b \in Buf : Owners(b) = IF b \in slab THEN 0 ELSE 1

\* A free buffer sits in the free list of the pool it is charged to, so
\* the next alloc/free cycle returns it where it came from.
FreeInOwnPool == \A p \in Pools : \A i \in DOMAIN queue[p] : pool[queue[p][i]] = p

\* When nobody holds a buffer, every pool's checked-build balance is back
\* to zero: alloc_rtskb, kfree_rtskb, rtskb_acquire and the capture swap
\* charge and credit the same pools (spec section 8, balance(p) == 0).
BalanceAtRest == Quiescent => \A p \in Pools : balance[p] = 0

=============================================================================
