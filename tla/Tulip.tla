------------------------------- MODULE Tulip -------------------------------
(***************************************************************************)
(* The receive and transmit rings of the RTnet tulip driver and its        *)
(* interrupt handler (src/rtnet/drivers/tulip/interrupt.c).               *)
(*                                                                         *)
(* Each ring is an array of descriptors indexed by an unsigned int counter *)
(* modulo the ring size: the driver consumes at cur_rx and refills at      *)
(* dirty_rx, queues frames at cur_tx and reclaims them at dirty_tx.  The   *)
(* counters wrap at 2^Width.  The chip is the concurrent actor: it fills   *)
(* the receive descriptors it owns (DescOwned) in ring order, transmits    *)
(* the transmit descriptors it owns, raises interrupt sources in CSR5 and  *)
(* runs the general-purpose timer of CSR11.  The handler runs in interrupt *)
(* context: tasks (the transmit path, the stack freeing buffers) do not    *)
(* run while it does, but the chip does.                                   *)
(*                                                                         *)
(* tulip_start_xmit (tulip_core.c) is not in this repository; Xmit follows *)
(* the queue-stop rule that the wake condition of tulip_interrupt          *)
(* (lines 330-331) is written against.  Left out: the error counters and   *)
(* messages of the abnormal-interrupt branch (only its clearing of CSR5    *)
(* is kept), the TxDied restart, the csr5 == 0xffffffff exit of a removed  *)
(* card, and the chip variants (LC82C168, interrupt mitigation): the model *)
(* is a chip without mitigation.                                           *)
(***************************************************************************)
EXTENDS Integers, FiniteSets

CONSTANTS
  RxRingSize,  \* RX_RING_SIZE
  TxRingSize,  \* TX_RING_SIZE
  Width,       \* bits of the unsigned int ring counters
  PoolSize,    \* buffers of tp->skb_pool
  Frames,      \* frames the stack has to transmit
  MaxWork,     \* tulip_max_interrupt_work
  MaxArrivals  \* frames arriving on the wire; the link is quiet afterwards

ASSUME /\ 2^Width % RxRingSize = 0 /\ 2^Width % TxRingSize = 0
       /\ TxRingSize >= 3 /\ MaxWork >= 1 /\ PoolSize >= RxRingSize
       \* oi grows by at most two a turn (AbnormalIntr and TimerInt),
       \* so with this bound it never passes maxoi = TX_RING_SIZE and is
       \* left out of the too-much-work test.
       /\ 2 * MaxWork <= TxRingSize

Mod == 2^Width

\* Unsigned int arithmetic on the ring counters.
Dist(a, b) == (a - b) % Mod
Inc(a) == (a + 1) % Mod

RxRing == 0 .. RxRingSize - 1
TxRing == 0 .. TxRingSize - 1

\* CSR5 sources: RxIntr, RxNoBuf, TxIntr and TimerInt.
Sources == {"rx", "rxnobuf", "tx", "timer"}
RxSources == {"rx", "rxnobuf"}
TxSources == {"tx", "timer"}

VARIABLES
  curRx, dirtyRx,  \* tp->cur_rx, tp->dirty_rx
  rxSkb,           \* rxSkb[e]: tp->rx_buffers[e].skb is not NULL
  rxOwned,         \* rxOwned[e]: DescOwned in tp->rx_ring[e].status
  rxGood,          \* rxGood[e]: the chip's status marks a whole good frame
  nicRx,           \* the chip's receive descriptor
  pool,            \* the number of free buffers of tp->skb_pool
  stack,           \* buffers handed to the stack by rtnetif_rx, not freed
  arrived,         \* frames that arrived so far
  curTx, dirtyTx,  \* tp->cur_tx, tp->dirty_tx
  txSkb,           \* txSkb[e]: tp->tx_buffers[e].skb is not NULL
  txOwned,         \* txOwned[e]: DescOwned in tp->tx_ring[e].status
  nicTx,           \* the chip's transmit descriptor
  txFree,          \* frames the stack holds, not queued on the ring
  stopped,         \* the device's transmit queue is stopped
  csr5,            \* pending interrupt sources
  seen,            \* the handler's csr5
  ipc,             \* where the handler is: "idle", "rx", "tail", "final"
  rxLimit,         \* tulip_rx's rx_work_limit
  irqRx, irqTx,    \* the handler's rx and tx counts
  work,            \* the handler's work_count
  ttimer,          \* tp->ttimer
  csr11            \* the general-purpose timer is running

rxVars == <<curRx, dirtyRx, rxSkb, rxOwned, rxGood, nicRx, pool, stack,
            arrived>>
txVars == <<curTx, dirtyTx, txSkb, txOwned, nicTx, txFree, stopped>>
irqVars == <<csr5, seen, ipc, rxLimit, irqRx, irqTx, work, ttimer, csr11>>
vars == <<rxVars, txVars, irqVars>>

(***************************************************************************)
(* The chip, the timer and the tasks                                       *)
(***************************************************************************)

\* A frame arrives.  The chip writes it into its descriptor if it owns it
\* and raises RxIntr; otherwise the frame is missed and RxNoBuf raised.
NicReceive ==
  /\ arrived < MaxArrivals
  /\ arrived' = arrived + 1
  /\ \/ /\ rxOwned[nicRx]
        /\ \E good \in BOOLEAN : rxGood' = [rxGood EXCEPT ![nicRx] = good]
        /\ rxOwned' = [rxOwned EXCEPT ![nicRx] = FALSE]
        /\ nicRx' = (nicRx + 1) % RxRingSize
        /\ csr5' = csr5 \cup {"rx"}
     \/ /\ ~rxOwned[nicRx]
        /\ csr5' = csr5 \cup {"rxnobuf"}
        /\ UNCHANGED <<rxGood, rxOwned, nicRx>>
  /\ UNCHANGED <<curRx, dirtyRx, rxSkb, pool, stack, txVars, seen, ipc,
                 rxLimit, irqRx, irqTx, work, ttimer, csr11>>

\* The chip transmits its descriptor, hands it back and raises TxIntr.
NicTransmit ==
  /\ txOwned[nicTx]
  /\ txOwned' = [txOwned EXCEPT ![nicTx] = FALSE]
  /\ nicTx' = (nicTx + 1) % TxRingSize
  /\ csr5' = csr5 \cup {"tx"}
  /\ UNCHANGED <<rxVars, curTx, dirtyTx, txSkb, txFree, stopped, seen, ipc,
                 rxLimit, irqRx, irqTx, work, ttimer, csr11>>

\* CSR11 counts down to zero and raises TimerInt.
TimerExpire ==
  /\ csr11
  /\ csr11' = FALSE
  /\ csr5' = csr5 \cup {"timer"}
  /\ UNCHANGED <<rxVars, txVars, seen, ipc, rxLimit, irqRx, irqTx, work,
                 ttimer>>

\* The stack frees a received buffer into tp->skb_pool (kfree_rtskb).
StackFree ==
  /\ ipc = "idle" /\ stack > 0
  /\ stack' = stack - 1
  /\ pool' = pool + 1
  /\ UNCHANGED <<curRx, dirtyRx, rxSkb, rxOwned, rxGood, nicRx, arrived,
                 txVars, irqVars>>

\* tulip_start_xmit: the frame goes into descriptor cur_tx, which the chip
\* then owns; the queue is stopped once TX_RING_SIZE - 2 frames were
\* already queued.
Xmit ==
  /\ ipc = "idle" /\ ~stopped /\ txFree > 0
  /\ txSkb' = [txSkb EXCEPT ![curTx % TxRingSize] = TRUE]
  /\ txOwned' = [txOwned EXCEPT ![curTx % TxRingSize] = TRUE]
  /\ curTx' = Inc(curTx)
  /\ txFree' = txFree - 1
  /\ stopped' = (Dist(curTx, dirtyTx) >= TxRingSize - 2)
  /\ UNCHANGED <<rxVars, dirtyTx, nicTx, irqVars>>

(***************************************************************************)
(* The ring loops                                                          *)
(***************************************************************************)

\* tulip_refill_rx (lines 65-101) from dirty_rx d up to cur_rx: an entry
\* without a buffer gets one from the pool, or the loop stops there; every
\* entry passed is given to the chip.
\* Writing DescOwned as the whole status word also clears the chip's
\* status bits (rxGood).
\* Mutant: the skb == NULL test dropped, every entry gets a new buffer.
RECURSIVE RefillFromAlwaysAlloc(_, _, _, _, _)
RefillFromAlwaysAlloc(d, skb, owned, good, free) ==
  LET e == d % RxRingSize IN
  IF Dist(curRx, d) = 0 \/ free = 0
  THEN [dirty |-> d, skb |-> skb, owned |-> owned, good |-> good,
        pool |-> free]
  ELSE RefillFromAlwaysAlloc(Inc(d), [skb EXCEPT ![e] = TRUE],
                  [owned EXCEPT ![e] = TRUE], [good EXCEPT ![e] = FALSE],
                  free - 1)

RECURSIVE RefillFrom(_, _, _, _, _)
RefillFrom(d, skb, owned, good, free) ==
  LET e == d % RxRingSize IN
  IF Dist(curRx, d) = 0 \/ (~skb[e] /\ free = 0)
  THEN [dirty |-> d, skb |-> skb, owned |-> owned, good |-> good,
        pool |-> free]
  ELSE RefillFrom(Inc(d), [skb EXCEPT ![e] = TRUE],
                  [owned EXCEPT ![e] = TRUE], [good EXCEPT ![e] = FALSE],
                  IF skb[e] THEN free ELSE free - 1)

Refill == RefillFrom(dirtyRx, rxSkb, rxOwned, rxGood, pool)

\* The transmit clean-up loop (lines 270-318) from dirty_tx d: it stops at
\* cur_tx or at a descriptor the chip still owns, and frees the frame of
\* every other descriptor.
\* Mutant: the status < 0 break dropped.
RECURSIVE TxCleanFromNoOwnedCheck(_, _, _)
TxCleanFromNoOwnedCheck(d, skb, free) ==
  LET e == d % TxRingSize IN
  IF Dist(curTx, d) = 0
  THEN [dirty |-> d, skb |-> skb, free |-> free]
  ELSE IF ~skb[e]
       THEN TxCleanFromNoOwnedCheck(Inc(d), skb, free)
       ELSE TxCleanFromNoOwnedCheck(Inc(d), [skb EXCEPT ![e] = FALSE],
                                    free + 1)

RECURSIVE TxCleanFrom(_, _, _)
TxCleanFrom(d, skb, free) ==
  LET e == d % TxRingSize IN
  IF Dist(curTx, d) = 0 \/ txOwned[e]
  THEN [dirty |-> d, skb |-> skb, free |-> free]
  ELSE IF ~skb[e]
       THEN TxCleanFrom(Inc(d), skb, free)
       ELSE TxCleanFrom(Inc(d), [skb EXCEPT ![e] = FALSE], free + 1)

\* Lines 320-332: the out-of-sync correction, the queue wake and the store
\* of dirty_tx after the clean-up loop.
TxClean == TxCleanFrom(dirtyTx, txSkb, txFree)

TxComplete ==
  LET r == TxClean
      d == IF Dist(curTx, r.dirty) > TxRingSize
           THEN (r.dirty + TxRingSize) % Mod ELSE r.dirty
  IN /\ txSkb' = r.skb
     /\ txFree' = r.free
     /\ stopped' = (stopped /\ ~(Dist(curTx, d) < TxRingSize - 2))
     /\ dirtyTx' = d

(***************************************************************************)
(* tulip_interrupt                                                         *)
(***************************************************************************)

\* Mutant: rx_work_limit one larger.
DispatchLimitOffByOne(s) ==
  /\ seen' = s
  /\ csr5' = {}
  /\ IF s \cap RxSources # {}
     THEN /\ ipc' = "rx"
          /\ rxLimit' = (dirtyRx + RxRingSize + 1 - curRx) % Mod
     ELSE /\ ipc' = "tail"
          /\ UNCHANGED rxLimit

\* The top of the do-while loop (lines 252-262): acknowledge the sources
\* read into s and take the receive path if RxIntr or RxNoBuf is among
\* them.  s is all of CSR5 as read, and the acknowledge follows the read
\* with nothing between, so no source stays pending.
Dispatch(s) ==
  /\ seen' = s
  /\ csr5' = {}
  /\ IF s \cap RxSources # {}
     THEN /\ ipc' = "rx"
          /\ rxLimit' = (dirtyRx + RxRingSize - curRx) % Mod
     ELSE /\ ipc' = "tail"
          /\ UNCHANGED rxLimit

\* Lines 217-250: the chip raised an interrupt; the handler reads CSR5.
IrqEnter ==
  /\ ipc = "idle" /\ csr5 # {}
  /\ Dispatch(csr5)
  /\ irqRx' = 0 /\ irqTx' = 0 /\ work' = MaxWork
  /\ UNCHANGED <<rxVars, txVars, ttimer, csr11>>

\* One turn of the loop of tulip_rx (lines 104-214): stop at a descriptor
\* the chip owns or when rx_work_limit runs out; otherwise pass a good
\* frame's buffer up with rtnetif_rx, leave a bad frame's buffer on the
\* ring, and advance cur_rx.  When the loop stops, tulip_refill_rx runs
\* (line 258).
\* Mutant: the rx_work_limit test dropped.
RxEntryNoLimit ==
  LET e == curRx % RxRingSize IN
  /\ ipc = "rx"
  /\ \/ /\ rxOwned[e]
        /\ LET r == Refill IN
             /\ dirtyRx' = r.dirty /\ rxSkb' = r.skb
             /\ rxOwned' = r.owned /\ rxGood' = r.good /\ pool' = r.pool
        /\ ipc' = "tail"
        /\ UNCHANGED <<curRx, stack, rxLimit, irqRx>>
     \/ /\ ~rxOwned[e]
        /\ rxLimit' = rxLimit - 1
        /\ IF rxGood[e]
           THEN /\ stack' = stack + 1
                /\ rxSkb' = [rxSkb EXCEPT ![e] = FALSE]
           ELSE UNCHANGED <<stack, rxSkb>>
        /\ curRx' = Inc(curRx)
        /\ irqRx' = irqRx + 1
        /\ UNCHANGED <<dirtyRx, rxOwned, rxGood, pool, ipc>>
  /\ UNCHANGED <<nicRx, arrived, txVars, csr5, seen, irqTx, work, ttimer,
                 csr11>>

RxEntry ==
  LET e == curRx % RxRingSize IN
  /\ ipc = "rx"
  /\ \/ /\ rxOwned[e] \/ rxLimit = 0
        /\ LET r == Refill IN
             /\ dirtyRx' = r.dirty /\ rxSkb' = r.skb
             /\ rxOwned' = r.owned /\ rxGood' = r.good /\ pool' = r.pool
        /\ ipc' = "tail"
        /\ UNCHANGED <<curRx, stack, rxLimit, irqRx>>
     \/ /\ ~rxOwned[e] /\ rxLimit > 0
        /\ rxLimit' = rxLimit - 1
        /\ IF rxGood[e]
           THEN /\ stack' = stack + 1
                /\ rxSkb' = [rxSkb EXCEPT ![e] = FALSE]
           ELSE UNCHANGED <<stack, rxSkb>>
        /\ curRx' = Inc(curRx)
        /\ irqRx' = irqRx + 1
        /\ UNCHANGED <<dirtyRx, rxOwned, rxGood, pool, ipc>>
  /\ UNCHANGED <<nicRx, arrived, txVars, csr5, seen, irqTx, work, ttimer,
                 csr11>>

\* The loop is left: its locals (csr5, rx, tx, work_count) go out of scope.
LeaveLoop ==
  /\ ipc' = "final"
  /\ seen' = {} /\ rxLimit' = 0 /\ irqRx' = 0 /\ irqTx' = 0 /\ work' = 0

\* The rest of a turn of the do-while loop (lines 264-435): the transmit
\* clean-up under tp->lock for TxIntr or TimerInt, the abnormal-interrupt
\* branch's clearing of the error sources, TimerInt's reset of ttimer, the
\* too-much-work exit (which acknowledges every source, also those it has
\* not read), the work_count exit, and the re-read of CSR5 that ends or
\* repeats the loop.
IrqTail ==
  LET txPath == seen \cap TxSources # {}
      tx == IF txPath THEN irqTx + TxClean.free - txFree ELSE irqTx
      tooMuch == tx > TxRingSize \/ irqRx > RxRingSize
      \* RxNoBuf is an abnormal source: the error branch writes 0x0800f7ba
      \* to CSR5, which clears a RxNoBuf raised since the acknowledge.
      left == IF "rxnobuf" \in seen THEN csr5 \ {"rxnobuf"} ELSE csr5
  IN
  /\ ipc = "tail"
  /\ IF txPath THEN TxComplete
     ELSE UNCHANGED <<txSkb, txFree, stopped, dirtyTx>>
  /\ ttimer' = (ttimer /\ "timer" \notin seen)
  /\ \/ /\ tooMuch
        /\ csr5' = {}
        /\ LeaveLoop
     \/ /\ ~tooMuch /\ (work - 1 = 0 \/ left = {})
        /\ LeaveLoop /\ csr5' = left
     \/ /\ ~tooMuch /\ work - 1 # 0 /\ left # {}
        /\ Dispatch(left)
        /\ work' = work - 1 /\ irqTx' = tx /\ UNCHANGED irqRx
  /\ UNCHANGED <<rxVars, curTx, txOwned, nicTx, csr11>>

\* Lines 437-470: the final tulip_refill_rx; if the buffer at dirty_rx is
\* still missing the ring is in suspend mode, and unless the timer is
\* already set up and running, CSR11 is started and TimerInt cleared.
\* Mutant: the suspend-mode timer is never set up.
IrqExitNoTimer ==
  LET r == Refill IN
     /\ ipc = "final"
     /\ dirtyRx' = r.dirty /\ rxSkb' = r.skb
     /\ rxOwned' = r.owned /\ rxGood' = r.good /\ pool' = r.pool
     /\ ipc' = "idle"
     /\ UNCHANGED <<curRx, nicRx, stack, arrived, txVars, seen, rxLimit,
                    irqRx, irqTx, work, csr5, csr11, ttimer>>

IrqExit ==
  LET r == Refill
      suspend == ~r.skb[r.dirty % RxRingSize]
      arm == suspend /\ (~ttimer \/ ~csr11)
  IN /\ ipc = "final"
     /\ dirtyRx' = r.dirty /\ rxSkb' = r.skb
     /\ rxOwned' = r.owned /\ rxGood' = r.good /\ pool' = r.pool
     /\ csr11' = (csr11 \/ arm)
     /\ ttimer' = (ttimer \/ arm)
     /\ csr5' = IF arm THEN csr5 \ {"timer"} ELSE csr5
     /\ ipc' = "idle"
     /\ UNCHANGED <<curRx, nicRx, stack, arrived, txVars, seen,
                    rxLimit, irqRx, irqTx, work>>

(***************************************************************************)
(* Specification                                                           *)
(***************************************************************************)

Init ==
  /\ curRx = 0 /\ dirtyRx = 0
  /\ rxSkb = [e \in RxRing |-> TRUE]
  /\ pool = PoolSize - RxRingSize
  /\ rxOwned = [e \in RxRing |-> TRUE]
  /\ rxGood = [e \in RxRing |-> FALSE]
  /\ nicRx = 0 /\ stack = 0 /\ arrived = 0
  /\ curTx = 0 /\ dirtyTx = 0
  /\ txSkb = [e \in TxRing |-> FALSE]
  /\ txOwned = [e \in TxRing |-> FALSE]
  /\ nicTx = 0 /\ txFree = Frames /\ stopped = FALSE
  /\ csr5 = {} /\ seen = {} /\ ipc = "idle" /\ rxLimit = 0
  /\ irqRx = 0 /\ irqTx = 0 /\ work = 0 /\ ttimer = FALSE /\ csr11 = FALSE

Next ==
  \/ NicReceive \/ NicTransmit \/ TimerExpire
  \/ StackFree \/ Xmit
  \/ IrqEnter \/ RxEntry \/ IrqTail \/ IrqExit

\* The handler runs once an interrupt is pending, and to its end; the
\* chip transmits the descriptors it owns and its timer expires.  The
\* stack frees the buffers it was given: it is a task and runs only while
\* the handler does not, so StackFree is enabled only between interrupts
\* and is strongly fair.  Frame arrival and transmission requests are not
\* forced.
Fairness ==
  /\ WF_vars(IrqEnter) /\ WF_vars(RxEntry) /\ WF_vars(IrqTail)
  /\ WF_vars(IrqExit)
  /\ WF_vars(NicTransmit) /\ WF_vars(TimerExpire)
  /\ SF_vars(StackFree)

Spec == Init /\ [][Next]_vars /\ Fairness

(***************************************************************************)
(* Properties                                                              *)
(***************************************************************************)

TypeOK ==
  /\ {curRx, dirtyRx, curTx, dirtyTx} \subseteq 0 .. Mod - 1
  /\ rxSkb \in [RxRing -> BOOLEAN]
  /\ rxOwned \in [RxRing -> BOOLEAN] /\ rxGood \in [RxRing -> BOOLEAN]
  /\ nicRx \in RxRing
  /\ pool \in 0 .. PoolSize /\ stack \in 0 .. PoolSize
  /\ arrived \in 0 .. MaxArrivals
  /\ txSkb \in [TxRing -> BOOLEAN]
  /\ txOwned \in [TxRing -> BOOLEAN] /\ nicTx \in TxRing
  /\ txFree \in 0 .. Frames /\ stopped \in BOOLEAN
  /\ csr5 \subseteq Sources /\ seen \subseteq Sources
  /\ ipc \in {"idle", "rx", "tail", "final"}
  /\ rxLimit \in 0 .. RxRingSize
  /\ irqRx \in 0 .. MaxWork * RxRingSize
  /\ irqTx \in 0 .. MaxWork * TxRingSize
  /\ work \in 0 .. MaxWork /\ ttimer \in BOOLEAN /\ csr11 \in BOOLEAN

\* Every buffer of tp->skb_pool is in exactly one place: free in the pool,
\* on a receive descriptor, or with the stack.  tulip_refill_rx takes a
\* buffer only for an entry whose skb is NULL, and tulip_rx passes up and
\* clears the skb of good frames only.
BuffersAccounted ==
  pool + stack + Cardinality({e \in RxRing : rxSkb[e]}) = PoolSize

\* The receive ring: the entries tulip_rx consumed and tulip_refill_rx has
\* not yet refilled, from dirty_rx to cur_rx, number at most RX_RING_SIZE
\* and none of them belongs to the chip; every other entry has a buffer,
\* so the chip never owns a descriptor without one.  rx_work_limit keeps
\* cur_rx within a ring of dirty_rx; the alloc-failure break keeps the
\* refill from handing out an empty descriptor.
RxRingSound ==
  LET backlog == Dist(curRx, dirtyRx) IN
  /\ backlog <= RxRingSize
  /\ \A i \in 0 .. RxRingSize - 1 :
       LET e == (dirtyRx + i) % RxRingSize IN
       /\ i < backlog => ~rxOwned[e]
       /\ i >= backlog => rxSkb[e]

\* The transmit ring: the frames queued between dirty_tx and cur_tx are
\* fewer than TX_RING_SIZE, each is on its own descriptor, only they can
\* be owned by the chip, and with the frames the stack holds they are all
\* the frames.  The clean-up loop frees no descriptor the chip still owns
\* and the queue stop and wake keep cur_tx within a ring of dirty_tx.
TxRingSound ==
  LET q == Dist(curTx, dirtyTx) IN
  /\ q < TxRingSize
  /\ txFree + q = Frames
  /\ \A i \in TxRing :
       LET e == (dirtyTx + i) % TxRingSize IN
       /\ txSkb[e] = (i < q)
       /\ txOwned[e] => i < q

\* Once received frames are consumed, the receive ring is eventually
\* refilled up to cur_rx: when a refill fails for want of buffers, the
\* suspend-mode timer set up at the end of tulip_interrupt brings the
\* handler back after the stack has freed buffers.
RxRingRefilled ==
  Dist(curRx, dirtyRx) # 0 ~> Dist(curRx, dirtyRx) = 0

\* A stopped transmit queue is eventually woken: once the chip has sent
\* the queued frames, the TxIntr it raises brings the handler to the
\* clean-up loop and rtnetif_wake_queue.
TxQueueWakes == stopped ~> ~stopped
====
