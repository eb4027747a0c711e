---------------------------- MODULE RtcfgFrames ----------------------------
(***************************************************************************)
(* The frame layer of RTcfg (src/rtnet/stack/rtcfg/rtcfg_frame.c) composed *)
(* with the buffer pools of Rtskb: rtcfg_init_frames, the receive handler  *)
(* (rtskb_acquire into rtcfg_pool, device reference, rx_queue, rx_event),  *)
(* the receive task, the rtcfg_send_* functions with rtcfg_send_frame, and *)
(* rtcfg_cleanup_frames.                                                   *)
(*                                                                         *)
(* Frame contents are abstracted away: what the task does with a frame is *)
(* decided by its packet class and length (a nondeterministic choice) and *)
(* by the outcome of rtcfg_do_main_event, whose state machine is not in    *)
(* this repository: it may keep the frame (stage-2 collection), free it,   *)
(* or fail and leave it to the task.  One network device, one receive      *)
(* path through the stack manager, and a set of sending contexts (ioctl,   *)
(* timer, the task's own event handling) are modelled.                     *)
(***************************************************************************)
EXTENDS Integers, Sequences, FiniteSets

CONSTANTS
  Buf, Pools, InitQueue, None,
  DevPool,    \* the receive pool of the network device
  RtcfgPool,  \* rtcfg_pool
  NumRtskbs,  \* the num_rtskbs module parameter
  Senders,    \* contexts that may call rtcfg_send_* concurrently
  HdrCanFail  \* whether rtdev->hard_header may fail

ASSUME {DevPool, RtcfgPool} \subseteq Pools /\ DevPool # RtcfgPool
ASSUME NumRtskbs \in Nat /\ HdrCanFail \in BOOLEAN

VARIABLES
  queue, pool, next, chainEnd, shared, comp, balance, held, capq, acq, slab,
  phase,      \* "init", "up", "failed", "unpacked", "stopped", "released"
  rx,         \* the frame the stack manager is handing to rtcfg_rx_handler
  rxq,        \* rx_queue
  evt,        \* rx_event is signalled
  task,       \* rx_task: "wait" in rtos_event_wait, "loop" draining rx_queue
  cur,        \* the frame the task works on: [skb, st], or None
  kept,       \* frames rtcfg_do_main_event retained
  snd,        \* snd[s]: the frame sender s is building, or None
  tx,         \* frames handed to the driver by rtdev_xmit
  devRef,     \* references RTcfg holds on the device
  registered, \* the device is registered (rtdev_get_by_index finds it)
  up          \* IFF_UP

pvars == <<queue, pool, next, chainEnd, shared, comp, balance, held, capq,
           acq, slab>>
fvars == <<phase, rx, rxq, evt, task, cur, kept, snd, tx, devRef, registered,
           up>>
vars == <<pvars, fvars>>

\* The pools as Rtskb models them, in the build without the capture add-on.
R == INSTANCE Rtskb WITH CapPool <- DevPool, RTCAP <- FALSE,
       MapCanFail <- FALSE, CaptureChainHeads <- FALSE, MixedChains <- FALSE,
       MaxExtend <- NumRtskbs

\* The handler is registered with the packet dispatcher.
PackAdded == phase = "up"

Free(b) == R!KfreeRtskb(b)

(***************************************************************************)
(* rtcfg_init_frames (lines 517-549)                                       *)
(***************************************************************************)

\* rtskb_pool_init may hand back fewer than num_rtskbs buffers; the
\* function then returns -ENOMEM at once (line 523).  A failed
\* rtos_task_init or rtdev_add_pack releases the pool again (error1,
\* error2), which leaves the pools as they were.
RtcfgInitFrames ==
  /\ phase = "init"
  /\ \/ /\ R!RtskbPoolExtend(RtcfgPool, NumRtskbs)
        /\ \/ Len(queue'[RtcfgPool]) < NumRtskbs /\ phase' = "failed"
           \/ Len(queue'[RtcfgPool]) = NumRtskbs /\ phase' = "up"
     \/ /\ phase' = "failed"
        /\ UNCHANGED pvars
  /\ UNCHANGED <<rx, rxq, evt, task, cur, kept, snd, tx, devRef, registered,
                 up>>

(***************************************************************************)
(* Receive path                                                            *)
(***************************************************************************)

\* The driver receives a frame into a buffer of its pool, takes it off the
\* ring and hands it to the stack (tulip_rx, lines 200-205), whose manager
\* dispatches it to the RTcfg handler.
DeviceRx ==
  /\ PackAdded /\ registered /\ up
  /\ rx = None /\ acq = None
  /\ queue[DevPool] # <<>>
  /\ R!AllocRtskb(DevPool)
  /\ rx' = Head(queue[DevPool])
  /\ UNCHANGED <<phase, rxq, evt, task, cur, kept, snd, tx, devRef,
                 registered, up>>

\* rtcfg_rx_handler (lines 46-56), the locked part of rtskb_acquire.
RxHandlerAcquire ==
  /\ rx # None /\ acq = None
  /\ R!RtskbAcquireBegin(rx, RtcfgPool)
  /\ UNCHANGED fvars

\* rtcfg_rx_handler after rtskb_acquire returned 0: take a device
\* reference, queue the frame, signal rx_event.
RxHandlerQueue ==
  /\ acq # None
  /\ R!RtskbAcquireEnd
  /\ devRef' = devRef + 1
  /\ rxq' = Append(rxq, rx)
  /\ evt' = TRUE
  /\ rx' = None
  /\ UNCHANGED <<phase, task, cur, kept, snd, tx, registered, up>>

\* rtcfg_rx_handler when rtcfg_pool is empty: the frame is dropped.
RxHandlerDrop ==
  /\ rx # None /\ acq = None
  /\ queue[RtcfgPool] = <<>>
  /\ Free(rx)
  /\ rx' = None
  /\ UNCHANGED <<phase, rxq, evt, task, cur, kept, snd, tx, devRef,
                 registered, up>>

(***************************************************************************)
(* rtcfg_rx_task (lines 60-94)                                             *)
(***************************************************************************)

\* rtos_event_wait returns: the event is consumed.
RxTaskWake ==
  /\ task = "wait" /\ evt
  /\ evt' = FALSE
  /\ task' = "loop"
  /\ UNCHANGED <<pvars, phase, rx, rxq, cur, kept, snd, tx, devRef,
                 registered, up>>

\* rtskb_dequeue(&rx_queue) (line 68); the frame carries a reference.
RxTaskDequeue ==
  /\ task = "loop" /\ cur = None /\ rxq # <<>>
  /\ cur' = [skb |-> Head(rxq), st |-> "got"]
  /\ rxq' = Tail(rxq)
  /\ UNCHANGED <<pvars, phase, rx, evt, task, kept, snd, tx, devRef,
                 registered, up>>

\* rx_queue is empty: back to rtos_event_wait.
RxTaskIdle ==
  /\ task = "loop" /\ cur = None /\ rxq = <<>>
  /\ task' = "wait"
  /\ UNCHANGED <<pvars, phase, rx, rxq, evt, cur, kept, snd, tx, devRef,
                 registered, up>>

\* Mutant: the discard path keeps the device reference.
RxTaskDiscardNoDeref ==
  /\ cur # None /\ cur.st = "got"
  /\ Free(cur.skb)
  /\ cur' = None
  /\ UNCHANGED <<phase, rx, rxq, evt, task, kept, snd, tx, devRef,
                 registered, up>>

\* A frame for another host (lines 71-75) or shorter than the RTcfg
\* header (lines 77-83): drop the reference, free the frame.
RxTaskDiscard ==
  /\ cur # None /\ cur.st = "got"
  /\ devRef' = devRef - 1
  /\ Free(cur.skb)
  /\ cur' = None
  /\ UNCHANGED <<phase, rx, rxq, evt, task, kept, snd, tx, registered, up>>

\* Mutant: kfree_rtskb after a failed event (line 90) is missing.
RxTaskDispatchNoFree ==
  /\ cur # None /\ cur.st = "got"
  /\ cur' = [cur EXCEPT !.st = "dispatched"]
  /\ \/ kept' = kept \cup {cur.skb} /\ UNCHANGED pvars
     \/ Free(cur.skb) /\ UNCHANGED kept
     \/ UNCHANGED <<pvars, kept>>
  /\ UNCHANGED <<phase, rx, rxq, evt, task, snd, tx, devRef, registered, up>>

\* rtcfg_do_main_event (lines 87-90): the event keeps the frame, frees it
\* itself, or fails, in which case the task frees it.  The device reference
\* is still held.
RxTaskDispatch ==
  /\ cur # None /\ cur.st = "got"
  /\ cur' = [cur EXCEPT !.st = "dispatched"]
  /\ \/ kept' = kept \cup {cur.skb} /\ UNCHANGED pvars
     \/ Free(cur.skb) /\ UNCHANGED kept
  /\ UNCHANGED <<phase, rx, rxq, evt, task, snd, tx, devRef, registered, up>>

\* Mutant: the inner loop is an "if": one frame per wake-up.
RxTaskDerefOnce ==
  /\ cur # None /\ cur.st = "dispatched"
  /\ devRef' = devRef - 1
  /\ cur' = None
  /\ task' = "wait"
  /\ UNCHANGED <<pvars, phase, rx, rxq, evt, kept, snd, tx, registered, up>>

\* rtdev_dereference(rtdev) after the event (line 92).
RxTaskDeref ==
  /\ cur # None /\ cur.st = "dispatched"
  /\ devRef' = devRef - 1
  /\ cur' = None
  /\ UNCHANGED <<pvars, phase, rx, rxq, evt, task, kept, snd, tx,
                 registered, up>>

\* The RTcfg state machine lets go of a frame it kept.
MainEventRelease(b) ==
  /\ b \in kept
  /\ Free(b)
  /\ kept' = kept \ {b}
  /\ UNCHANGED <<phase, rx, rxq, evt, task, cur, snd, tx, devRef,
                 registered, up>>

(***************************************************************************)
(* rtcfg_send_* (lines 134-505) and rtcfg_send_frame (lines 98-130)        *)
(***************************************************************************)

\* rtdev_get_by_index and alloc_rtskb from rtcfg_pool.  Without a device
\* the call returns -ENODEV; without a buffer it drops the reference and
\* returns -ENOBUFS: neither changes anything.
SendAlloc(s) ==
  /\ PackAdded /\ registered
  /\ snd[s] = None
  /\ queue[RtcfgPool] # <<>>
  /\ R!AllocRtskb(RtcfgPool)
  /\ devRef' = devRef + 1
  /\ snd' = [snd EXCEPT ![s] = Head(queue[RtcfgPool])]
  /\ UNCHANGED <<phase, rx, rxq, evt, task, cur, kept, tx, registered, up>>

\* rtcfg_send_frame: a failing hard_header or a device that is not up
\* frees the frame (label err); otherwise rtdev_xmit hands it to the
\* driver.  Both paths drop the reference.
SendFrame(s) ==
  /\ snd[s] # None
  /\ devRef' = devRef - 1
  /\ snd' = [snd EXCEPT ![s] = None]
  /\ \/ /\ up
        /\ tx' = tx \cup {snd[s]}
        /\ UNCHANGED pvars
     \/ /\ HdrCanFail \/ ~up
        /\ Free(snd[s])
        /\ UNCHANGED tx
  /\ UNCHANGED <<phase, rx, rxq, evt, task, cur, kept, registered, up>>

\* The driver's transmit clean-up frees the frame into its pool
\* (tulip_interrupt, lines 314-317).
DriverTxDone(b) ==
  /\ b \in tx
  /\ Free(b)
  /\ tx' = tx \ {b}
  /\ UNCHANGED <<phase, rx, rxq, evt, task, cur, kept, snd, devRef,
                 registered, up>>

(***************************************************************************)
(* The device: ifup/ifdown and (un)registration                            *)
(***************************************************************************)

\* IOC_RT_IFUP sets PRIV_FLAG_UP on the registered device and opens it.
DeviceUp ==
  /\ registered /\ ~up
  /\ up' = TRUE
  /\ UNCHANGED <<pvars, phase, rx, rxq, evt, task, cur, kept, snd, tx,
                 devRef, registered>>

\* IOC_RT_IFDOWN clears PRIV_FLAG_UP.
DeviceDown ==
  /\ registered /\ up
  /\ up' = FALSE
  /\ UNCHANGED <<pvars, phase, rx, rxq, evt, task, cur, kept, snd, tx,
                 devRef, registered>>

\* The driver registers the device again.
DeviceRegister ==
  /\ ~registered
  /\ registered' = TRUE
  /\ UNCHANGED <<pvars, phase, rx, rxq, evt, task, cur, kept, snd, tx,
                 devRef, up>>

\* rtdev_unregister waits until no reference is left; the driver is
\* stopped, so nothing is being received or transmitted.
DeviceUnregister ==
  /\ registered /\ ~up
  /\ devRef = 0 /\ rx = None /\ acq = None /\ tx = {}
  /\ registered' = FALSE
  /\ UNCHANGED <<pvars, phase, rx, rxq, evt, task, cur, kept, snd, tx,
                 devRef, up>>

(***************************************************************************)
(* rtcfg_cleanup_frames (lines 553-573)                                    *)
(***************************************************************************)

\* rtdev_remove_pack returns -EAGAIN while the handler may run.  The
\* module's users (ioctls, the state machine) are gone before the frame
\* layer is cleaned up.
CleanupRemovePack ==
  /\ phase = "up"
  /\ rx = None /\ acq = None
  /\ kept = {} /\ \A s \in Senders : snd[s] = None
  /\ phase' = "unpacked"
  /\ UNCHANGED <<pvars, rx, rxq, evt, task, cur, kept, snd, tx, devRef,
                 registered, up>>

\* rtos_event_delete and rtos_task_delete, between two frames of the task.
CleanupStopTask ==
  /\ phase = "unpacked" /\ cur = None
  /\ phase' = "stopped"
  /\ task' = "dead"
  /\ UNCHANGED <<pvars, rx, rxq, evt, cur, kept, snd, tx, devRef,
                 registered, up>>

\* Frames left on rx_queue: drop the reference, free the frame.
CleanupDrain ==
  /\ phase = "stopped" /\ rxq # <<>>
  /\ devRef' = devRef - 1
  /\ Free(Head(rxq))
  /\ rxq' = Tail(rxq)
  /\ UNCHANGED <<phase, rx, evt, task, cur, kept, snd, tx, registered, up>>

\* rtskb_pool_release(&rtcfg_pool).
CleanupRelease ==
  /\ phase = "stopped" /\ rxq = <<>>
  /\ R!RtskbPoolRelease(RtcfgPool)
  /\ phase' = "released"
  /\ UNCHANGED <<rx, rxq, evt, task, cur, kept, snd, tx, devRef,
                 registered, up>>

(***************************************************************************)
(* Specification                                                           *)
(***************************************************************************)

Init ==
  /\ R!Init
  /\ phase = "init"
  /\ rx = None /\ rxq = <<>> /\ evt = FALSE /\ task = "wait" /\ cur = None
  /\ kept = {} /\ snd = [s \in Senders |-> None] /\ tx = {}
  /\ devRef = 0 /\ registered = TRUE /\ up = TRUE

Next ==
  \/ RtcfgInitFrames
  \/ DeviceRx \/ RxHandlerAcquire \/ RxHandlerQueue \/ RxHandlerDrop
  \/ RxTaskWake \/ RxTaskDequeue \/ RxTaskIdle \/ RxTaskDiscard
  \/ RxTaskDispatch \/ RxTaskDeref
  \/ \E b \in Buf : MainEventRelease(b) \/ DriverTxDone(b)
  \/ \E s \in Senders : SendAlloc(s) \/ SendFrame(s)
  \/ DeviceUp \/ DeviceDown \/ DeviceUnregister \/ DeviceRegister
  \/ CleanupRemovePack \/ CleanupStopTask \/ CleanupDrain \/ CleanupRelease

\* The receive task and a started module cleanup run to completion.
Fairness ==
  /\ WF_vars(RxTaskWake) /\ WF_vars(RxTaskDequeue) /\ WF_vars(RxTaskIdle)
  /\ WF_vars(RxTaskDiscard \/ RxTaskDispatch) /\ WF_vars(RxTaskDeref)
  /\ WF_vars(CleanupStopTask) /\ WF_vars(CleanupDrain)
  /\ WF_vars(CleanupRelease)

Spec == Init /\ [][Next]_vars /\ Fairness

(***************************************************************************)
(* Properties                                                              *)
(***************************************************************************)

TypeOK ==
  /\ R!TypeOK
  /\ phase \in {"init", "up", "failed", "unpacked", "stopped", "released"}
  /\ rx \in Buf \cup {None} /\ rxq \in Seq(Buf) /\ evt \in BOOLEAN
  /\ task \in {"wait", "loop", "dead"}
  /\ cur \in {None} \cup [skb : Buf, st : {"got", "dispatched"}]
  /\ kept \subseteq Buf /\ tx \subseteq Buf
  /\ snd \in [Senders -> Buf \cup {None}]
  /\ devRef \in Nat /\ registered \in BOOLEAN /\ up \in BOOLEAN


\* Where RTcfg code holds frame b: in the handler, on rx_queue, in the
\* task, kept by the state machine, in a sender, in the driver.
Places(b) ==
  (IF rx = b THEN 1 ELSE 0)
  + Cardinality({i \in DOMAIN rxq : rxq[i] = b})
  + (IF cur # None /\ cur.st = "got" /\ cur.skb = b THEN 1 ELSE 0)
  + (IF b \in kept THEN 1 ELSE 0) + (IF b \in tx THEN 1 ELSE 0)
  + Cardinality({s \in Senders : snd[s] = b})

\* Every buffer is either free in exactly one pool, in exactly one place of
\* the receive, dispatch and send paths, or back in the slab cache: the
\* handler, the task, the send functions and cleanup free each frame they
\* own exactly once and never one they have handed on.
BuffersAccounted ==
  \A b \in Buf :
    /\ Places(b) + Cardinality(R!Positions(b)) = IF b \in slab THEN 0 ELSE 1
    /\ (b \in held) = (Places(b) > 0)

\* RTcfg's references on the device are exactly those its frames and
\* senders hold: one per frame on rx_queue or in the task until line 92,
\* one per sender between rtdev_get_by_index and rtcfg_send_frame's
\* return; so rtdev_unregister is never blocked forever nor passed early.
DevRefsHeld ==
  devRef = Len(rxq) + (IF cur # None THEN 1 ELSE 0)
           + Cardinality({s \in Senders : snd[s] # None})

\* A frame queued by rtcfg_rx_handler is eventually taken off rx_queue by
\* the task (or by cleanup), although rx_event counts no signals.
RxQueueDrains ==
  \A b \in Buf : (\E i \in DOMAIN rxq : rxq[i] = b) ~> ~(\E i \in DOMAIN rxq : rxq[i] = b)

\* When rtcfg_init_frames fails, rtcfg_pool holds no buffer any more.
InitFailureReleases == phase = "failed" => queue[RtcfgPool] = <<>>

\* After rtskb_pool_release(&rtcfg_pool) no buffer is freed into it.
ReleasedPoolStaysEmpty == phase = "released" => queue[RtcfgPool] = <<>>
====
