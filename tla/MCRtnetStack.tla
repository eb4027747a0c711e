---------------------------- MODULE MCRtnetStack ----------------------------
(***************************************************************************)
(* The models of the RTnet core and of RTcfg in one model-checking run:   *)
(* the ioctl control path with the TDMA module (RtnetIoctl, which takes    *)
(* the core module as loaded for the whole run), the load and unload paths *)
(* of the core and RTmac modules (RtnetModules), the frame paths of        *)
(* rtcfg_frame.c over the rtskb pools (RtcfgFrames) and the ioctl paths of *)
(* rtcfg_ioctl.c (RtcfgIoctl), and the stage-2 transfer of an RTcfg      *)
(* connection (RtcfgStage2).  They share no variable; which of them a    *)
(* behaviour runs is chosen in the initial state and never changes, so     *)
(* every behaviour is one model's, with its own bounds: two ioctl threads  *)
(* with three ioctls each; two callers of /dev/rtnet with two ioctls each  *)
(* while the modules load and unload; a device pool with one buffer,       *)
(* num_rtskbs = 2 buffers for rtcfg_pool and two sending contexts; three   *)
(* RTcfg ioctls with file errors and timeouts; a stage-2 file of 0, 4 or 9 *)
(* bytes sent in bursts of two fragments under two MTUs, with up to two    *)
(* failed sends.  Variables that share a     *)
(* name with another model's are renamed.                                  *)
(***************************************************************************)
EXTENDS Integers, TLC

CONSTANTS c1, c2, NoOwner, d1, r1, r2, Dev, Cfg, s1, s2, None

VARIABLES
  pc, cmd, hasDev, calls, ioRegistered, refCount, nrt, ioUp, open, refs,
  macDisc, macPriv, xmitTdma, macDetach, vnic, ownerUse, tdmaUse, mod,
  modPc, listed,
  rtnet, modHeld, handlers, coreRefCount, rtmac, rtmacHeld, modRx,
  devPc, devCalls, stale,
  queue, pool, next, chainEnd, shared, comp, balance, held, capq, acq,
  slab, phase, rx, rxq, evt, task, cur, kept, snd, tx, devRef,
  registered, up,
  cfgPc, ioCur, ptr, owner, frees, wrlock, call, issued,
  sendData, fileSize, conn, cfgOffs, packets, cltState, cltLen, cltOffs,
  cltData, cltCount, toClient, toServer, faults,
  part   \* the model: one of Parts

MCCallers == {c1, c2}

Ioctl == INSTANCE RtnetIoctl WITH Callers <- MCCallers, MaxCalls <- 3,
           pc <- pc, cmd <- cmd, hasDev <- hasDev, calls <- calls,
           registered <- ioRegistered, refCount <- refCount, nrt <- nrt,
           up <- ioUp, open <- open, refs <- refs, macDisc <- macDisc,
           macPriv <- macPriv, xmitTdma <- xmitTdma,
           macDetach <- macDetach, vnic <- vnic, ownerUse <- ownerUse,
           tdmaUse <- tdmaUse, mod <- mod, modPc <- modPc, listed <- listed

Modules == INSTANCE RtnetModules WITH Callers <- MCCallers, MaxCalls <- 2,
             rtnet <- rtnet, held <- modHeld, handlers <- handlers,
             refCount <- coreRefCount, rtmac <- rtmac,
             rtmacHeld <- rtmacHeld, rx <- modRx, pc <- devPc,
             calls <- devCalls, stale <- stale

CfgFrames == INSTANCE RtcfgFrames WITH Buf <- {d1, r1, r2},
               Pools <- {Dev, Cfg},
               InitQueue <- (Dev :> <<d1>>) @@ (Cfg :> <<>>), None <- None,
               DevPool <- Dev, RtcfgPool <- Cfg, NumRtskbs <- 2,
               Senders <- {s1, s2}, HdrCanFail <- TRUE,
               queue <- queue, pool <- pool, next <- next,
               chainEnd <- chainEnd, shared <- shared, comp <- comp,
               balance <- balance, held <- held, capq <- capq,
               acq <- acq, slab <- slab, phase <- phase, rx <- rx,
               rxq <- rxq, evt <- evt, task <- task, cur <- cur,
               kept <- kept, snd <- snd, tx <- tx, devRef <- devRef,
               registered <- registered, up <- up

CfgIoctl == INSTANCE RtcfgIoctl WITH FileErrors <- TRUE, Timeouts <- TRUE,
              MaxCalls <- 3, pc <- cfgPc, cur <- ioCur, ptr <- ptr,
              owner <- owner, frees <- frees, wrlock <- wrlock,
              call <- call, issued <- issued

CfgStage2 == INSTANCE RtcfgStage2 WITH FileSizes <- {0, 4, 9},
               Mtus <- {3, 4, 5}, Stage2Hdr <- 2, FragHdr <- 1,
               Burstrate <- 2, SizeWidth <- 4, MaxFaults <- 2

Parts == {"ioctl", "modules", "rtcfg_frames", "rtcfg_ioctl", "rtcfg_stage2"}

ioctlVars == <<pc, cmd, hasDev, calls, ioRegistered, refCount, nrt, ioUp,
               open, refs, macDisc, macPriv, xmitTdma, macDetach, vnic,
               ownerUse, tdmaUse, mod, modPc, listed>>
modulesVars == <<rtnet, modHeld, handlers, coreRefCount, rtmac, rtmacHeld,
                 modRx, devPc, devCalls, stale>>
cfgFramesVars == <<queue, pool, next, chainEnd, shared, comp, balance, held,
                   capq, acq, slab, phase, rx, rxq, evt, task, cur, kept,
                   snd, tx, devRef, registered, up>>
cfgIoctlVars == <<cfgPc, ioCur, ptr, owner, frees, wrlock, call, issued>>
cfgStage2Vars == <<sendData, fileSize, conn, cfgOffs, packets, cltState,
                   cltLen, cltOffs, cltData, cltCount, toClient, toServer,
                   faults>>
vars == <<ioctlVars, modulesVars, cfgFramesVars, cfgIoctlVars,
          cfgStage2Vars, part>>

Init ==
  /\ part \in Parts
  /\ Ioctl!Init /\ Modules!Init /\ CfgFrames!Init /\ CfgIoctl!Init
  /\ CfgStage2!Init
  \* The other models' behaviours take one initial state of RtcfgStage2.
  /\ part # "rtcfg_stage2" => ~sendData /\ fileSize = 0

\* A step of the stage-2 transfer.
Stage2Step ==
  /\ part = "rtcfg_stage2" /\ CfgStage2!Next
  /\ UNCHANGED <<ioctlVars, modulesVars, cfgFramesVars, cfgIoctlVars, part>>

Next ==
  \/ /\ \/ part = "ioctl" /\ Ioctl!Next
           /\ UNCHANGED <<modulesVars, cfgFramesVars, cfgIoctlVars,
                          cfgStage2Vars>>
        \/ part = "modules" /\ Modules!Next
           /\ UNCHANGED <<ioctlVars, cfgFramesVars, cfgIoctlVars,
                          cfgStage2Vars>>
        \/ part = "rtcfg_frames" /\ CfgFrames!Next
           /\ UNCHANGED <<ioctlVars, modulesVars, cfgIoctlVars,
                          cfgStage2Vars>>
        \/ part = "rtcfg_ioctl" /\ CfgIoctl!Next
           /\ UNCHANGED <<ioctlVars, modulesVars, cfgFramesVars,
                          cfgStage2Vars>>
     /\ UNCHANGED part
  \/ Stage2Step

\* The fairness of RtnetIoctl, RtcfgFrames and RtcfgStage2.  In a
\* behaviour of another model the variables of each keep their initial
\* values, in which none of its fair actions is enabled, so each conjunct
\* constrains only its own model's behaviours.  RtcfgStage2's weak
\* fairness is taken of Stage2Step, which no other model's behaviour
\* enables.
Spec == Init /\ [][Next]_vars /\ Ioctl!Fairness /\ CfgFrames!Fairness
          /\ WF_vars(Stage2Step)

\* The variables of the models have their types; RTcfg's proc lock count
\* stays 0 or 1: rtcfg_ioctl_add never unlocks a lock it does not hold,
\* nor locks twice.
TypeOK ==
  /\ Ioctl!TypeOK /\ Modules!TypeOK /\ CfgIoctl!TypeOK /\ CfgStage2!TypeOK
  /\ part \in Parts

\* ref_count counts exactly the rtnet_ioctl calls inside a handler of its
\* type, and no call is inside a handler that rtnet_unregister_ioctls has
\* unlinked.
IoctlRefsCounted == Ioctl!IoctlRefsCounted

\* The device's reference count is the references rtnet_ioctl took with
\* rtdev_get_by_name and has not dropped, plus the one an attached
\* discipline holds (rtmac_disc_attach, rtmac_disc_detach).
DevRefsHeld == Ioctl!DevRefsHeld

\* The device's MAC state is all or nothing after every attach, detach and
\* failure path of rtmac_disc_attach and rtmac_disc_detach, and a VNIC
\* exists only with a discipline attached.
AttachConsistent == Ioctl!AttachConsistent

\* PRIV_FLAG_UP is set only on an open device: IOC_RT_IFUP clears it when
\* rtdev_open fails, and IOC_RT_IFDOWN clears it before closing.
UpMeansOpen == Ioctl!UpMeansOpen

\* rtnet_unregister_ioctls returns: once tdma_release or a failing
\* tdma_init waits for the TDMA handler's ref_count, the handler is
\* eventually unlinked.
UnregisterCompletes == Ioctl!UnregisterCompletes

\* A module that is not loaded, because its init failed or its exit ran,
\* has left nothing registered: every failure exit of rtskb_pools_init,
\* rtnet_proc_register, rtnet_init and rtmac_init unwinds exactly what the
\* steps before it registered.
UnloadedHoldsNothing == Modules!UnloadedHoldsNothing

\* The stack manager is inside rtmac_proto_rx only while rtmac_packet_type
\* is registered and the RTmac module is loaded: rtmac_proto_release
\* waits for it.
RxInLiveModule == Modules!RxInLiveModule

\* Every buffer is either free in exactly one pool, in exactly one place of
\* RTcfg's receive, dispatch and send paths, or back in the slab cache: the
\* handler, the task, the send functions and cleanup free each frame they
\* own exactly once and never one they have handed on.
BuffersAccounted == CfgFrames!BuffersAccounted

\* RTcfg's references on the device are exactly those its frames and
\* senders hold, so rtdev_unregister is never blocked forever nor passed
\* early.
CfgDevRefsHeld == CfgFrames!DevRefsHeld

\* A frame queued by rtcfg_rx_handler is eventually taken off rx_queue by
\* the task (or by cleanup), although rx_event counts no signals.
RxQueueDrains == CfgFrames!RxQueueDrains

\* The station buffer and the rtskbs of an RTcfg client or announce call
\* are freed at most once, never after the state machine took them, and
\* never lost while RTPC holds the call (cleanup_cmd_client,
\* cleanup_cmd_announce).
CallObjectsOwned == CfgIoctl!CallObjectsOwned

\* The proc write lock is held exactly while rtcfg_ioctl_add loads a
\* missing stage-2 file.
LockHeldWhileLoading == CfgIoctl!LockHeldWhileLoading

\* The stage-2 transfer implements Stage2Transfer: whatever frames and ACKs
\* are lost, the client takes the bytes of the file in order, and the
\* server records ACKED only once the client holds them all.
Stage2Refinement == CfgStage2!Refinement

\* A stage-2 transfer in which no send fails brings the server to ACKED.
TransferCompletes == CfgStage2!TransferCompletes
====
