# TLA+ models of RTnet's buffer pools, RTcfg, control path and tulip driver

This directory holds TLA+ specifications of parts of the RTnet sources under
`src/`, the TLC configurations that check them, and `PROJECT.json`. That file
lists the components, the runs, the mutants, the map from definitions to
source lines, the findings and the hazards.

## The system and how its parts interact

* **rtskb pools** (`src/stack/rtskb.c`)
  * Every packet buffer (rtskb) comes from a slab cache. It is kept on the
    intrusive FIFO free list of a pool (`rtskb_queue`).
  * `skb->pool` names the pool a buffer goes back to when it is freed.
  * A buffer can head a chain linked through `next`, whose end is recorded
    in `chain_end`.
  * `rtskb_acquire` hands a receive buffer to a protocol. The protocol's
    pool gives up a companion buffer, which goes to the buffer's old pool.
    The buffer itself is recharged to the protocol's pool.
  * The capture add-on (`CONFIG_RTNET_ADDON_RTCAP`) marks a received buffer
    `RTSKB_CAP_SHARED` and gives it a companion from its own pool. When a
    shared buffer is freed, its pool is swapped with the companion's, and
    the companion is released in its place.
  * The checked build keeps a per-pool `pool_balance`.
* **RTcfg frame layer** (`src/rtnet/stack/rtcfg/rtcfg_frame.c`)
  * The stack manager calls `rtcfg_rx_handler` for each RTcfg frame. The
    handler acquires the frame into `rtcfg_pool`, takes a device reference,
    queues the frame on `rx_queue` and signals `rx_event`.
  * The low-priority `rtcfg_rx_task` drains the queue and hands frames to
    the RTcfg state machine (`rtcfg_do_main_event`, not in this repository).
  * The `rtcfg_send_*` functions look the device up, allocate from
    `rtcfg_pool` and send through `rtcfg_send_frame`. The driver frees
    transmitted frames in its interrupt handler
    (`src/rtnet/drivers/tulip/interrupt.c`).
  * `rtcfg_init_frames` and `rtcfg_cleanup_frames` create and tear down the
    pool, task, event and handler.
  * Stage 2 of a connection is the server's configuration file. The server
    sends it in one STAGE_2_CFG frame (`rtcfg_send_stage_2`). It follows
    with bursts of `burstrate` STAGE_2_CFG_FRAG frames
    (`rtcfg_send_stage_2_frag`), each as large as the MTU leaves room for.
    The client reports the bytes it holds with ACK_CFG (`rtcfg_send_ack`).
    Both advance `cfg_offs`. The state machines that call these functions
    (`rtcfg_conn_event`, `rtcfg_client_event`) are not in this repository.
* **Control path**
  * `rtnet_chrdev.c` dispatches ioctls to registered handlers, counting the
    calls in progress.
  * `rtcfg_ioctl.c` posts RTcfg commands over RTPC, with copy-back and
    cleanup callbacks.
  * `rtmac_disc.c` attaches and detaches a MAC discipline. `tdma_module.c`
    is the TDMA discipline's attach and detach.
  * `rtmac_proto.c` dispatches received RTmac frames to the discipline.
* **Tulip driver interrupt path** (`src/rtnet/drivers/tulip/interrupt.c`)
  * The receive ring and the transmit ring are arrays of descriptors that
    the driver and the chip share. Each descriptor is owned either by the
    chip (`DescOwned`) or by the driver. The driver indexes them by unsigned
    counters modulo the ring size: it consumes at `cur_rx` and refills at
    `dirty_rx`, and it queues at `cur_tx` and reclaims at `dirty_tx`.
  * `tulip_interrupt` reads and acknowledges CSR5 in a loop of at most
    `tulip_max_interrupt_work` turns. Each turn runs `tulip_rx` and
    `tulip_refill_rx` for the receive sources and the transmit clean-up for
    TxIntr or TimerInt. A turn stops the loop early when it did too much
    work. After the loop, the handler refills once more and, if the ring
    is short of buffers, sets up the suspend-mode timer in CSR11.
  * `tulip_refill_rx` takes buffers from the device's rtskb pool, which the
    stack refills when it frees the buffers it was handed. When the pool is
    empty the refill stops, and the descriptor stays with the driver.
  * `tulip_start_xmit` (in `tulip_core.c`, not in this repository) queues
    frames and stops the queue when the ring is nearly full. The clean-up
    wakes it.
* **Module lifecycle**
  * `rtnet_init` (`src/rtnet/stack/rtnet_module.c`) creates the rtskb pools
    and the slab cache, the proc entries, the stack manager and the device
    manager, then `rtnet_chrdev_init` (the `/dev/rtnet` misc device and
    `core_ioctls`) and the RTPC dispatcher. Each failure jumps to a label
    that undoes the earlier steps. `rtnet_release` undoes all of them.
  * `rtmac_init` (`src/rtnet/rtmac/rtmac_module.c`) registers the RTmac
    packet type, its proc entries and the VNIC layer. `rtmac_release` and
    the init error path wait in `rtmac_proto_release` until the stack
    manager is not inside `rtmac_proto_rx`.
  * The ioctl path of the control path runs inside the core module. Its
    file operations name no owner, so an open `/dev/rtnet` does not pin it.

## Modules

| Module | Models |
|---|---|
| `Rtskb` | The pool layer. Variables: `queue` (free lists), `pool`, `next`, `chainEnd`, `shared`, `comp` (cap_comp_skb), `balance`, `held` (chains the stack holds), `capq` (buffers the capture holds), `acq` (an `rtskb_acquire` between line 402 and line 404), `slab`. There is one action per function: `AllocRtskb`, `KfreeRtskb`, `RtskbClone`, `RtskbAcquireBegin`/`RtskbAcquireEnd`, `RtskbPoolExtend`, `RtskbPoolShrink` and `RtskbPoolRelease`. The RTCAP free loop is the recursive `FreeLoop` over `FreeOne`, one step per element as at lines 214-246. The environment actions `ChainLink`, `CaptureTee` and `CaptureFree` come from the spec, because rtcap and the chaining users are not in `src/`. |
| `MCRtskb` | Three pools (device, protocol, capture) and four buffers, one of them in the slab. The violation runs use it. |
| `MCRtskbBuilds` | Both builds in one run: two INSTANCEs of `Rtskb` (RTCAP with mixed-pool chains, plain with single-pool chains) over the pools of `MCRtskb`. `build` is chosen in the initial state and never changes. |
| `RtcfgFrames` | Composes `Rtskb` (INSTANCE without RTCAP) with the RTcfg frame layer: `RtcfgInitFrames`, `RxHandlerAcquire`/`RxHandlerQueue`/`RxHandlerDrop`, `RxTaskWake`/`RxTaskDequeue`/`RxTaskIdle`/`RxTaskDiscard`/`RxTaskDispatch`/`RxTaskDeref`, `SendAlloc`/`SendFrame`, `DriverTxDone`, the four cleanup steps, and the device (up/down, register/unregister). |
| `MCRtcfgFrames` | One device pool buffer, `num_rtskbs = 2`, two sending contexts. The two RTcfg frame violation runs use it. |
| `RtcfgIoctl` | Heap ownership in `rtcfg_ioctl.c`. Each ioctl issued gets its own copy of the objects `conn`, `data`, `file`, `fbuf` (file->buffer), `station` and `skb`. `owner[i][o]` says whether an object is unallocated, live, taken over by the RTcfg state machine, or freed, and `frees[i][o]` counts the kfree calls on it. `ptr` holds the add ioctl's non-NULL locals, and `wrlock` the proc write lock. `call[i]` is the RTPC call of a client or announce ioctl. The add path is one action per block of `rtcfg_ioctl_add`: `AddConn`, `AddStage1`, `AddStage2`, `AddDispatch1` (with `KeepCmdAdd` and `CleanupCmdAdd`), `AddLoad`, `AddDispatch2` and `AddErr`. The client and announce path is `CmdDispatch`, then `CallerWake` (copy-back and cleanup) or `CallerTimeout`. RTPC and the RTcfg state machine are not in `src/`, so `HandlerTake`, `HandlerAttach`, `HandlerComplete` and `CallerTimeout` come from spec §4.6. |
| `RtnetIoctl` | The control path for one device. Each caller thread has `pc`, `cmd` and `hasDev`, and runs through `rtnet_ioctl`: `IoctlLookup` takes a ref_count under the read lock, `IoctlGetDev` takes a device reference (for the NODEV_PARAM request `IOC_RT_IFINFO`, `IfInfoGetDev` is the handler's own lookup instead), `HandlerLock` takes nrt_lock, `HandlerRun` runs the handler body, and `IoctlFinish` drops the references. The bodies are `IfUp`, `IfDown`, `IfInfo` and `TdmaIoctl`; `IfInfo` and the interrupted wait of `HandlerLock` drop the reference `IfInfoGetDev` took (`DropInfoRef`), as the handler does before it returns; each is one step, because it runs under nrt_lock. The body calls `RtmacDiscAttach` with `TdmaAttach`, or `RtmacDiscDetach` with `TdmaDetach`. The device's MAC state is `macDisc`, `macPriv` (tdma_priv: events, worker, tdma_dev, SHUTDOWN), `xmitTdma`, `macDetach`, `vnic` and the two use counts. The TDMA module is `TdmaInit`, `TdmaInitProc`, `TdmaRelease` and `RtnetUnregisterIoctls`. `tdma_ioctl` is not in `src/`, so `TdmaIoctl` comes from spec §4.2. |
| `RtnetModules` | Loading and unloading the core and RTmac modules. The core module is `rtnet` (unloaded, coming: between `rtnet_chrdev_init` and `rtpc_init`, live), `held` (its registrations), `handlers` and `refCount` (core_ioctls). RTmac is `rtmac`, `rtmacHeld` and `rx` (the stack manager inside `rtmac_proto_rx`). The error ladders are tuples of what each label releases: `ProcErrorLabel` for `rtnet_proc_register`, `ErrOutLabel` for `rtnet_init`. `ErrOut(k)` is the union of labels 1..k, because the labels fall through. The actions are `RtnetInit` (up to `rtnet_chrdev_init`, whose result it ignores), `RtnetInitRtpc`, `RtnetRelease`, `RtmacInitProto`, `RtmacInitRest`, `RtmacRelease`, `RtmacProtoRelease` (guarded by `~rx`), `RxDispatch` and `RtmacProtoRx`. The callers of `/dev/rtnet` are `IoctlOpen`, `IoctlLookup` and `IoctlReturn`. `FreeCore` is the loader freeing the module. It sets `stale` for every caller that is not idle; such a caller is executing freed code, and `IoctlStale` ends its call without defined effect. |
| `MCRtnetModules` | Two callers with two ioctls each. The unload race run uses it. |
| `MCRtnetStack` | `RtnetIoctl`, `RtnetModules`, `RtcfgFrames` and `RtcfgIoctl` in one run, as four INSTANCEs with the bounds of their own MC modules. `RtnetIoctl` has two threads with three ioctls each; `RtnetModules` has two callers with two ioctls each; `RtcfgFrames` has the constants of `MCRtcfgFrames`; `RtcfgIoctl` has three ioctls with file errors and timeouts. The models share no variable. `RtnetIoctl` takes the core module as loaded throughout. `part` is chosen in the initial state and never changes. Variables that share a name with another model's are renamed: `ioRegistered` and `ioUp` of `RtnetIoctl`; `modHeld`, `modRx`, `coreRefCount`, `devPc` and `devCalls` of `RtnetModules`; `cfgPc` and `ioCur` of `RtcfgIoctl`. A fifth part is `RtcfgStage2`. Its initial choices (file size, stage-2 data or not) are fixed in the other parts' behaviours, so that they do not multiply those parts' states. |
| `RtcfgStage2` | The stage-2 transfer of one connection. The server's side is `conn` (announced, STAGE_2_SENT, ACKED), `cfgOffs` (`conn->cfg_offs`) and `packets`, which counts down the burst. The client's side is `cltState`, `cltLen`, `cltOffs` (`spec.clt.cfg_offs`), `cltData` and `cltCount` (the fragments since its last ACK). `toClient` and `toServer` are the frames on the segment, delivered in order. A byte is named by its offset in the file, so `cltData` is the offsets the client appended, in order. `SendStage2`, `SendStage2Frag` (one turn of the burst loop) and `SendAck` translate the send functions. `MIN` and `SizeT` are their `size_t` arithmetic. `NoFrame` is a failure before the frame is built. `SendFrame` is `rtcfg_send_frame`, which either puts the frame on the wire or loses it; `faults` counts the failures. `RecvAck`, `BurstDone`, `RecvStage2`, `RecvFrag` and `RecvDrop` follow the state machines of spec §4.5: the server continues from `ack_len`, and the client acknowledges after STAGE_2_CFG, after every `burstrate` fragments and at the end. It drops a fragment that is not at its offset. |
| `Stage2Transfer` | The abstract transfer: `held`, a prefix of the file, grows in order; `done` becomes true only once `held` is the whole file. `RtcfgStage2` instantiates it with `held <- cltData` and `done <- conn = "acked"`, and `total` is the connection's `cfg_len`. |
| `MCRtcfgIoctl` | One ioctl, for the double-free run. |
| `Tulip` | The rings and the interrupt handler of `interrupt.c`. Buffers and frames matter only by how many are where, so `rxSkb[e]` and `txSkb[e]` say whether a descriptor has one, and `pool`, `stack` and `txFree` count the rest. `rxOwned`, `txOwned` and `rxGood` are the status words. The counters are unsigned modulo `2^Width`, and `Dist` is their unsigned difference. The chip is the concurrent actor: `NicReceive` (fills the descriptor it owns, or raises RxNoBuf), `NicTransmit` and `TimerExpire`. The stack is `StackFree` and `Xmit`, and it runs only while the handler does not. The handler is `IrqEnter` and `Dispatch` (read and acknowledge CSR5), `RxEntry` (one turn of the `tulip_rx` loop, then the refill), `IrqTail` (the transmit clean-up `TxComplete` over the recursive `TxCleanFrom`, the abnormal-interrupt clearing, TimerInt, the too-much-work and work_count exits, the re-read of CSR5) and `IrqExit` (the final refill and the suspend-mode timer). `RefillFrom` is the loop of `tulip_refill_rx`. `ipc` is where the handler is. `seen`, `rxLimit`, `irqRx`, `irqTx` and `work` are its locals, which are reset when it leaves its loop. |
| `MCTulip` | `MCTulip.cfg` and `MCTulip_lost_txintr.cfg` use the same bounds (see Bounds). |

Each mutant operator in a module (for example `FreeOneNoSwap` or
`RxTaskDerefOnce`) is the definition that follows it, changed the way a
plausible bug would change it. `PROJECT.json` lists which property each one
breaks.

## Runs

| Run | Result | What it shows |
|---|---|---|
| `rtskb_builds` | pass | In both builds, `OwnedOnce` holds: every buffer has exactly one owner (a free list, a stack chain, the capture, or a shared buffer as its reserved companion). `FreeInOwnPool` holds: a free buffer is queued on the pool it is charged to. In the plain build, `BalanceAtRest` also holds: every `pool_balance` is 0 when nothing is held. |
| `rtskb_capture_chain` | violation | A captured buffer that later heads a chain is freed by the capture along that chain. |
| `rtskb_acquire_race` | violation | A capture free between line 402 and line 404 of `rtskb_acquire` unbalances two pools. |
| `rtskb_mixed_chain` | violation | The non-RTCAP `kfree_rtskb` puts a mixed-pool chain on the head's pool. The spec says each member goes to its own pool. |
| `rtskb_extend_leak` | violation | A failure of `rtdev_map_rtskb` leaks the slab object. |
| `rtcfg_init_leak` | violation | A short `rtskb_pool_init` makes `rtcfg_init_frames` return without releasing the pool. |
| `rtcfg_cleanup_inflight` | violation | `rtcfg_cleanup_frames` releases `rtcfg_pool` while a sent frame is still in the driver. |
| `rtnet_stack` | pass | For `RtnetIoctl`: `IoctlRefsCounted`: ref_count equals the calls inside the handler, and no call is inside an unlinked handler. `DevRefsHeld`: device references equal the callers' (those of `rtnet_ioctl` and of the `IOC_RT_IFINFO` handler, on every return path) plus the attached discipline's. `AttachConsistent`: after every attach, detach and failure path the MAC pointers, use counts and worker agree. `UpMeansOpen`: PRIV_FLAG_UP implies the device is open. `UnregisterCompletes` (liveness): the wait in `rtnet_unregister_ioctls` ends. For `RtnetModules`: `UnloadedHoldsNothing`: whichever step of `rtskb_pools_init`, `rtnet_proc_register`, `rtnet_init` or `rtmac_init` fails, and after both exit functions, an unloaded module has nothing registered. `RxInLiveModule`: the stack manager is inside `rtmac_proto_rx` only while the packet type is registered and RTmac is loaded. For `RtcfgFrames`: `BuffersAccounted`: every buffer is free in one pool, in one place of the RTcfg paths, or in the slab. `CfgDevRefsHeld`: device references match the frames and sends that hold them. `RxQueueDrains` (liveness): every queued frame leaves `rx_queue`. For `RtcfgIoctl`: `CallObjectsOwned`: a client's station buffer and the rtskbs of client and announce calls are freed once, and never after the state machine took them. While live, they stay reachable from a call RTPC still holds. This holds whether the caller waited or timed out and the handler finished later. `LockHeldWhileLoading`: the add command holds the proc write lock exactly while it loads a missing stage-2 file, the interval after `keep_cmd_add` disarmed the cleanup. For `RtcfgStage2`: `Stage2Refinement`: the transfer implements `Stage2Transfer`. Whatever sends fail, and whether before or after `cfg_offs` advanced, the client takes only the next bytes of the file, in order. The server records ACKED only once the client holds the whole file. `TransferCompletes` (liveness): a transfer in which no send fails reaches ACKED, for files of 0, 4 and 9 bytes and with the MTU changing between sends. `TypeOK` covers all five models. |
| `tulip` | pass | `BuffersAccounted`: every pool buffer is free, on one receive descriptor, or with the stack. `RxRingSound`: at most a ring of entries lies between `dirty_rx` and `cur_rx`, none of them owned by the chip, and every other entry has a buffer, so the chip is never given a descriptor without one. `TxRingSound`: fewer than `TX_RING_SIZE` frames are queued between `dirty_tx` and `cur_tx`, one per descriptor, only they can be owned by the chip, and no frame is lost or freed while the chip owns it. `RxRingRefilled` (liveness): a consumed receive ring is eventually refilled, through the suspend-mode timer when the pool was empty. |
| `tulip_lost_txintr` | violation | `TxQueueWakes` fails. A TxIntr that arrives during a turn ending in the too-much-work exit is acknowledged unseen by the write of 0x8001ffff (line 414). On a chip without mitigation nothing is re-armed (line 424), so once the stopped queue's frames are sent, the queue is never woken. |
| `rtnet_unload_race` | violation | `IoctlInLiveModule` fails. A caller that opened `/dev/rtnet` while `rtnet_init` was between `rtnet_chrdev_init` and `rtpc_init` is inside `rtnet_ioctl` when `rtpc_init` fails and the module is freed. `rmmod` during an ioctl does the same. Nothing waits for `core_ioctls`, and the file operations have no owner. |
| `rtcfg_add_double_free` | violation | When a file record exists, the err label of `rtcfg_ioctl_add` frees `data_buf` twice (line 300). The file record also leaks. |

## Bounds

* **MCRtskb**
  * Four buffers and three pools are enough for the scenarios that matter:
    a two-element chain, one buffer held by the capture, a companion, and a
    slab buffer for extend/shrink.
  * `MaxExtend = 1`.
  * `BalanceBound` keeps every balance within -2..2. Only the acquire race
    makes balances drift, and each round of it moves them by one. Without
    the bound the race repeats forever.
* **MCRtskbBuilds**
  * The pools and buffers of `MCRtskb`. `BalanceBound` is -2..1 here, so
    that both builds fit in one run. A balance is minus the number of
    buffers allocated from the pool beyond its fill, so -2..1 still allows
    two buffers of a pool allocated at once.
* **MCRtnetModules** (and the `RtnetModules` half of `MCRtnetStack`)
  * Two callers with two ioctls each. This lets one caller sit in the
    handler while the other opens, and lets a caller come back after a
    reload.
  * Every init step can fail. Each registration is one element, so the
    whole error ladder is explored.
* **The `RtnetIoctl` half of `MCRtnetStack`**
  * Two threads are enough for the races that matter: one in the TDMA handler while the module unregisters it, and one waiting on nrt_lock while the other detaches.
  * Three ioctls per thread, each one of five commands, allow an attach, a failed detach and a retry, or an `IOC_RT_IFINFO` waiting on nrt_lock behind any of them.
* **MCTulip**
  * A receive ring of two descriptors, with three pool buffers, so that the
    stack can hold every buffer and a refill fails.
  * A transmit ring of four descriptors and four frames. The queue stops at
    the third queued frame, and a fourth frame would overfill the ring if
    the wake were wrong.
  * 3-bit counters, so every counter wraps and a full transmit ring
    (distance 4) is not mistaken for an empty one.
  * Two turns of the interrupt loop. With a ring of two, the second turn
    can pass `maxrx` and take the too-much-work exit. With `oi` growing by
    at most two a turn, it never passes `maxoi = TX_RING_SIZE`, so it is
    left out.
  * At most three frames arrive (`MaxArrivals`); the link is quiet
    afterwards. Three is what the too-much-work exit needs. A fourth
    arrival multiplies the state space beyond a run. The abnormal branch's
    clearing of a second RxNoBuf within one handler run needs a fourth
    arrival, so it is modelled but not reached.
* **MCRtcfgIoctl** (and the `RtcfgIoctl` part of `MCRtnetStack`)
  * Three ioctls are enough for three cases: a client call that times out, a new ioctl issued while that call is still pending, and the late completion that cleans the old call up.
  * Every failure point of the add path is enabled.
  * One ioctl is enough for the double free.
* **The `RtcfgStage2` part of `MCRtnetStack`**
  * The file is 0, 4 or 9 bytes, with or without stage-2 data. Size 0 and
    no data give the empty STAGE_2_CFG of spec §8.
  * The headers are 2 bytes (STAGE_2_CFG) and 1 byte (STAGE_2_CFG_FRAG).
    The MTU is 3, 4 or 5 and may change between two sends, as a TDMA slot
    change can. These are the real 13, 6 and 1500 bytes scaled down, with
    the first fragment still smaller than later ones. A 9-byte file needs
    two to five fragments, so it takes one or two bursts of
    `burstrate = 2`.
  * Up to two sends fail: the first frame, a fragment or an ACK. The
    failure may come before or after `cfg_offs` advances. That is enough
    to lose a fragment in the middle of a burst and then another frame.
  * `size_t` is 4 bits wide, which is wider than any offset. An MTU below
    the header would wrap; it is left out, since no device reports one.
* **MCRtcfgFrames** (and the `RtcfgFrames` part of `MCRtnetStack`)
  * Three buffers: the device's receive buffer and two buffers for
    `rtcfg_pool`. With these, frames in `rx_queue`, in the task, in a sender
    and in the driver occur together, and `rtcfg_pool` can run empty.

## Fairness

`RtcfgFrames` assumes weak fairness for the receive task's steps and for the
cleanup steps once cleanup has started:
* The task is a real-time task that runs whenever it is ready.
* `rtcfg_cleanup_frames` is straight-line code whose only loop polls
  `rtdev_remove_pack`.

No fairness is assumed for receptions, senders or the device.

`RtnetIoctl` assumes weak fairness for every step a caller takes after its
lookup, for the rest of `tdma_init`, and for the unregister loop:
* Started kernel paths run to completion.
* The unregister loop retries every second.

A caller's steps after the lookup are one action, `CallerStep(c)`: each is
enabled at its own value of `pc[c]`, which only that caller changes, so weak
fairness of the disjunction is weak fairness of each step.

New ioctls, module loading and `rmmod` are not forced.
In `MCRtnetStack` this fairness is part of the specification. In a
behaviour of `RtnetModules`, none of the fair actions is ever enabled.

`Tulip` assumes:
* weak fairness for the handler's steps, which run to the end once an
  interrupt is pending;
* weak fairness for the chip's transmission of the descriptors it owns and
  for its timer;
* strong fairness for the stack freeing buffers. The stack is a task: it
  runs only while the handler does not, so its step is enabled only between
  interrupts. The timer interrupt that a failed refill sets up repeats, so
  without strong fairness a behaviour could keep the stack from ever
  running between two timer interrupts.

Frame arrivals and transmit requests are not forced.

`RtcfgStage2` assumes weak fairness of its whole next-state relation. The
RTcfg tasks of both stations run whenever a frame is queued for them, and
the server's burst loop runs to its end. Failures are not forced. Every
step brings the transfer closer to its end, so weak fairness of `Next` is
as strong as per-action fairness here.

In `MCRtnetStack` the fairness of `RtnetIoctl` and `RtcfgFrames` is part of
the specification. In a behaviour of another part, none of their fair
actions is ever enabled. `RtcfgStage2`'s fairness is taken of the step
`Stage2Step`, which carries the guard `part = "rtcfg_stage2"`. The merged run does not check deadlock, because
the `RtnetIoctl` and `RtnetModules` parts really may stop.

`RtnetModules` assumes no fairness and states no liveness property.
`rtmac_proto_release` polls once a second. Under steady RTmac traffic each
poll may find a frame inside `rtmac_proto_rx`, so the unload is not bound
to finish. The hazard is listed in `PROJECT.json`. `CHECK_DEADLOCK` is
off in its cfg. Once the bounded ioctls are spent and the module is loaded
with TDMA attached, nothing more happens, which the real system also allows.

## Abstractions and what is not modelled

* Payload, cursors and frame contents are left out.
* Packet class and length, and the outcome of `rtcfg_do_main_event`, are
  nondeterministic choices.
* The seven `rtcfg_send_*` functions share one skeleton (get device, alloc,
  fill, `rtcfg_send_frame`). That skeleton is modelled once, as `SendAlloc`
  and `SendFrame`. The stage-2 senders and `rtcfg_send_ack` are modelled
  again in `RtcfgStage2`, with their offsets. The announce, simple and
  dead-station senders differ from the skeleton only in the fields they
  format, which no property is about.
* `RtcfgStage2` stops at a lost frame. A single lost STAGE_2_CFG, last
  fragment of a burst or ACK_CFG leaves both stations waiting; TLC shows
  this when faults are allowed in `TransferCompletes`. Nothing in
  `rtcfg_frame.c` resends. A resend would come from `rtcfg_timer.c`, which
  is not in this repository, and the spec names none, so completion is
  claimed for transfers without failures only.
* The task is deleted only between frames, as on a uniprocessor (see the
  hazard at `rtcfg_frame.c:565`).
* `Rtskb`'s plain free credits the pool balance with the chain's length
  where `kfree_rtskb` adds `skb->chain_len` (`rtskb.c:252`). `chain_len` is
  set by the code that links chains, which is not in this repository, so a
  wrong `chain_len` is not explored. `FreeChain` likewise frees only an
  unbroken chain (one whose walk from the head reaches `chain_end`), which
  that code is taken to build.
* Not modelled yet:
  * the header checks of `rtmac_proto_rx`, which only free the frame;
    the frame in flight is modelled in `RtnetModules`

  `PROJECT.json` lists them as components and hazards.
* `RtcfgIoctl` abstracts the copy-back callbacks (`copy_stage_1_data`,
  `copy_stage_2_data`) to their effect on ownership. They change only the
  result.
  * RTPC is taken to complete the calls in any order. This covers whatever
    order the dispatcher uses.
  * The add command is dispatched without a timeout, so each of its
    dispatches is one step.
* `RtnetIoctl` reaches two states that no property states:
  * a failed detach leaves the discipline attached without its VNIC
    (spec §4.2 asks for a symmetric undo);
  * the TDMA module is unloaded, or fails to load, while a TDMA attach
    ioctl that was already inside the handler has attached it to the
    device.

  `PROJECT.json` lists both as hazards.
* `Tulip` leaves out:
  * the error counters and messages of `tulip_rx` and of the abnormal
    branch;
  * the TxDied restart and the `csr5 == 0xffffffff` exit of a removed
    card;
  * the LC82C168 and interrupt-mitigation variants, which use code in
    `tulip_core.c` and a different timer;
  * setup frames (queued by `tulip_core.c` with a NULL skb), so the
    clean-up's skip of NULL entries is never taken.

  `Xmit` and `Init` follow `tulip_start_xmit` and `tulip_init_ring`, which
  are not in this repository.
* The proc readers of `rtnet_module.c` and `tdma_module.c` are text
  formatting, and they are left out.
* `RtnetModules` treats the subsystem init functions that are not in
  `src/` (stack manager, device manager, RTPC, RTmac proc and VNIC) as
  steps that register one resource or fail cleanly.
* `rtnet_init` ignores the result of `rtnet_chrdev_init`. The model reaches
  a live module without the misc device, and `rtnet_release` then
  deregisters it anyway. What `misc_deregister` does with a device that was
  never registered depends on the kernel, so no property is stated about it.

## Plan

1. (done) `RtcfgIoctl`.
2. (done) `RtnetIoctl`.
3. (done) `RtnetModules`: module load and unload, and the unload race.
4. (done) `Tulip`: rings and interrupt handler, and the lost TxIntr.
5. (done) `RtcfgStage2`: the `rtcfg_send_stage_2`/`_frag` offsets against
   the client's reassembly, with lost frames, refining `Stage2Transfer`.
6. An abstract pool-counter specification that `Rtskb` refines.
