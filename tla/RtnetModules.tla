---------------------------- MODULE RtnetModules ----------------------------
(***************************************************************************)
(* Loading and unloading the RTnet core module (src/rtnet/stack/          *)
(* rtnet_module.c, with rtskb_pools_init/rtskb_pools_release of           *)
(* src/stack/rtskb.c and rtnet_chrdev_init/rtnet_chrdev_release of        *)
(* src/rtnet/stack/rtnet_chrdev.c) and the RTmac module                   *)
(* (src/rtnet/rtmac/rtmac_module.c, with rtmac_proto_release of           *)
(* src/rtnet/stack/rtmac/rtmac_proto.c), against the threads that use     *)
(* them: ioctl callers on /dev/rtnet and the stack manager task, which    *)
(* hands RTmac frames to rtmac_proto_rx.                                  *)
(*                                                                         *)
(* What a module holds is the set of registrations its init made that the *)
(* kernel or another component can see: the rtskb slab cache and global   *)
(* pool, the /proc/rtnet entries, the stack and device managers, the misc *)
(* character device, RTPC, the RTmac packet type, RTmac's proc entries    *)
(* and its VNIC support.  The init functions of the managers, of RTPC, of *)
(* RTmac's proc entries and of its VNIC support are not in this           *)
(* repository; they succeed, or fail having registered nothing.           *)
(*                                                                         *)
(* The kernel's module loader is the environment: it runs a module's init *)
(* and frees the module when init fails; it runs the exit function of a   *)
(* module no other module depends on (RTmac depends on the core).  The    *)
(* misc device's file_operations (rtnet_fops) name no owner module, so an *)
(* open /dev/rtnet does not keep the core module loaded.                  *)
(***************************************************************************)
EXTENDS Integers, FiniteSets

CONSTANTS
  Callers,   \* threads issuing ioctls on /dev/rtnet
  MaxCalls   \* ioctls per caller

ASSUME MaxCalls \in Nat

\* The registrations of rtskb_pools_init: the slab cache and the global pool.
Pools == {"slab", "globalPool"}

\* The entries rtnet_proc_register creates, in the order it creates them.
ProcOrder == <<"procRoot", "procDevices", "procRtskb", "procVersion">>

ProcAll == {ProcOrder[i] : i \in 1 .. 4}

CoreRes == Pools \cup ProcAll \cup {"stackMgr", "rtdevMgr", "misc", "rtpc"}

RtmacRes == {"proto", "rtmacProc", "vnic"}

VARIABLES
  rtnet,       \* the core module: "unloaded", "coming" (rtnet_init between
               \* rtnet_chrdev_init and rtpc_init) or "live"
  held,        \* the core module's registrations
  handlers,    \* ioctl types on ioctl_handlers
  refCount,    \* core_ioctls.ref_count
  rtmac,       \* the RTmac module: "unloaded", "coming" (after
               \* rtmac_proto_init), "live", "unwinding" (rtmac_init's
               \* error1 path) or "exiting" (rtmac_release)
  rtmacHeld,   \* the RTmac module's registrations
  rx,          \* the stack manager task is inside rtmac_proto_rx
  pc,          \* pc[c]: where caller c is in rtnet_ioctl
  calls,       \* calls[c]: ioctls caller c issued
  stale        \* stale[c]: the core module caller c is executing was freed

coreVars == <<rtnet, held, handlers, refCount>>
rtmacVars == <<rtmac, rtmacHeld, rx>>
callerVars == <<pc, calls, stale>>
vars == <<coreVars, rtmacVars, callerVars>>

(***************************************************************************)
(* The registrations each init function leaves and each error label       *)
(* removes.                                                                *)
(***************************************************************************)

\* rtskb_pools_init (rtskb.c lines 457-490): kmem_cache_create fails and
\* nothing is left; the global pool comes up short and err_out releases the
\* pool and destroys the cache; or both are created.
RtskbPoolsInit ==
  {[ok |-> FALSE, left |-> {}],
   [ok |-> FALSE, left |-> Pools \ {"globalPool", "slab"}],
   [ok |-> TRUE, left |-> Pools]}

\* rtskb_pools_release (rtskb.c lines 493-496).
RtskbPoolsRelease == {"globalPool", "slab"}

\* The removes at the error labels of rtnet_proc_register (lines 164-175):
\* label k is jumped to when the k-th create_proc_entry fails, and falls
\* through to the labels below it.
ProcErrorLabel == <<{}, {"procRoot"}, {"procDevices"}, {"procRtskb"}>>

\* rtnet_proc_register (lines 136-176): the k-th create_proc_entry fails
\* after the first k - 1 succeeded, or all four succeed.
RtnetProcRegister ==
  {[ok |-> FALSE,
    left |-> {ProcOrder[i] : i \in 1 .. k - 1}
               \ UNION {ProcErrorLabel[j] : j \in 1 .. k}] : k \in 1 .. 4}
  \cup {[ok |-> TRUE, left |-> ProcAll]}

\* rtnet_proc_unregister (lines 180-186).
RtnetProcUnregister == {"procDevices", "procRtskb", "procVersion", "procRoot"}

\* rtnet_chrdev_release (rtnet_chrdev.c lines 320-323): misc_deregister
\* only; core_ioctls stays on ioctl_handlers.
RtnetChrdevRelease == {"misc"}

\* Mutant: err_out3 without rtnet_proc_unregister.
ErrOutLabelNoProc == <<{}, RtskbPoolsRelease, {}, {"stackMgr"},
                       RtnetChrdevRelease \cup {"rtdevMgr"}>>

\* What the labels err_out1 .. err_out5 of rtnet_init (lines 227-243)
\* release; a jump to err_outk falls through to the labels below it.
ErrOutLabel == <<{}, RtskbPoolsRelease, RtnetProcUnregister, {"stackMgr"},
                 RtnetChrdevRelease \cup {"rtdevMgr"}>>

ErrOut(k) == UNION {ErrOutLabel[j] : j \in 1 .. k}

(***************************************************************************)
(* The core module                                                         *)
(***************************************************************************)

\* The loader frees the core module; a caller still inside rtnet_ioctl is
\* left executing freed code.
FreeCore ==
  /\ rtnet' = "unloaded"
  /\ stale' = [c \in Callers |-> stale[c] \/ pc[c] # "idle"]

\* rtnet_init fails at its k-th step with the registrations acq made, jumps
\* to err_outk and returns the error; the loader frees the module.
InitFails(acq, k) ==
  /\ held' = acq \ ErrOut(k)
  /\ FreeCore
  /\ UNCHANGED handlers

\* rtnet_chrdev_init (rtnet_chrdev.c lines 301-312): misc_register may
\* fail, which is reported but not undone; rtnet_register_ioctls adds
\* core_ioctls to the (fresh) handler list either way.
RtnetChrdevInit(acq) ==
  /\ \E miscOk \in BOOLEAN :
       held' = acq \cup (IF miscOk THEN {"misc"} ELSE {})
  /\ handlers' = {"core"}

\* insmod: rtnet_init (lines 194-219) up to rtnet_chrdev_init, whose result
\* it ignores (line 219).  The module's static data starts fresh: an empty
\* ioctl_handlers list.  Nothing outside the module can reach it before
\* misc_register, so this is one step.
RtnetInit ==
  /\ rtnet = "unloaded"
  /\ \/ \E r \in RtskbPoolsInit : ~r.ok /\ InitFails(r.left, 1)
     \/ \E r \in RtnetProcRegister : ~r.ok /\ InitFails(Pools \cup r.left, 2)
     \/ InitFails(Pools \cup ProcAll, 3)
     \/ InitFails(Pools \cup ProcAll \cup {"stackMgr"}, 4)
     \/ /\ RtnetChrdevInit(Pools \cup ProcAll \cup {"stackMgr", "rtdevMgr"})
        /\ rtnet' = "coming" /\ UNCHANGED stale
  /\ refCount' = 0
  /\ UNCHANGED <<rtmacVars, pc, calls>>

\* The rest of rtnet_init (lines 221-243): rtpc_init succeeds and the
\* module is live, or it fails and err_out5 unwinds everything.
RtnetInitRtpc ==
  /\ rtnet = "coming"
  /\ \/ held' = held \cup {"rtpc"} /\ rtnet' = "live" /\ UNCHANGED stale
     \/ InitFails(held, 5)
  /\ UNCHANGED <<handlers, refCount, rtmacVars, pc, calls>>

\* rmmod: rtnet_release (lines 250-265), once RTmac, which depends on the
\* core, is unloaded.  Open files of /dev/rtnet do not hold the module.
RtnetRelease ==
  /\ rtnet = "live" /\ rtmac = "unloaded"
  /\ held' = held \ ({"rtpc"} \cup RtnetChrdevRelease
                      \cup {"stackMgr", "rtdevMgr"} \cup RtskbPoolsRelease
                      \cup RtnetProcUnregister)
  /\ FreeCore
  /\ UNCHANGED <<handlers, refCount, rtmacVars, pc, calls>>

(***************************************************************************)
(* Callers of /dev/rtnet (rtnet_ioctl, rtnet_chrdev.c lines 51-99) with a *)
(* core request.                                                           *)
(***************************************************************************)

\* open and ioctl on the misc device: the misc layer finds rtnet_fops only
\* while the device is registered.
IoctlOpen(c) ==
  /\ pc[c] = "idle" /\ calls[c] < MaxCalls /\ "misc" \in held
  /\ pc' = [pc EXCEPT ![c] = "lookup"]
  /\ calls' = [calls EXCEPT ![c] = @ + 1]
  /\ UNCHANGED <<coreVars, rtmacVars, stale>>

\* Lines 60-76: -EPERM or -EFAULT; the core handler is found and its
\* ref_count taken; or none is listed and the call returns -ENOTTY.
IoctlLookup(c) ==
  /\ pc[c] = "lookup" /\ ~stale[c]
  /\ \/ /\ "core" \in handlers
        /\ refCount' = refCount + 1
        /\ pc' = [pc EXCEPT ![c] = "handler"]
     \/ /\ pc' = [pc EXCEPT ![c] = "idle"]
        /\ UNCHANGED refCount
  /\ UNCHANGED <<rtnet, held, handlers, rtmacVars, calls, stale>>

\* Lines 78-92: rtnet_core_ioctl runs, the device reference is dropped and
\* ref_count decremented.
IoctlReturn(c) ==
  /\ pc[c] = "handler" /\ ~stale[c]
  /\ refCount' = refCount - 1
  /\ pc' = [pc EXCEPT ![c] = "idle"]
  /\ UNCHANGED <<rtnet, held, handlers, rtmacVars, calls, stale>>

\* A caller whose module was freed under it runs code and data that are
\* gone, which is undefined; it is modelled as ending its call without
\* touching the state of a module loaded since.
IoctlStale(c) ==
  /\ stale[c]
  /\ pc' = [pc EXCEPT ![c] = "idle"]
  /\ stale' = [stale EXCEPT ![c] = FALSE]
  /\ UNCHANGED <<coreVars, rtmacVars, calls>>

(***************************************************************************)
(* The RTmac module and its packet type                                    *)
(***************************************************************************)

\* insmod rtmac, once the core is live: rtmac_init (lines 32-38) registers
\* rtmac_packet_type (rtmac_proto_init).  From here the stack manager may
\* hand RTmac frames to rtmac_proto_rx.
RtmacInitProto ==
  /\ rtmac = "unloaded" /\ rtnet = "live"
  /\ rtmac' = "coming"
  /\ rtmacHeld' = {"proto"}
  /\ UNCHANGED <<rx, coreVars, callerVars>>

\* The rest of rtmac_init (lines 40-59): rtmac_proc_register fails (error1);
\* rtmac_vnic_module_init fails and error2 releases the proc entries; or
\* both succeed.  On error the error1 path is left to rtmac_proto_release.
RtmacInitRest ==
  /\ rtmac = "coming"
  /\ \/ rtmac' = "unwinding" /\ UNCHANGED rtmacHeld
     \/ rtmac' = "unwinding" /\ rtmacHeld' = (rtmacHeld \cup {"rtmacProc"})
                                               \ {"rtmacProc"}
     \/ rtmac' = "live" /\ rtmacHeld' = rtmacHeld \cup {"rtmacProc", "vnic"}
  /\ UNCHANGED <<rx, coreVars, callerVars>>

\* rmmod rtmac: rtmac_release (lines 64-73) starts with rtmac_proto_release.
RtmacRelease ==
  /\ rtmac = "live"
  /\ rtmac' = "exiting"
  /\ UNCHANGED <<rtmacHeld, rx, coreVars, callerVars>>

\* Mutant: rtmac_proto_release removes the packet type without waiting.
RtmacProtoReleaseNoWait ==
  /\ rtmac \in {"unwinding", "exiting"}
  /\ rtmac' = "unloaded"
  /\ rtmacHeld' = {}
  /\ UNCHANGED <<rx, coreVars, callerVars>>

\* rtmac_proto_release (rtmac_proto.c lines 75-82): rtdev_remove_pack
\* returns -EAGAIN while a frame is inside the handler, and the loop sleeps
\* and retries; once it succeeds, rtmac_init returns its error, or
\* rtmac_release goes on with rtmac_proc_release and
\* rtmac_vnic_module_cleanup.  Either way the module is then freed.
RtmacProtoRelease ==
  /\ rtmac \in {"unwinding", "exiting"}
  /\ ~rx
  /\ rtmac' = "unloaded"
  /\ rtmacHeld' = rtmacHeld \ ({"proto"} \cup
                     (IF rtmac = "exiting" THEN {"rtmacProc", "vnic"} ELSE {}))
  /\ UNCHANGED <<rx, coreVars, callerVars>>

\* The stack manager task finds rtmac_packet_type registered for a received
\* ETH_RTMAC frame and calls its handler holding a reference to it.
RxDispatch ==
  /\ ~rx /\ "proto" \in rtmacHeld /\ "stackMgr" \in held
  /\ rx' = TRUE
  /\ UNCHANGED <<rtmac, rtmacHeld, coreVars, callerVars>>

\* rtmac_proto_rx (rtmac_proto.c lines 36-62) hands the frame to the VNIC
\* or the discipline, or frees it, and returns; the stack manager drops its
\* reference to the packet type.
RtmacProtoRx ==
  /\ rx
  /\ rx' = FALSE
  /\ UNCHANGED <<rtmac, rtmacHeld, coreVars, callerVars>>

(***************************************************************************)
(* The specification                                                       *)
(***************************************************************************)

Init ==
  /\ rtnet = "unloaded" /\ held = {} /\ handlers = {} /\ refCount = 0
  /\ rtmac = "unloaded" /\ rtmacHeld = {} /\ rx = FALSE
  /\ pc = [c \in Callers |-> "idle"]
  /\ calls = [c \in Callers |-> 0]
  /\ stale = [c \in Callers |-> FALSE]

Next ==
  \/ RtnetInit \/ RtnetInitRtpc \/ RtnetRelease
  \/ RtmacInitProto \/ RtmacInitRest \/ RtmacRelease \/ RtmacProtoRelease
  \/ RxDispatch \/ RtmacProtoRx
  \/ \E c \in Callers : IoctlOpen(c) \/ IoctlLookup(c) \/ IoctlReturn(c)
                      \/ IoctlStale(c)

Spec == Init /\ [][Next]_vars

(***************************************************************************)
(* Properties                                                              *)
(***************************************************************************)

TypeOK ==
  /\ rtnet \in {"unloaded", "coming", "live"}
  /\ held \subseteq CoreRes /\ handlers \subseteq {"core"}
  /\ refCount \in 0 .. Cardinality(Callers)
  /\ rtmac \in {"unloaded", "coming", "live", "unwinding", "exiting"}
  /\ rtmacHeld \subseteq RtmacRes /\ rx \in BOOLEAN
  /\ pc \in [Callers -> {"idle", "lookup", "handler"}]
  /\ calls \in [Callers -> 0 .. MaxCalls]
  /\ stale \in [Callers -> BOOLEAN]

\* A module that is not loaded, because its init failed or its exit ran,
\* has left nothing registered: every failure exit of rtskb_pools_init,
\* rtnet_proc_register, rtnet_init and rtmac_init unwinds exactly what the
\* steps before it registered, and the exit functions remove everything.
UnloadedHoldsNothing ==
  /\ rtnet = "unloaded" => held = {}
  /\ rtmac = "unloaded" => rtmacHeld = {}

\* The stack manager is inside rtmac_proto_rx only while rtmac_packet_type
\* is registered, so RTmac's code and data are still there: the unload and
\* the init error path wait in rtmac_proto_release for frames in flight.
RxInLiveModule == rx => "proto" \in rtmacHeld /\ rtmac # "unloaded"

\* No thread is executing rtnet_ioctl of a core module that has been
\* freed: rtnet_release and the error exit of rtnet_init must not complete
\* while a caller is between its entry and its return.
IoctlInLiveModule == \A c \in Callers : ~stale[c]
=============================================================================
