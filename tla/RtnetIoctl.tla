----------------------------- MODULE RtnetIoctl -----------------------------
(***************************************************************************)
(* The RTnet control path for one device: the ioctl dispatcher and its     *)
(* handler registry (src/rtnet/stack/rtnet_chrdev.c), IOC_RT_IFUP and       *)
(* IOC_RT_IFDOWN, IOC_RT_IFINFO, attaching and detaching the TDMA discipline               *)
(* (src/rtnet/stack/rtmac/rtmac_disc.c, src/stack/rtmac/tdma/tdma_module.c) *)
(* and loading and unloading the TDMA module, whose ioctl type is           *)
(* registered by rtmac_disc_register.                                       *)
(*                                                                         *)
(* Callers are concurrent ioctl threads.  Every handler body runs under    *)
(* the device's nrt_lock, which every other writer of the device's MAC     *)
(* state also holds, so a body is one step.  tdma_ioctl (not in this       *)
(* repository) is taken from the specification (section 4.2, Attach): its *)
(* attach and detach commands call rtmac_disc_attach and rtmac_disc_detach  *)
(* under nrt_lock.  The results of rtdev_open, tdma_dev_init,              *)
(* rtdm_task_init, tdma_dev_release and rtmac_vnic_add, which are not in   *)
(* this repository, are nondeterministic.                                  *)
(***************************************************************************)
EXTENDS Integers, FiniteSets

CONSTANTS
  Callers,   \* ioctl threads
  NoOwner,   \* nrt_lock is free
  MaxCalls   \* ioctls per caller

ASSUME NoOwner \notin Callers /\ MaxCalls \in Nat

\* Ioctl types: RTNET_IOC_TYPE_CORE, registered by the core module for the
\* whole run, and RTNET_IOC_TYPE_RTMAC_TDMA.
Types == {"core", "tdma"}

Cmds == {"ifup", "ifdown", "ifinfo", "attach", "detach"}

TypeOf(cmd) == IF cmd \in {"ifup", "ifdown", "ifinfo"} THEN "core" ELSE "tdma"

\* The TDMA private block (struct tdma_priv) while it is allocated: its
\* three rtdm events, the worker task, whether tdma_dev_init succeeded and
\* TDMA_FLAG_SHUTDOWN.
Privs == [events : {"live", "destroyed"}, worker : BOOLEAN,
          tdev : BOOLEAN, shutdown : BOOLEAN]

NoPriv == [events |-> "destroyed", worker |-> FALSE, tdev |-> FALSE,
           shutdown |-> FALSE]

VARIABLES
  pc,          \* pc[c]: where caller c is in rtnet_ioctl
  cmd,         \* cmd[c]: the ioctl caller c issued
  hasDev,      \* hasDev[c]: caller c holds the reference rtdev_get_by_name
               \* took, in rtnet_ioctl or, for IOC_RT_IFINFO, in its handler
  calls,       \* calls[c]: ioctls caller c issued
  registered,  \* ioctl types on ioctl_handlers
  refCount,    \* refCount[t]: ioctls->ref_count
  nrt,         \* holder of rtdev->nrt_lock, or NoOwner
  up,          \* PRIV_FLAG_UP
  open,        \* the device is open (rtdev_open / rtdev_close)
  refs,        \* device references besides the registration's
  macDisc,     \* rtdev->mac_disc = &tdma_disc
  macPriv,     \* rtdev->mac_priv: a tdma_priv, or NoPriv while NULL
  xmitTdma,    \* rtdev->start_xmit = tdma_rt_packet_tx
  macDetach,   \* rtdev->mac_detach = rtmac_disc_detach
  vnic,        \* the VNIC exists
  ownerUse,    \* RTNET_MOD_INC_USE_COUNT_EX(rtdev->rt_owner) count
  tdmaUse,     \* the TDMA module's use count
  mod,         \* the TDMA module: "unloaded", "loading", "loaded" or
               \* "releasing"
  modPc,       \* where tdma_init or tdma_release is
  listed       \* tdma_disc is on disc_list

callerVars == <<pc, cmd, hasDev, calls>>
devVars == <<nrt, up, open, refs>>
macVars == <<macDisc, macPriv, xmitTdma, macDetach, vnic, ownerUse, tdmaUse>>
modVars == <<registered, refCount, mod, modPc, listed>>
vars == <<callerVars, devVars, macVars, modVars>>

Init ==
  /\ pc = [c \in Callers |-> "idle"]
  /\ cmd = [c \in Callers |-> "ifup"]
  /\ hasDev = [c \in Callers |-> FALSE]
  /\ calls = [c \in Callers |-> 0]
  /\ registered = {"core"}
  /\ refCount = [t \in Types |-> 0]
  /\ nrt = NoOwner
  /\ up = FALSE /\ open = FALSE /\ refs = 0
  /\ macDisc = FALSE /\ macPriv = NoPriv /\ xmitTdma = FALSE
  /\ macDetach = FALSE /\ vnic = FALSE /\ ownerUse = 0 /\ tdmaUse = 0
  /\ mod = "unloaded" /\ modPc = "none" /\ listed = FALSE

(***************************************************************************)
(* rtnet_ioctl (lines 51-99)                                               *)
(***************************************************************************)

\* Lines 61-76: under the read lock, find the handler of the request's type
\* and take a ref_count; no handler: -ENOTTY.
IoctlLookup(c) ==
  /\ pc[c] = "idle" /\ calls[c] < MaxCalls
  /\ \E x \in Cmds :
       /\ cmd' = [cmd EXCEPT ![c] = x]
       /\ IF TypeOf(x) \in registered
          THEN /\ refCount' = [refCount EXCEPT ![TypeOf(x)] = @ + 1]
               /\ pc' = [pc EXCEPT ![c] = "dev"]
          ELSE UNCHANGED <<refCount, pc>>
  /\ calls' = [calls EXCEPT ![c] = @ + 1]
  /\ UNCHANGED <<hasDev, devVars, macVars, registered, mod, modPc, listed>>

\* Mutant: the -ENODEV return without atomic_dec (line 81).
IoctlGetDevNoDec(c) ==
  /\ pc[c] = "dev" /\ cmd[c] # "ifinfo"
  /\ \/ /\ refs' = refs + 1
        /\ hasDev' = [hasDev EXCEPT ![c] = TRUE]
        /\ pc' = [pc EXCEPT ![c] = "lock"]
     \/ /\ pc' = [pc EXCEPT ![c] = "idle"]
        /\ UNCHANGED <<refs, hasDev>>
  /\ UNCHANGED <<cmd, calls, nrt, up, open, macVars, modVars>>

\* Lines 78-84: rtdev_get_by_name takes a device reference, or fails and
\* the ref_count is dropped (-ENODEV).
IoctlGetDev(c) ==
  /\ pc[c] = "dev" /\ cmd[c] # "ifinfo"
  /\ \/ /\ refs' = refs + 1
        /\ hasDev' = [hasDev EXCEPT ![c] = TRUE]
        /\ pc' = [pc EXCEPT ![c] = "lock"]
        /\ UNCHANGED refCount
     \/ /\ refCount' = [refCount EXCEPT ![TypeOf(cmd[c])] = @ - 1]
        /\ pc' = [pc EXCEPT ![c] = "idle"]
        /\ UNCHANGED <<refs, hasDev>>
  /\ UNCHANGED <<cmd, calls, nrt, up, open, macVars, registered, mod, modPc,
                 listed>>

\* Mutant: the return path without rtdev_dereference (lines 88-89).
IoctlFinishNoDeref(c) ==
  /\ pc[c] = "ret"
  /\ hasDev' = [hasDev EXCEPT ![c] = FALSE]
  /\ refCount' = [refCount EXCEPT ![TypeOf(cmd[c])] = @ - 1]
  /\ pc' = [pc EXCEPT ![c] = "idle"]
  /\ UNCHANGED <<cmd, calls, devVars, macVars, registered, mod, modPc, listed>>

\* Lines 88-92: drop the device reference and the ref_count.
IoctlFinish(c) ==
  /\ pc[c] = "ret"
  /\ refs' = IF hasDev[c] THEN refs - 1 ELSE refs
  /\ hasDev' = [hasDev EXCEPT ![c] = FALSE]
  /\ refCount' = [refCount EXCEPT ![TypeOf(cmd[c])] = @ - 1]
  /\ pc' = [pc EXCEPT ![c] = "idle"]
  /\ UNCHANGED <<cmd, calls, nrt, up, open, macVars, registered, mod, modPc,
                 listed>>

\* IOC_RT_IFINFO carries RTNET_IOC_NODEV_PARAM, so rtnet_ioctl takes no
\* device (line 78) and its handler looks the device up by index or name
\* itself (rtnet_core_ioctl, lines 192-198): a reference, or -ENODEV.
IfInfoGetDev(c) ==
  /\ pc[c] = "dev" /\ cmd[c] = "ifinfo"
  /\ \/ /\ refs' = refs + 1
        /\ hasDev' = [hasDev EXCEPT ![c] = TRUE]
        /\ pc' = [pc EXCEPT ![c] = "lock"]
     \/ /\ pc' = [pc EXCEPT ![c] = "ret"]
        /\ UNCHANGED <<refs, hasDev>>
  /\ UNCHANGED <<cmd, calls, nrt, up, open, macVars, modVars>>

\* Mutant: IOC_RT_IFINFO returns -ERESTARTSYS without rtdev_dereference.
HandlerLockNoDeref(c) ==
  /\ pc[c] = "lock"
  /\ \/ /\ nrt = NoOwner
        /\ nrt' = c
        /\ pc' = [pc EXCEPT ![c] = "run"]
        /\ UNCHANGED <<hasDev, refs>>
     \/ /\ pc' = [pc EXCEPT ![c] = "ret"]
        /\ hasDev' = [hasDev EXCEPT ![c] = (@ /\ cmd[c] # "ifinfo")]
        /\ UNCHANGED <<nrt, refs>>
  /\ UNCHANGED <<cmd, calls, up, open, macVars, modVars>>

\* The IOC_RT_IFINFO handler's rtdev_dereference (lines 201 and 216).
DropInfoRef(c) ==
  /\ refs' = refs - 1
  /\ hasDev' = [hasDev EXCEPT ![c] = FALSE]

\* The handler takes nrt_lock (down_interruptible, lines 119, 155 and
\* 200 and in tdma_ioctl), or a signal ends the wait with -ERESTARTSYS;
\* the IOC_RT_IFINFO handler then drops its own reference (line 201).
HandlerLock(c) ==
  /\ pc[c] = "lock"
  /\ \/ /\ nrt = NoOwner
        /\ nrt' = c
        /\ pc' = [pc EXCEPT ![c] = "run"]
        /\ UNCHANGED <<hasDev, refs>>
     \/ /\ pc' = [pc EXCEPT ![c] = "ret"]
        /\ IF cmd[c] = "ifinfo" THEN DropInfoRef(c)
                                ELSE UNCHANGED <<hasDev, refs>>
        /\ UNCHANGED nrt
  /\ UNCHANGED <<cmd, calls, up, open, macVars, modVars>>

(***************************************************************************)
(* rtnet_register_ioctls (lines 231-255), rtnet_unregister_ioctls (lines  *)
(* 259-275), and the TDMA module: tdma_init (lines 342-360) with           *)
(* rtmac_disc_register (lines 186-223), tdma_release (lines 364-374) with  *)
(* rtmac_disc_deregister (lines 227-242).                                  *)
(***************************************************************************)

\* The module is loaded; tdma_init calls rtmac_disc_register, which finds
\* no discipline of its name and registers the TDMA ioctls.
TdmaInit ==
  /\ mod = "unloaded"
  /\ "tdma" \notin registered
  /\ registered' = registered \cup {"tdma"}
  /\ refCount' = [refCount EXCEPT !["tdma"] = 0]
  /\ mod' = "loading" /\ modPc' = "proc"
  /\ UNCHANGED <<callerVars, devVars, macVars, listed>>

\* rtmac_disc_proc_register fails and the ioctls are unregistered again,
\* or it succeeds and tdma_disc is added to disc_list.
TdmaInitProc ==
  /\ mod = "loading" /\ modPc = "proc"
  /\ \/ modPc' = "unreg" /\ UNCHANGED <<mod, listed>>
     \/ mod' = "loaded" /\ modPc' = "none" /\ listed' = TRUE
  /\ UNCHANGED <<callerVars, devVars, macVars, registered, refCount>>

\* rmmod starts tdma_release once the module's use count is zero;
\* rtmac_disc_deregister takes tdma_disc off disc_list.
TdmaRelease ==
  /\ mod = "loaded" /\ tdmaUse = 0
  /\ listed' = FALSE
  /\ mod' = "releasing" /\ modPc' = "unreg"
  /\ UNCHANGED <<callerVars, devVars, macVars, registered, refCount>>

\* Mutant: rtnet_unregister_ioctls without the wait for ref_count.
RtnetUnregisterIoctlsNoWait ==
  /\ modPc = "unreg"
  /\ registered' = registered \ {"tdma"}
  /\ mod' = "unloaded" /\ modPc' = "none"
  /\ UNCHANGED <<callerVars, devVars, macVars, refCount, listed>>

\* rtnet_unregister_ioctls: under the write lock, wait (dropping the lock
\* for a second) until ref_count is zero, then unlink the handler.
RtnetUnregisterIoctls ==
  /\ modPc = "unreg"
  /\ refCount["tdma"] = 0
  /\ registered' = registered \ {"tdma"}
  /\ mod' = "unloaded" /\ modPc' = "none"
  /\ UNCHANGED <<callerVars, devVars, macVars, refCount, listed>>

(***************************************************************************)
(* Attaching and detaching the TDMA discipline                             *)
(***************************************************************************)

\* tdma_attach (lines 218-258): initialise the private block and its
\* events, then tdma_dev_init and rtdm_task_init; a failure of either
\* undoes the steps before it (err_out2, err_out1) and returns an error.
TdmaAttach(ok) ==
  IF ok
  THEN /\ macPriv' = [events |-> "live", worker |-> TRUE, tdev |-> TRUE,
                      shutdown |-> FALSE]
       /\ tdmaUse' = tdmaUse + 1
  ELSE UNCHANGED <<macPriv, tdmaUse>>

\* rtmac_disc_attach (lines 56-105): -EBUSY if a discipline is attached;
\* kmalloc of the private block, disc->attach (freeing the block when it
\* fails); then the device's pointers, the owner's use count, a device
\* reference, and the VNIC, whose failure only warns.
RtmacDiscAttach ==
  \/ /\ macDisc
     /\ UNCHANGED <<macVars, refs>>
  \/ /\ ~macDisc
     /\ TdmaAttach(FALSE)
     /\ UNCHANGED <<macDisc, xmitTdma, macDetach, vnic, ownerUse, refs>>
  \/ /\ ~macDisc
     /\ TdmaAttach(TRUE)
     /\ macDisc' = TRUE /\ xmitTdma' = TRUE /\ macDetach' = TRUE
     /\ ownerUse' = ownerUse + 1
     /\ refs' = refs + 1
     /\ vnic' \in BOOLEAN

\* Mutant: tdma_detach drops its use count before tdma_dev_release.
TdmaDetachDecEarly(ok) ==
  /\ tdmaUse' = tdmaUse - 1
  /\ ok \/ macPriv' = [macPriv EXCEPT !.shutdown = TRUE, !.events = "destroyed"]

\* tdma_detach (lines 262-301): set TDMA_FLAG_SHUTDOWN, destroy the three
\* events, then tdma_dev_release; when it fails, return.  Otherwise join
\* the worker, clean up the jobs, slot table and calibration pool, and drop
\* the module's use count.  (On success the block is freed by the caller.)
TdmaDetach(ok) ==
  /\ tdmaUse' = IF ok THEN tdmaUse - 1 ELSE tdmaUse
  /\ ok \/ macPriv' = [macPriv EXCEPT !.shutdown = TRUE, !.events = "destroyed"]

\* Mutant: rtmac_disc_detach clears the device's pointers before calling
\* disc->detach.
RtmacDiscDetachClearFirst(ok) ==
  /\ macDisc
  /\ vnic' = FALSE
  /\ TdmaDetach(ok)
  /\ ok => macPriv' = NoPriv
  /\ macDisc' = FALSE /\ xmitTdma' = FALSE /\ macDetach' = FALSE
  /\ ownerUse' = ownerUse - 1
  /\ refs' = refs - 1

\* rtmac_disc_detach (lines 121-161), entered through rtdev->mac_detach
\* with a discipline attached: remove the VNIC, then disc->detach; when it
\* fails, return.  Otherwise restore start_xmit, clear the pointers, drop
\* the owner's use count and the device reference, free the block.
RtmacDiscDetach(ok) ==
  /\ macDisc
  /\ vnic' = FALSE
  /\ TdmaDetach(ok)
  /\ IF ok
     THEN /\ macPriv' = NoPriv
          /\ macDisc' = FALSE /\ xmitTdma' = FALSE /\ macDetach' = FALSE
          /\ ownerUse' = ownerUse - 1
          /\ refs' = refs - 1
     ELSE UNCHANGED <<macDisc, xmitTdma, macDetach, ownerUse, refs>>

\* The same with no discipline attached: -ENODEV.
RtmacDiscDetachNone ==
  /\ ~macDisc
  /\ UNCHANGED <<macVars, refs>>

(***************************************************************************)
(* The handler bodies, under nrt_lock                                      *)
(***************************************************************************)

\* Mutant: IOC_RT_IFUP keeps PRIV_FLAG_UP when rtdev_open fails.
IfUpNoClear ==
  \/ UNCHANGED <<up, open>>
  \/ up' = TRUE /\ open' = TRUE
  \/ ~open /\ up' = TRUE /\ UNCHANGED open

\* IOC_RT_IFUP (rtnet_core_ioctl, lines 118-152): a wrong dev_addr_type
\* (-EINVAL); or set PRIV_FLAG_UP and rtdev_open, which succeeds (or finds
\* the device open) and runs the ifup hooks, or fails on a closed device
\* and clears the flag again.
IfUp ==
  \/ UNCHANGED <<up, open>>
  \/ up' = TRUE /\ open' = TRUE
  \/ ~open /\ up' = FALSE /\ UNCHANGED open

\* IOC_RT_IFDOWN (lines 154-190): -EBUSY while a route is being added;
\* otherwise clear PRIV_FLAG_UP, call rtdev->mac_detach if set, and when
\* that succeeds run the ifdown hooks and rtdev_close.
IfDown ==
  \/ UNCHANGED <<up, open, macVars, refs>>
  \/ /\ up' = FALSE
     /\ IF macDetach
        THEN \E ok \in BOOLEAN :
               /\ RtmacDiscDetach(ok)
               /\ open' = (open /\ ~ok)
        ELSE /\ open' = FALSE
             /\ UNCHANGED <<macVars, refs>>

\* IOC_RT_IFINFO (lines 192-220): copy the device's fields under nrt_lock,
\* release it and drop the handler's reference; a failing copy_to_user
\* (-EFAULT) changes nothing.
IfInfo(c) ==
  /\ DropInfoRef(c)
  /\ UNCHANGED <<up, open, macVars>>

\* tdma_ioctl's attach and detach commands.
TdmaIoctl(x) ==
  /\ x = "attach" => RtmacDiscAttach
  /\ x = "detach" => \/ \E ok \in BOOLEAN : RtmacDiscDetach(ok)
                     \/ RtmacDiscDetachNone
  /\ UNCHANGED <<up, open>>

\* The body of the handler of caller c's ioctl, and the release of
\* nrt_lock at its end.
HandlerRun(c) ==
  /\ pc[c] = "run"
  /\ CASE cmd[c] = "ifup" -> IfUp /\ UNCHANGED <<macVars, refs, hasDev>>
       [] cmd[c] = "ifdown" -> IfDown /\ UNCHANGED hasDev
       [] cmd[c] = "ifinfo" -> IfInfo(c)
       [] OTHER -> TdmaIoctl(cmd[c]) /\ UNCHANGED hasDev
  /\ nrt' = NoOwner
  /\ pc' = [pc EXCEPT ![c] = "ret"]
  /\ UNCHANGED <<cmd, calls, modVars>>

\* A step of caller c after the lookup.
CallerStep(c) ==
  \/ IoctlGetDev(c) \/ IfInfoGetDev(c) \/ HandlerLock(c) \/ HandlerRun(c)
  \/ IoctlFinish(c)

Next ==
  \/ \E c \in Callers : IoctlLookup(c) \/ CallerStep(c)
  \/ TdmaInit \/ TdmaInitProc \/ TdmaRelease \/ RtnetUnregisterIoctls

\* Kernel code paths that have started run on: every caller step after
\* the lookup, the rest of tdma_init, and the unregister loop, which
\* retries every second.  New ioctls, loading and rmmod are not forced.
\* A caller's steps after the lookup are enabled at distinct values of
\* pc[c], which only they change, so weak fairness of CallerStep(c) is
\* weak fairness of each of them.
Fairness ==
  /\ \A c \in Callers : WF_vars(CallerStep(c))
  /\ WF_vars(TdmaInitProc)
  /\ WF_vars(RtnetUnregisterIoctls)

Spec == Init /\ [][Next]_vars /\ Fairness

(***************************************************************************)
(* Properties                                                              *)
(***************************************************************************)

\* Callers between taking ref_count (line 74) and dropping it (line 81 or
\* line 90).
InHandler(c) == pc[c] \in {"dev", "lock", "run", "ret"}

\* Type invariant.
TypeOK ==
  /\ pc \in [Callers -> {"idle", "dev", "lock", "run", "ret"}]
  /\ cmd \in [Callers -> Cmds]
  /\ hasDev \in [Callers -> BOOLEAN]
  /\ calls \in [Callers -> 0 .. MaxCalls]
  /\ registered \subseteq Types /\ "core" \in registered
  /\ refCount \in [Types -> Nat]
  /\ nrt \in Callers \cup {NoOwner}
  /\ up \in BOOLEAN /\ open \in BOOLEAN /\ refs \in Nat
  /\ macDisc \in BOOLEAN /\ macPriv \in Privs
  /\ xmitTdma \in BOOLEAN /\ macDetach \in BOOLEAN /\ vnic \in BOOLEAN
  /\ ownerUse \in 0 .. 1 /\ tdmaUse \in 0 .. 1
  /\ mod \in {"unloaded", "loading", "loaded", "releasing"}
  /\ modPc \in {"none", "proc", "unreg"} /\ listed \in BOOLEAN

\* ref_count counts exactly the rtnet_ioctl calls inside a handler of its
\* type, and no call is inside a handler that rtnet_unregister_ioctls has
\* unlinked: the unregister loop waits for every call that found the
\* handler under the read lock.
IoctlRefsCounted ==
  \A t \in Types :
    /\ refCount[t] = Cardinality({c \in Callers :
                                    InHandler(c) /\ TypeOf(cmd[c]) = t})
    /\ (\E c \in Callers : InHandler(c) /\ TypeOf(cmd[c]) = t)
         => t \in registered

\* The device's reference count is the references rtnet_ioctl and the
\* IOC_RT_IFINFO handler took with rtdev_get_by_name and have not yet
\* dropped on any of their return paths, plus the one an attached
\* discipline holds (rtmac_disc_attach line 96, rtmac_disc_detach line 156).
DevRefsHeld ==
  refs = Cardinality({c \in Callers : hasDev[c]}) + (IF macDisc THEN 1 ELSE 0)

\* The device's MAC state is all or nothing after every attach, detach and
\* failure path of rtmac_disc_attach/tdma_attach and
\* rtmac_disc_detach/tdma_detach: mac_disc, mac_priv, start_xmit,
\* mac_detach, the owner's and TDMA's use counts and the worker agree, and
\* a VNIC exists only with a discipline attached.
AttachConsistent ==
  /\ xmitTdma = macDisc /\ macDetach = macDisc
  /\ macDisc = (macPriv # NoPriv)
  /\ ownerUse = (IF macDisc THEN 1 ELSE 0)
  /\ tdmaUse = ownerUse
  /\ vnic => macDisc
  /\ macDisc => macPriv.worker /\ macPriv.tdev

\* PRIV_FLAG_UP is set only on an open device: IOC_RT_IFUP clears it again
\* when rtdev_open fails, and IOC_RT_IFDOWN clears it before closing.
UpMeansOpen == up => open

\* rtnet_unregister_ioctls returns: once tdma_release or a failing
\* tdma_init waits for the TDMA handler's ref_count, the handler is
\* eventually unlinked.
UnregisterCompletes == modPc = "unreg" ~> modPc = "none"

====
