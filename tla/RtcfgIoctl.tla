----------------------------- MODULE RtcfgIoctl -----------------------------
(***************************************************************************)
(* Ownership of the heap objects of the RTcfg ioctls                       *)
(* (src/rtnet/rtcfg/rtcfg_ioctl.c): the add command's connection record,  *)
(* stage-1 data, stage-2 file record and file buffer, and the client and   *)
(* announce commands' station buffer and the rtskbs the real-time side     *)
(* attaches to the call; and the proc write lock the add command holds.    *)
(*                                                                         *)
(* RTPC is not in this repository; its semantics come from the            *)
(* specification (section 4.6): the call carries a copy of the command;    *)
(* when the handler completes, the waiting caller runs the copy-back       *)
(* callback and then the cleanup callback, unless the copy-back callback   *)
(* disarmed it; on a timeout the caller returns at once and the cleanup    *)
(* callback runs when the handler completes later.  The RTcfg state        *)
(* machine (rtcfg_event.c, not in this repository) is a choice of result   *)
(* and of the pointers it takes over by clearing them in the call's copy.  *)
(* An add command is dispatched without a timeout, so its dispatch is one  *)
(* step of the ioctl thread.                                               *)
(***************************************************************************)
EXTENDS Integers, FiniteSets

CONSTANTS
  FileErrors,  \* copy_from_user of the file name, filp_open, vmalloc and
               \* the read may fail
  Timeouts,    \* client and announce calls carry a nonzero timeout
  MaxCalls     \* bound on the ioctls issued

ASSUME FileErrors \in BOOLEAN /\ Timeouts \in BOOLEAN /\ MaxCalls \in Nat

\* One set of heap objects per ioctl issued.
Ids == 1 .. MaxCalls

\* conn_buf, data_buf, file, file->buffer, station_buf, and the rtskb (or
\* rtskb chain) a client or announce call returns.
Objs == {"conn", "data", "file", "fbuf", "station", "skb"}

\* An object is not allocated, live, taken over by the state machine, or
\* freed.
Where == {"none", "live", "server", "freed"}

Calls == [st : {"none", "queued", "done", "abandoned"},
          kind : {"client", "announce"},
          ptrs : SUBSET {"station", "skb"}]

NoCall == [st |-> "none", kind |-> "client", ptrs |-> {}]

VARIABLES
  pc,      \* where the ioctl thread is
  cur,     \* the ioctl the thread is in
  ptr,     \* rtcfg_ioctl_add's non-NULL pointers: conn_buf, data_buf, file,
           \* file->buffer
  owner,   \* owner[i][o] \in Where
  frees,   \* frees[i][o]: kfree, vfree or kfree_rtskb calls on o of ioctl i
  wrlock,  \* rtcfg_lockwr_proc calls minus rtcfg_unlockwr_proc calls
  call,    \* call[i]: the RTPC call of client/announce ioctl i
  issued   \* ioctls issued so far

vars == <<pc, cur, ptr, owner, frees, wrlock, call, issued>>

\* Ioctl i's objects in S become w.
Own(i, S, w) ==
  owner' = [owner EXCEPT ![i] = [o \in Objs |->
                                   IF o \in S THEN w ELSE owner[i][o]]]

\* The state machine takes the objects T of ioctl i, and one kfree is
\* called on each object of S.  A freed object that the state machine had
\* taken over stays counted as taken.
Settle(i, T, S) ==
  /\ frees' = [frees EXCEPT ![i] = [o \in Objs |->
                                      frees[i][o] + (IF o \in S THEN 1 ELSE 0)]]
  /\ owner' = [owner EXCEPT ![i] = [o \in Objs |->
                  IF o \in T THEN "server"
                  ELSE IF o \in S /\ owner[i][o] = "live" THEN "freed"
                  ELSE owner[i][o]]]

\* A new ioctl.
Issue(i) ==
  /\ pc = "idle" /\ issued < MaxCalls /\ i = issued + 1
  /\ issued' = i
  /\ cur' = i

Init ==
  /\ pc = "idle"
  /\ cur = 1
  /\ ptr = {}
  /\ owner = [i \in Ids |-> [o \in Objs |-> "none"]]
  /\ frees = [i \in Ids |-> [o \in Objs |-> 0]]
  /\ wrlock = 0
  /\ call = [i \in Ids |-> NoCall]
  /\ issued = 0

(***************************************************************************)
(* rtcfg_ioctl_add (lines 180-303)                                         *)
(***************************************************************************)

\* kmalloc of the connection record (lines 189-192).
AddConn(i) ==
  /\ Issue(i)
  /\ \/ /\ Own(i, {"conn"}, "live")
        /\ ptr' = {"conn"}
        /\ pc' = "stage1"
     \/ ptr' = {} /\ UNCHANGED <<owner, pc>>
  /\ UNCHANGED <<frees, wrlock, call>>

\* The stage-1 data (lines 194-216): none; too large (-ESTAGE1SIZE) or
\* kmalloc fails; copy_from_user fails; copied.
AddStage1 ==
  /\ pc = "stage1"
  /\ \/ pc' \in {"stage2", "err"} /\ UNCHANGED <<owner, ptr>>
     \/ /\ Own(cur, {"data"}, "live")
        /\ ptr' = ptr \cup {"data"}
        /\ pc' \in {"err", "stage2"}
  /\ UNCHANGED <<cur, frees, wrlock, call, issued>>

\* The stage-2 file record (lines 218-238): no file name; kmalloc fails;
\* copying the name fails; set up with file->buffer = NULL.
AddStage2 ==
  /\ pc = "stage2"
  /\ \/ pc' = "dispatch1" /\ UNCHANGED <<owner, ptr>>
     \/ /\ FileErrors
        /\ pc' = "err" /\ UNCHANGED <<owner, ptr>>
     \/ /\ Own(cur, {"file"}, "live")
        /\ ptr' = ptr \cup {"file"}
        /\ pc' \in IF FileErrors THEN {"err", "dispatch1"} ELSE {"dispatch1"}
  /\ UNCHANGED <<cur, frees, wrlock, call, issued>>

\* Mutant: keep_cmd_add never disarms the cleanup callback.
KeepCmdAddNever(res) == FALSE

\* keep_cmd_add (lines 48-62): TRUE when it disarms the cleanup callback.
KeepCmdAdd(res) == res > 0

\* Mutant: cleanup_cmd_add without rtcfg_unlockwr_proc.
CleanupCmdAddNoUnlock(l, T, S) ==
  /\ wrlock' = l
  /\ Settle(cur, T, S)

\* cleanup_cmd_add (lines 66-91), with the proc lock taken l times, after
\* the state machine took the objects T and the call's command still
\* points to the objects S: unlock the proc structure, free S.
CleanupCmdAdd(l, T, S) ==
  /\ wrlock' = l - 1
  /\ Settle(cur, T, S)

\* rtcfg_lockwr_proc and the first rtpc_dispatch_call (lines 240-245),
\* with keep_cmd_add as copy-back callback, and the test of line 248.  The
\* state machine takes the connection record and the stage-1 data when it
\* accepts the station with a file already present or none (res = 0), and
\* asks for the file only when a file record is attached (res > 0).
AddDispatch1 ==
  /\ pc = "dispatch1"
  /\ \E res \in {-1, 0, 1} :
       LET taken == IF res = 0 THEN ptr \cap {"conn", "data"} ELSE {}
       IN /\ res > 0 => "file" \in ptr
          /\ IF KeepCmdAdd(res)
             THEN /\ wrlock' = wrlock + 1
                  /\ Settle(cur, taken, {})
             ELSE CleanupCmdAdd(wrlock + 1, taken, ptr \ taken)
          /\ pc' = IF res > 0 THEN "load" ELSE "idle"
  /\ UNCHANGED <<cur, ptr, call, issued>>

\* Loading the missing file (lines 248-285): filp_open fails; vmalloc
\* fails; the read is short; the buffer is filled.  Each failure unlocks
\* the proc structure and jumps to err.
AddLoad ==
  /\ pc = "load"
  /\ \/ /\ FileErrors
        /\ wrlock' = wrlock - 1
        /\ pc' = "err"
        /\ UNCHANGED <<owner, ptr>>
     \/ /\ Own(cur, {"fbuf"}, "live")
        /\ ptr' = ptr \cup {"fbuf"}
        /\ \/ FileErrors /\ wrlock' = wrlock - 1 /\ pc' = "err"
           \/ UNCHANGED wrlock /\ pc' = "dispatch2"
  /\ UNCHANGED <<cur, frees, call, issued>>

\* The second rtpc_dispatch_call (lines 286-291), without copy-back: the
\* state machine takes every object (res = 0) or none (res < 0), and
\* cleanup_cmd_add runs in both cases.
AddDispatch2 ==
  /\ pc = "dispatch2"
  /\ \/ CleanupCmdAdd(wrlock, ptr, {})
     \/ CleanupCmdAdd(wrlock, {}, ptr)
  /\ pc' = "idle"
  /\ UNCHANGED <<cur, ptr, call, issued>>

\* The err label (lines 293-302): kfree(conn_buf), kfree(data_buf) if set,
\* and, if there is a file record, vfree(file->buffer) if set and then
\* kfree(data_buf) (line 300) again.
AddErr ==
  /\ pc = "err"
  /\ LET d == IF "data" \in ptr THEN 1 ELSE 0
         k == [o \in Objs |->
                 CASE o = "conn" -> 1
                   [] o = "data" -> d + (IF "file" \in ptr THEN d ELSE 0)
                   [] o = "fbuf" -> (IF {"file", "fbuf"} \subseteq ptr
                                    THEN 1 ELSE 0)
                   [] OTHER -> 0]
     IN /\ frees' = [frees EXCEPT ![cur] = [o \in Objs |-> frees[cur][o] + k[o]]]
        /\ Own(cur, {o \in Objs : k[o] > 0 /\ owner[cur][o] = "live"}, "freed")
  /\ pc' = "idle"
  /\ UNCHANGED <<cur, ptr, wrlock, call, issued>>

(***************************************************************************)
(* The client and announce commands of rtcfg_ioctl (lines 307-373)        *)
(***************************************************************************)

\* RTCFG_IOC_CLIENT (lines 339-351): kmalloc the station buffer, or return
\* -ENOMEM; dispatch with copy_stage_1_data and cleanup_cmd_client.
\* RTCFG_IOC_ANNOUNCE (lines 353-360): dispatch with copy_stage_2_data and
\* cleanup_cmd_announce.  The command's rtskb pointer starts NULL.
CmdDispatch(i, k) ==
  /\ Issue(i)
  /\ \/ /\ k = "client"
        /\ UNCHANGED <<owner, call, pc>>
     \/ /\ k = "client"
        /\ Own(i, {"station"}, "live")
        /\ call' = [call EXCEPT ![i] = [st |-> "queued", kind |-> k,
                                       ptrs |-> {"station"}]]
        /\ pc' = "wait"
     \/ /\ k = "announce"
        /\ call' = [call EXCEPT ![i] = [st |-> "queued", kind |-> k,
                                       ptrs |-> {}]]
        /\ pc' = "wait"
        /\ UNCHANGED owner
  /\ ptr' = {}
  /\ UNCHANGED <<frees, wrlock>>

\* The client state machine keeps the station buffer as its station table
\* and clears the pointer in the call's command.
HandlerTake(i) ==
  /\ call[i].st \in {"queued", "abandoned"}
  /\ "station" \in call[i].ptrs
  /\ Own(i, {"station"}, "server")
  /\ call' = [call EXCEPT ![i].ptrs = @ \ {"station"}]
  /\ UNCHANGED <<pc, cur, ptr, frees, wrlock, issued>>

\* The state machine attaches the received stage-1 frame, or the chain of
\* stage-2 frames, to the call's command.
HandlerAttach(i) ==
  /\ call[i].st \in {"queued", "abandoned"}
  /\ owner[i]["skb"] = "none"
  /\ Own(i, {"skb"}, "live")
  /\ call' = [call EXCEPT ![i].ptrs = @ \cup {"skb"}]
  /\ UNCHANGED <<pc, cur, ptr, frees, wrlock, issued>>

\* Mutant: cleanup_cmd_client forgets the rtskb.
CleanupCmdClientNoSkb(i) == Settle(i, {}, call[i].ptrs \cap {"station"})

\* cleanup_cmd_client (lines 115-131): kfree the station buffer and
\* kfree_rtskb the rtskb, where set.  cleanup_cmd_announce (lines 165-176):
\* kfree_rtskb the chain, where set.
CleanupCmdClient(i) == Settle(i, {}, call[i].ptrs)

CleanupCmdAnnounce(i) == Settle(i, {}, call[i].ptrs \cap {"skb"})

CleanupCall(i) ==
  IF call[i].kind = "client" THEN CleanupCmdClient(i) ELSE CleanupCmdAnnounce(i)

\* The handler completes.  A call whose caller timed out is cleaned up now.
HandlerComplete(i) ==
  /\ call[i].st \in {"queued", "abandoned"}
  /\ IF call[i].st = "queued"
     THEN /\ call' = [call EXCEPT ![i].st = "done"]
          /\ UNCHANGED <<owner, frees>>
     ELSE /\ CleanupCall(i)
          /\ call' = [call EXCEPT ![i] = NoCall]
  /\ UNCHANGED <<pc, cur, ptr, wrlock, issued>>

\* The caller wakes on completion, runs the copy-back callback
\* (copy_stage_1_data, lines 95-111, or copy_stage_2_data, lines 135-161,
\* which change only the result) and the cleanup callback.
CallerWake ==
  /\ pc = "wait" /\ call[cur].st = "done"
  /\ CleanupCall(cur)
  /\ call' = [call EXCEPT ![cur] = NoCall]
  /\ pc' = "idle"
  /\ UNCHANGED <<cur, ptr, wrlock, issued>>

\* The timeout of a client or announce call expires first: the caller
\* returns and the call stays with the handler.
CallerTimeout ==
  /\ pc = "wait" /\ Timeouts /\ call[cur].st = "queued"
  /\ call' = [call EXCEPT ![cur].st = "abandoned"]
  /\ pc' = "idle"
  /\ UNCHANGED <<cur, ptr, owner, frees, wrlock, issued>>

\* Every ioctl was issued and has returned, and no call is left.
Quiescent ==
  /\ pc = "idle" /\ issued = MaxCalls
  /\ \A i \in Ids : call[i].st = "none"
  /\ UNCHANGED vars

Next ==
  \/ \E i \in Ids : \/ AddConn(i)
                    \/ \E k \in {"client", "announce"} : CmdDispatch(i, k)
                    \/ HandlerTake(i) \/ HandlerAttach(i) \/ HandlerComplete(i)
  \/ AddStage1 \/ AddStage2 \/ AddDispatch1 \/ AddLoad \/ AddDispatch2 \/ AddErr
  \/ CallerWake \/ CallerTimeout
  \/ Quiescent

Spec == Init /\ [][Next]_vars

(***************************************************************************)
(* Properties                                                              *)
(***************************************************************************)

\* Type invariant.  The proc lock count stays 0 or 1: the add path never
\* unlocks a lock it does not hold, nor locks twice.
TypeOK ==
  /\ pc \in {"idle", "stage1", "stage2", "dispatch1", "load", "dispatch2",
             "err", "wait"}
  /\ cur \in Ids
  /\ ptr \subseteq {"conn", "data", "file", "fbuf"}
  /\ owner \in [Ids -> [Objs -> Where]]
  /\ frees \in [Ids -> [Objs -> 0 .. 3]]
  /\ wrlock \in 0 .. 1
  /\ call \in [Ids -> Calls]
  /\ issued \in 0 .. MaxCalls

\* No object of an add ioctl is freed twice, and none the RTcfg state
\* machine took over is freed, by rtcfg_ioctl_add's err label or by
\* cleanup_cmd_add.
NoDoubleFree ==
  \A i \in Ids, o \in {"conn", "data", "file", "fbuf"} :
    /\ frees[i][o] <= 1
    /\ owner[i][o] = "server" => frees[i][o] = 0

\* The station buffer and the rtskbs of a client or announce call are
\* freed at most once, never after the state machine took them, and are
\* never lost: while live they are in the command of a call RTPC still
\* holds, whether the caller waited for it or timed out
\* (rtcfg_ioctl's dispatch with cleanup_cmd_client/cleanup_cmd_announce).
CallObjectsOwned ==
  \A i \in Ids, o \in {"station", "skb"} :
    /\ frees[i][o] <= 1
    /\ owner[i][o] = "server" => frees[i][o] = 0
    /\ owner[i][o] = "live" => o \in call[i].ptrs

\* The proc write lock is held exactly while rtcfg_ioctl_add loads a
\* missing stage-2 file: from the return of the first dispatch with a
\* positive result, whose cleanup keep_cmd_add disarmed, up to the
\* cleanup of the second dispatch or the unlock before err.
LockHeldWhileLoading ==
  wrlock = IF pc \in {"load", "dispatch2"} THEN 1 ELSE 0

====
