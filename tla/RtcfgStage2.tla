---------------------------- MODULE RtcfgStage2 ----------------------------
(***************************************************************************)
(* The stage-2 transfer of one RTcfg connection: the server sends the      *)
(* first part of the file in a STAGE_2_CFG frame (rtcfg_send_stage_2) and, *)
(* on every ACK_CFG that reports less than the whole file, a burst of up   *)
(* to burstrate STAGE_2_CFG_FRAG frames (rtcfg_send_stage_2_frag); the     *)
(* client appends each fragment and acknowledges with rtcfg_send_ack.      *)
(*                                                                         *)
(* The send functions are translated from rtcfg_frame.c.  The event        *)
(* handlers of server and client (rtcfg_conn_event, rtcfg_client_event)    *)
(* are not in this repository and follow the state machines of spec       *)
(* section 4.5: an ACK's ack_len is the number of bytes the client holds,  *)
(* the server continues from there, and the client acknowledges after      *)
(* STAGE_2_CFG, after every burstrate fragments, and when it holds the     *)
(* whole file.  A fragment whose frag_offs is not where the client stands  *)
(* is dropped, as is any frame the client does not expect in its state.   *)
(*                                                                         *)
(* A byte of the file is named by its offset, so a frame carries the      *)
(* offsets it copied from the file buffer.  A send fails before the frame  *)
(* is built (rtdev_get_by_index, alloc_rtskb) or in rtcfg_send_frame after *)
(* it (hard_header, IFF_UP, rtdev_xmit); at most MaxFaults sends fail.     *)
(* Frames on the segment are delivered in order (spec section 4.3).        *)
(***************************************************************************)
EXTENDS Integers, Sequences

CONSTANTS
  FileSizes,   \* the sizes conn->stage2_file->size may have
  Mtus,        \* what rtdev->get_mtu(rtdev, RTCFG_SKB_PRIO) may return
  Stage2Hdr,   \* sizeof(struct rtcfg_frm_stage_2_cfg)
  FragHdr,     \* sizeof(struct rtcfg_frm_stage_2_cfg_frag)
  Burstrate,   \* conn->burstrate, sent to the client in STAGE_1_CFG
  SizeWidth,   \* the width of size_t
  MaxFaults    \* how many sends may fail in one behaviour

ASSUME /\ Burstrate >= 1 /\ MaxFaults \in Nat
       /\ \A s \in FileSizes : s < 2^SizeWidth

VARIABLES
  sendData,   \* the connection has a stage-2 file (send_data)
  fileSize,   \* conn->stage2_file->size
  conn,       \* the server's connection state
  cfgOffs,    \* conn->cfg_offs
  packets,    \* the packets left in the server's current burst
  cltState,   \* the client's state
  cltLen,     \* the client's cfg_len, from STAGE_2_CFG
  cltOffs,    \* device[ifindex].spec.clt.cfg_offs
  cltData,    \* the offsets of the bytes the client holds, in its order
  cltCount,   \* the fragments the client took since its last ACK
  toClient,   \* the frames on their way to the client
  toServer,   \* the ack_len values of ACK_CFG frames on their way
  faults      \* the sends that failed so far

vars == <<sendData, fileSize, conn, cfgOffs, packets, cltState, cltLen,
          cltOffs, cltData, cltCount, toClient, toServer, faults>>

\* size_t arithmetic.
SizeT(x) == x % 2^SizeWidth
MIN(a, b) == IF a <= b THEN a ELSE b

\* The file bytes a memcpy from stage2_file->buffer + from copies.
Bytes(from, n) == [i \in 1..n |-> from + i - 1]

\* cfg_len of the connection: the file size, or 0 without stage-2 data.
TotalSize == IF sendData THEN fileSize ELSE 0

Frame == [id : {"stage_2"}, len : Nat, data : Seq(Nat)]
         \cup [id : {"frag"}, offs : Nat, data : Seq(Nat)]

(***************************************************************************)
(* Sending                                                                 *)
(***************************************************************************)

\* rtcfg_send_frame: the frame reaches the wire, or hard_header fails, the
\* device is not up or rtdev_xmit fails, and the frame is lost.
SendFrame(f) ==
  \/ /\ toClient' = Append(toClient, f)
     /\ UNCHANGED faults
  \/ /\ faults < MaxFaults
     /\ faults' = faults + 1
     /\ UNCHANGED toClient

\* rtdev_get_by_index or alloc_rtskb fails: the function returns before it
\* touches the connection.
NoFrame ==
  /\ faults < MaxFaults
  /\ faults' = faults + 1
  /\ UNCHANGED <<cfgOffs, toClient>>

\* The server answers ANNOUNCE_NEW with rtcfg_send_stage_2 and moves to
\* STAGE_2_SENT.  The first fragment is as large as the MTU leaves room
\* for; cfg_offs is set to it before the frame is sent.
SendStage2 ==
  /\ conn = "announced"
  /\ conn' = "stage_2"
  /\ \E mtu \in Mtus :
       LET frag == IF sendData
                   THEN MIN(SizeT(mtu - Stage2Hdr), fileSize) ELSE 0
       IN  \/ NoFrame
           \/ /\ cfgOffs' = frag
              /\ SendFrame([id |-> "stage_2", len |-> TotalSize,
                            data |-> Bytes(0, frag)])
  /\ UNCHANGED <<sendData, fileSize, packets, cltState, cltLen, cltOffs,
                 cltData, cltCount, toServer>>

\* The server takes an ACK_CFG: it continues from ack_len, and either
\* records the transfer as complete or starts a burst of fragments.
RecvAck ==
  /\ conn = "stage_2" /\ packets = 0
  /\ toServer # <<>>
  /\ toServer' = Tail(toServer)
  /\ cfgOffs' = Head(toServer)
  /\ IF Head(toServer) < TotalSize
       THEN conn' = conn /\ packets' = Burstrate
       ELSE conn' = "acked" /\ packets' = 0
  /\ UNCHANGED <<sendData, fileSize, cltState, cltLen, cltOffs, cltData,
                 cltCount, toClient, faults>>

\* Mutants of SendStage2Frag: the fragment not capped at what is left of
\* the file; the memcpy from the start of the buffer; frag_offs written
\* after cfg_offs has advanced.
SendStage2FragNoMin ==
  /\ packets > 0 /\ cfgOffs < fileSize
  /\ packets' = packets - 1
  /\ \E mtu \in Mtus :
       LET frag == SizeT(mtu - FragHdr)
       IN  \/ NoFrame
           \/ /\ cfgOffs' = SizeT(cfgOffs + frag)
              /\ SendFrame([id |-> "frag", offs |-> cfgOffs,
                            data |-> Bytes(cfgOffs, frag)])
  /\ UNCHANGED <<sendData, fileSize, conn, cltState, cltLen, cltOffs,
                 cltData, cltCount, toServer>>

SendStage2FragFromStart ==
  /\ packets > 0 /\ cfgOffs < fileSize
  /\ packets' = packets - 1
  /\ \E mtu \in Mtus :
       LET frag == MIN(SizeT(mtu - FragHdr), SizeT(fileSize - cfgOffs))
       IN  \/ NoFrame
           \/ /\ cfgOffs' = SizeT(cfgOffs + frag)
              /\ SendFrame([id |-> "frag", offs |-> cfgOffs,
                            data |-> Bytes(0, frag)])
  /\ UNCHANGED <<sendData, fileSize, conn, cltState, cltLen, cltOffs,
                 cltData, cltCount, toServer>>

SendStage2FragOffsAfter ==
  /\ packets > 0 /\ cfgOffs < fileSize
  /\ packets' = packets - 1
  /\ \E mtu \in Mtus :
       LET frag == MIN(SizeT(mtu - FragHdr), SizeT(fileSize - cfgOffs))
       IN  \/ NoFrame
           \/ /\ cfgOffs' = SizeT(cfgOffs + frag)
              /\ SendFrame([id |-> "frag", offs |-> cfgOffs',
                            data |-> Bytes(cfgOffs, frag)])
  /\ UNCHANGED <<sendData, fileSize, conn, cltState, cltLen, cltOffs,
                 cltData, cltCount, toServer>>

\* One turn of the burst loop: rtcfg_send_stage_2_frag sends the next
\* fragment from cfg_offs and advances cfg_offs before it sends, so a
\* frame that is then lost has advanced it too.
SendStage2Frag ==
  /\ packets > 0 /\ cfgOffs < fileSize
  /\ packets' = packets - 1
  /\ \E mtu \in Mtus :
       LET frag == MIN(SizeT(mtu - FragHdr), SizeT(fileSize - cfgOffs))
       IN  \/ NoFrame
           \/ /\ cfgOffs' = SizeT(cfgOffs + frag)
              /\ SendFrame([id |-> "frag", offs |-> cfgOffs,
                            data |-> Bytes(cfgOffs, frag)])
  /\ UNCHANGED <<sendData, fileSize, conn, cltState, cltLen, cltOffs,
                 cltData, cltCount, toServer>>

\* The burst loop ends when the whole file has been sent.
BurstDone ==
  /\ packets > 0 /\ ~(cfgOffs < fileSize)
  /\ packets' = 0
  /\ UNCHANGED <<sendData, fileSize, conn, cfgOffs, cltState, cltLen,
                 cltOffs, cltData, cltCount, toClient, toServer, faults>>

(***************************************************************************)
(* The client                                                              *)
(***************************************************************************)

\* rtcfg_send_ack reports the client's cfg_offs as ack_len.
SendAck ==
  \/ /\ toServer' = Append(toServer, cltOffs')
     /\ UNCHANGED faults
  \/ /\ faults < MaxFaults
     /\ faults' = faults + 1
     /\ UNCHANGED toServer

\* STAGE_2_CFG: the client takes cfg_len and the first fragment and
\* acknowledges it.
RecvStage2 ==
  LET f == Head(toClient) IN
  /\ toClient # <<>> /\ f.id = "stage_2" /\ cltState = "wait_stage_2"
  /\ toClient' = Tail(toClient)
  /\ cltLen' = f.len
  /\ cltData' = cltData \o f.data
  /\ cltOffs' = Len(f.data)
  /\ cltState' = IF Len(f.data) >= f.len THEN "complete" ELSE "wait_more"
  /\ cltCount' = 0
  /\ SendAck
  /\ UNCHANGED <<sendData, fileSize, conn, cfgOffs, packets>>

\* STAGE_2_CFG_FRAG at the client's offset: appended; acknowledged when
\* the file is complete or the burst is.
RecvFrag ==
  LET f == Head(toClient) IN
  /\ toClient # <<>> /\ f.id = "frag" /\ cltState = "wait_more"
  /\ f.offs = cltOffs
  /\ toClient' = Tail(toClient)
  /\ cltData' = cltData \o f.data
  /\ cltOffs' = cltOffs + Len(f.data)
  /\ IF cltOffs' >= cltLen
       THEN cltState' = "complete" /\ cltCount' = 0 /\ SendAck
       ELSE /\ cltState' = cltState
            /\ IF cltCount + 1 = Burstrate
                 THEN cltCount' = 0 /\ SendAck
                 ELSE cltCount' = cltCount + 1 /\ UNCHANGED <<toServer, faults>>
  /\ UNCHANGED <<sendData, fileSize, conn, cfgOffs, packets, cltLen>>

\* A frame the client does not expect: a fragment at another offset, or a
\* frame of a stage the client is not in.
RecvDrop ==
  LET f == Head(toClient) IN
  /\ toClient # <<>>
  /\ \/ f.id = "stage_2" /\ cltState # "wait_stage_2"
     \/ f.id = "frag" /\ (cltState # "wait_more" \/ f.offs # cltOffs)
  /\ toClient' = Tail(toClient)
  /\ UNCHANGED <<sendData, fileSize, conn, cfgOffs, packets, cltState,
                 cltLen, cltOffs, cltData, cltCount, toServer, faults>>

(***************************************************************************)
(* The specification                                                       *)
(***************************************************************************)

\* The server has announced the client, which waits for stage 2.
Init ==
  /\ sendData \in BOOLEAN
  /\ fileSize \in FileSizes
  /\ conn = "announced" /\ cfgOffs = 0 /\ packets = 0
  /\ cltState = "wait_stage_2" /\ cltLen = 0 /\ cltOffs = 0
  /\ cltData = <<>> /\ cltCount = 0
  /\ toClient = <<>> /\ toServer = <<>> /\ faults = 0

Next ==
  \/ SendStage2 \/ RecvAck \/ SendStage2Frag \/ BurstDone
  \/ RecvStage2 \/ RecvFrag \/ RecvDrop

\* Both stations' RTcfg tasks run whenever a frame is queued for them, and
\* the server's burst loop runs to its end.
Fairness == WF_vars(Next)

Spec == Init /\ [][Next]_vars /\ Fairness

(***************************************************************************)
(* Properties                                                              *)
(***************************************************************************)

MaxSize == 2^SizeWidth - 1

\* The variables have their types.
TypeOK ==
  /\ sendData \in BOOLEAN /\ fileSize \in FileSizes
  /\ conn \in {"announced", "stage_2", "acked"}
  /\ cfgOffs \in 0..fileSize /\ packets \in 0..Burstrate
  /\ cltState \in {"wait_stage_2", "wait_more", "complete"}
  /\ cltLen \in 0..MaxSize /\ cltOffs \in 0..MaxSize
  /\ cltData \in Seq(0..MaxSize) /\ cltCount \in 0..Burstrate - 1
  /\ toClient \in Seq(Frame) /\ toServer \in Seq(0..MaxSize)
  /\ faults \in 0..MaxFaults

Abstract == INSTANCE Stage2Transfer WITH
              Sizes <- {0} \cup FileSizes, total <- TotalSize,
              held <- cltData, done <- (conn = "acked")

\* The transfer implements Stage2Transfer: whatever frames and ACKs are
\* lost, the client's cfg_offs only advances over the next bytes of the
\* file, in order, and the server records ACKED only once the client
\* holds the whole file (rtcfg_send_stage_2_frag's frag_offs and memcpy
\* source, rtcfg_send_ack's ack_len).
Refinement == Abstract!Spec

\* A transfer in which no send fails completes: the fragment sizes of
\* rtcfg_send_stage_2 and rtcfg_send_stage_2_frag, the bursts and the
\* ACKs bring the server to ACKED.
TransferCompletes == (conn = "stage_2") ~> (conn = "acked" \/ faults > 0)
====
