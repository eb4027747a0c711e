--------------------------- MODULE MCRtskbBuilds ---------------------------
(***************************************************************************)
(* Both builds of the rtskb layer in one model: the RTCAP build           *)
(* (CONFIG_RTNET_ADDON_RTCAP), in which a chain may mix buffers of        *)
(* several pools, and the plain build with single-pool chains.  The build *)
(* is chosen in the initial state and never changes, so each behaviour is *)
(* one build's.  The pools and buffers are those of MCRtskb.               *)
(***************************************************************************)
EXTENDS Integers, Sequences, FiniteSets, TLC

CONSTANTS b1, b2, b3, b4, DevPool, ProtoPool, CapPoolMV, None

VARIABLES queue, pool, next, chainEnd, shared, comp, balance, held, capq,
          acq, slab,
          build   \* "rtcap" or "plain"

MCBuf == {b1, b2, b3, b4}
MCPools == {DevPool, ProtoPool, CapPoolMV}
MCInitQueue == (DevPool :> <<b1>>) @@ (ProtoPool :> <<b2>>)
                 @@ (CapPoolMV :> <<b3>>)

Cap == INSTANCE Rtskb WITH Buf <- MCBuf, Pools <- MCPools,
         CapPool <- CapPoolMV, InitQueue <- MCInitQueue, RTCAP <- TRUE,
         MapCanFail <- FALSE, CaptureChainHeads <- FALSE,
         MixedChains <- TRUE, MaxExtend <- 1

Plain == INSTANCE Rtskb WITH Buf <- MCBuf, Pools <- MCPools,
           CapPool <- CapPoolMV, InitQueue <- MCInitQueue, RTCAP <- FALSE,
           MapCanFail <- FALSE, CaptureChainHeads <- FALSE,
           MixedChains <- FALSE, MaxExtend <- 1

Init == build \in {"rtcap", "plain"} /\ Cap!Init

Next ==
  /\ \/ build = "rtcap" /\ Cap!Next
     \/ build = "plain" /\ Plain!Next
  /\ UNCHANGED build

Spec == Init /\ [][Next]_<<Cap!vars, build>>

\* As in MCRtskb: the balance drift of the RTCAP build's acquire race is
\* bounded so that the state space stays finite.
BalanceBound == \A p \in MCPools : balance[p] \in -2 .. 1

\* The variables have the types Rtskb gives them, in both builds.
TypeOK == Cap!TypeOK /\ build \in {"rtcap", "plain"}

\* Every buffer the slab cache handed out has exactly one owner, in both
\* builds: no kfree_rtskb, rtskb_acquire or capture swap frees a buffer
\* twice or loses one.
OwnedOnce == Cap!OwnedOnce

\* A free buffer sits in the free list of the pool it is charged to, in
\* both builds: the RTCAP free loop's pool swap and rtskb_acquire's
\* recharge keep skb->pool and the list it is queued on in step.
FreeInOwnPool == Cap!FreeInOwnPool

\* In the plain build, every pool's checked-build balance is zero whenever
\* nobody holds a buffer.  The RTCAP build's race between rtskb_acquire
\* and a capture free breaks this (the rtskb_acquire_race run).
BalanceAtRest == build = "plain" => Plain!BalanceAtRest
=============================================================================
