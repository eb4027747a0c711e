------------------------------ MODULE MCRtskb ------------------------------
(* Model-checking instance of Rtskb: three pools (a device pool refilling *)
(* a receive ring, a protocol pool such as RTcfg's, the capture pool) and *)
(* four buffers, one of them still in the slab cache.                     *)
EXTENDS Rtskb, TLC

CONSTANTS b1, b2, b3, b4, DevPool, ProtoPool, CapPoolMV

MCBuf == {b1, b2, b3, b4}
MCPools == {DevPool, ProtoPool, CapPoolMV}
MCInitQueue == (DevPool :> <<b1>>) @@ (ProtoPool :> <<b2>>)
                 @@ (CapPoolMV :> <<b3>>)

\* The checked-build balance of a pool drifts by one each time a capture
\* free overtakes an rtskb_acquire (see the acquire_capture_race run); the
\* drift is bounded here so that the state space stays finite.
BalanceBound == \A p \in Pools : balance[p] \in -2 .. 2
=============================================================================
