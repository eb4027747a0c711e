--------------------------- MODULE MCRtcfgFrames ---------------------------
(* Model-checking instance of RtcfgFrames: a device pool with one buffer, *)
(* num_rtskbs = 2 buffers for rtcfg_pool taken from the slab cache, and   *)
(* two sending contexts.                                                   *)
EXTENDS RtcfgFrames, TLC

CONSTANTS d1, r1, r2, Dev, Cfg, s1, s2

MCBuf == {d1, r1, r2}
MCPools == {Dev, Cfg}
MCInitQueue == (Dev :> <<d1>>) @@ (Cfg :> <<>>)
=============================================================================
