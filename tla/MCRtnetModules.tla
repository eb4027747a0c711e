--------------------------- MODULE MCRtnetModules ---------------------------
(* Model-checking instance of RtnetModules: two ioctl callers on           *)
(* /dev/rtnet with two ioctls each.                                        *)
EXTENDS RtnetModules

CONSTANTS c1, c2

MCCallers == {c1, c2}
=============================================================================
