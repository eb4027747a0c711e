------------------------------ MODULE MCTulip ------------------------------
(* Model-checking instance of Tulip: a receive ring of two descriptors     *)
(* with three pool buffers, a transmit ring of four descriptors with four  *)
(* frames, 3-bit ring counters, two turns of the interrupt loop and at     *)
(* most three frame arrivals.  The constants are given in the cfg files.   *)
EXTENDS Tulip
====
