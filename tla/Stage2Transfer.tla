--------------------------- MODULE Stage2Transfer ---------------------------
(***************************************************************************)
(* What an RTcfg stage-2 transfer promises (spec section 4.5): the client  *)
(* accumulates the configuration file in order, so what it holds is always *)
(* a prefix of the file, and the server takes the connection as ACKED only *)
(* once the client holds the whole file.  A byte is named by its offset in *)
(* the file; total is cfg_len, 0 when the connection has no stage-2 data.  *)
(***************************************************************************)
EXTENDS Integers, Sequences

CONSTANT Sizes   \* the file sizes a connection may have

VARIABLES total, held, done

File == [i \in 1..total |-> i - 1]

Init ==
  /\ total \in Sizes
  /\ held = <<>>
  /\ done = FALSE

\* The client takes more of the file, in order.
Deliver ==
  /\ ~done
  /\ \E k \in Len(held) + 1..total : held' = SubSeq(File, 1, k)
  /\ UNCHANGED <<total, done>>

\* The server records the transfer as complete.
Finish ==
  /\ ~done
  /\ Len(held) = total
  /\ done' = TRUE
  /\ UNCHANGED <<total, held>>

Next == Deliver \/ Finish

Spec == Init /\ [][Next]_<<total, held, done>>
====
