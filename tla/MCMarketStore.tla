----------------------------- MODULE MCMarketStore -----------------------------
(* Three callers with batches that cross, repeat a key with the same and with *)
(* other content, carry a row that is refused, or fetch old content again.    *)
EXTENDS MarketStore, TLC

CONSTANTS w1, w2, w3, k1, k2, a, b

ItemOf(k, c, t) == [key |-> k, content |-> c, fetched |-> t, valid |-> TRUE]
Refused(k) == [key |-> k, content |-> a, fetched |-> 1, valid |-> FALSE]

\* Each fetch has its own time, so that a stored row tells which batch wrote it.
MCBatches == {
  << >>,
  <<ItemOf(k1, a, 1), ItemOf(k2, a, 1)>>,
  <<ItemOf(k1, a, 2)>>,
  <<ItemOf(k2, b, 3), ItemOf(k1, b, 3)>>,
  <<ItemOf(k1, b, 4), ItemOf(k1, a, 4)>>,
  <<ItemOf(k1, b, 1), Refused(k2)>>}
================================================================================
