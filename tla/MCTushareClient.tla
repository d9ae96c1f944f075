-------------------------- MODULE MCTushareClient --------------------------
(* Two callers and two APIs, one of them with a slower rate of its own, as    *)
(* stock_basic has; a minute is five clock units, which a rate of two does    *)
(* not divide.                                                               *)
EXTENDS TushareClient, TLC

CONSTANTS q1, q2, stockBasic, daily

MCApiPerMinute == (stockBasic :> 1) @@ (daily :> 2)
=============================================================================
