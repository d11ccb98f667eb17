--------------------------- MODULE MCSeparateParts ---------------------------
(***************************************************************************)
(* Values for model checking SeparateParts: two settings of the stop and   *)
(* one threshold per side, the same in config.yaml and in the newest       *)
(* backtest; one trade in the live bot, two in a backtest.                 *)
(***************************************************************************)
EXTENDS SeparateParts

MCGrid == [p \in Param |-> IF p = "atr" THEN <<100, 200>> ELSE <<55>>]

MCTrades == [live |-> 1, backtest |-> 2]

=============================================================================
