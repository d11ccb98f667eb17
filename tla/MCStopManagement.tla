-------------------------- MODULE MCStopManagement --------------------------
(* One long and one short position on a market of seven points.            *)
EXTENDS StopManagement

LongAndShort ==
  {[direction |-> "long", price |-> 4, stop |-> 2, oneR |-> 2],
   [direction |-> "short", price |-> 4, stop |-> 6, oneR |-> 2]}

EachRule ==
  {[breakeven |-> TRUE, trailing |-> {}],
   [breakeven |-> TRUE, trailing |-> {3, 5}],
   [breakeven |-> FALSE, trailing |-> {3, 5}]}

=============================================================================
