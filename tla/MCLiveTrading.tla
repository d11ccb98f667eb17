--------------------------- MODULE MCLiveTrading ---------------------------
(* Symmetry and view for the runs of LiveTrading.                          *)
EXTENDS LiveTrading, TLC

\* Own tickets are interchangeable, and so are the symbols.
Interchangeable == Permutations(Symbol) \cup Permutations(Own)

\* The view of a run without restarts: nothing reads the file there, no guard reads what
\* was learned, and the money of a position is read while it is live, listed or found.
StillRead(t) ==
  IsLive(t) \/ t \in listed \cup brokerList \/ \E s \in Symbol : attempt[s].found = t

WhatIsRead ==
  <<state, symbolOf, [t \in Ticket |-> IF StillRead(t) THEN riskOf[t] ELSE 0], listed,
    outDeals, threadVars, stop, limits, cache, cacheRisk, flagged,
    {t \in unpriced : IsLive(t)}, mpc, booted, reconcileVars, restarts, unaccounted>>

\* max_positions binds alone, or the risk cap does once the first fill has slipped.
EachLimitBinds == {[positions |-> 1, risk |-> 2], [positions |-> 2, risk |-> 2]}

\* The properties of the run with restarts speak of symbols that no alert and no
\* restart left to a person: it stops where none is left, and it looks at a second trade
\* of the bot or at a position of another program, the latter over one restart.
Focused ==
  /\ unaccounted # Symbol
  /\ \A t \in Foreign : state[t] # "none" =>
       restarts <= 1 /\ Cardinality({u \in Own : state[u] # "none"}) <= 1

TwoPositions == {[positions |-> 2, risk |-> 2]}

=============================================================================
