---------------------------- MODULE BalanceFlows ----------------------------
(***************************************************************************)
(* Deposits, withdrawals, credits and corrections, and the cursor through  *)
(* which a peak equity follows them (balance_flows.py).                    *)
(*                                                                         *)
(* A peak is modelled by what it accounts for: how often the money of      *)
(* every deal is in it.  shift_peak adds the deals of a flow, a new high   *)
(* is the equity at that moment, which holds every deal once.  Trading     *)
(* results only decide whether there is a new high.                        *)
(***************************************************************************)
EXTENDS Integers

CONSTANTS
  Deal,           \* the balance deals
  Margin,         \* LOOKBACK_MARGIN: how late a deal may post
  MaxTime,        \* bound on the clock
  NoTime          \* None

ASSUME FlowAssumption == Margin \in Nat /\ MaxTime \in Nat /\ NoTime \notin Int

VARIABLES
  now,        \* the clock
  posted      \* the time stamp of every deal in the account's history

-----------------------------------------------------------------------------
(* Money: bags of deals.                                                   *)

Money == [Deal -> Nat]
Zero == [d \in Deal |-> 0]
Each(S) == [d \in Deal |-> IF d \in S THEN 1 ELSE 0]
Plus(a, b) == [d \in Deal |-> a[d] + b[d]]

Posted == {d \in Deal : posted[d] # NoTime}

-----------------------------------------------------------------------------
(* BalanceFlowCursor.                                                      *)

\* old (not in the code): the deals the history held at the first look, which
\* "only records what is already in the history" (balance_flows.py:42).
Cursor == [since : Int \cup {NoTime}, tickets : SUBSET Deal, old : SUBSET Deal]
NewCursor == [since |-> NoTime, tickets |-> {}, old |-> {}]

\* The history from LOOKBACK_MARGIN before the last look to that after this one.
Reread(c, at) ==
  LET start == (IF c.since = NoTime THEN at ELSE c.since) - Margin
  IN  {d \in Posted : posted[d] >= start /\ posted[d] <= at + Margin}

LooksMutant(c, at) ==
  LET begun == [c EXCEPT !.since = at, !.old = IF c.since = NoTime THEN Posted ELSE @]
      seen == Reread(c, at)
  IN  {[cursor |-> begun, flow |-> {}],
       [cursor |-> [begun EXCEPT !.tickets = @ \cup seen],
        flow |-> IF c.since = NoTime THEN {} ELSE seen \ c.tickets]}

\* _poll at time at: a read that raises changes nothing, an empty answer only
\* starts the cursor, and of an answer the deals not seen before are the flow.
Looks(c, at) ==
  LET first == c.since = NoTime
      begun == [c EXCEPT !.since = at, !.old = IF first THEN Posted ELSE @]
      seen == Reread(c, at)
  IN  {[cursor |-> c, flow |-> {}],
       [cursor |-> IF first THEN begun ELSE c, flow |-> {}],
       [cursor |-> [begun EXCEPT !.tickets = @ \cup seen],
        flow |-> IF first THEN {} ELSE seen \ c.tickets]}

-----------------------------------------------------------------------------
(* The account.                                                            *)

Tick ==
  /\ now < MaxTime /\ now' = now + 1
  /\ UNCHANGED posted

\* A deal appears in the history, stamped up to Margin earlier: "Deal times are
\* on the server clock and a late deal can post after a look"
\* (balance_flows.py:21).
Post(d) ==
  /\ posted[d] = NoTime
  /\ \E stamp \in (now - Margin)..now : posted' = [posted EXCEPT ![d] = stamp]
  /\ UNCHANGED now

AccountStep == Tick \/ \E d \in Deal : Post(d)

-----------------------------------------------------------------------------
(* What a cursor and its peak owe each other.                              *)

\* What the next look of a cursor still finds.
InSight(c) ==
  c.since # NoTime => \A d \in Posted \ (c.tickets \cup c.old) : posted[d] >= c.since - Margin

\* The deals a cursor has counted are in the peak.
Counted(peak, c) == \A d \in c.tickets \ c.old : peak[d] >= 1

\* A cursor has counted what the history holds, and its last look is past.
NotAhead(c) == c.tickets \subseteq Posted /\ (c.since # NoTime => c.since <= now)

=============================================================================
