------------------------------ MODULE Terminal ------------------------------
(***************************************************************************)
(* The MetaTrader 5 terminal and the broker behind it, seen through the    *)
(* calls the bot makes (src/src/mt5_client.py): order_send,                *)
(* positions_get and history_deals_get.  Nothing of it is in the           *)
(* repository; it is modelled from how src/src/execution.py uses it.       *)
(*                                                                         *)
(*  - An order is executed, refused or neither, at a moment of its own:    *)
(*    the answer to order_send may come later or never.                    *)
(*  - The position list and the deal history are two views that follow     *)
(*    the broker with independent delays: "the position list can lag the   *)
(*    history, and the history can lag the list" (execution.py:137-138).   *)
(*                                                                         *)
(* A hedging account is assumed: every executed order is a position of its *)
(* own, and a position is closed as a whole.                               *)
(***************************************************************************)
EXTENDS Naturals, FiniteSets

CONSTANTS
  Symbol,    \* the traded symbols, one thread each
  Ticket,    \* position tickets the broker can hand out (a bound)
  Foreign,   \* tickets of positions that carry another magic number
  MaxRisk,   \* largest money-at-stop an order is sized to, in units
  MaxSlip,   \* by how much a fill at a worse price may raise it: the deviation
             \* the request allows (execution.py:507-508)
  None       \* no symbol, no ticket, an unreadable answer

ASSUME TerminalAssumption ==
  /\ None \notin Symbol /\ None \notin Ticket
  /\ IsFiniteSet(Ticket)
  /\ Foreign \subseteq Ticket
  /\ MaxRisk \in Nat \ {0}
  /\ MaxSlip \in Nat

VARIABLES
  state,     \* what the broker has made of each ticket
  symbolOf,  \* the symbol of the order or position
  riskOf,    \* money at its stop
  listed,    \* tickets the terminal's position list shows
  outDeals   \* tickets whose closing deal the terminal's history shows

\* The largest money at the stop of a position.
MaxAtStop == MaxRisk + MaxSlip

terminalVars == <<state, symbolOf, riskOf, listed, outDeals>>

Own == Ticket \ Foreign

TicketState == {"none", "sent", "open", "closed"}

\* An order that may still be executed, or a position that is open.
IsLive(t) == state[t] \in {"sent", "open"}

\* Positions, of now or before.
Opened == {t \in Ticket : state[t] \in {"open", "closed"}}

TerminalTypeOK ==
  /\ state \in [Ticket -> TicketState]
  /\ symbolOf \in [Ticket -> Symbol \cup {None}]
  /\ riskOf \in [Ticket -> 0..MaxAtStop]
  /\ listed \in SUBSET Ticket
  /\ outDeals \in SUBSET Ticket

\* Positions of other programs, F, may be open from the start.
TerminalInit(F, symbols) ==
  /\ state = [t \in Ticket |-> IF t \in F THEN "open" ELSE "none"]
  /\ symbolOf = [t \in Ticket |-> IF t \in F THEN symbols[t] ELSE None]
  /\ riskOf = [t \in Ticket |-> IF t \in F THEN 1 ELSE 0]
  /\ listed = F
  /\ outDeals = {}

-----------------------------------------------------------------------------
\* What order_send starts: an order on its way to the broker.
Place(t, s, r) ==
  /\ state[t] = "none"
  /\ state' = [state EXCEPT ![t] = "sent"]
  /\ symbolOf' = [symbolOf EXCEPT ![t] = s]
  /\ riskOf' = [riskOf EXCEPT ![t] = r]
  /\ UNCHANGED <<listed, outDeals>>

\* The order ends without an execution; its ticket was never a position.
Discard(t) ==
  /\ state[t] = "sent"
  /\ state' = [state EXCEPT ![t] = "none"]
  /\ symbolOf' = [symbolOf EXCEPT ![t] = None]
  /\ riskOf' = [riskOf EXCEPT ![t] = 0]
  /\ UNCHANGED <<listed, outDeals>>

\* At a price of its own, as a whole or in part: the stop stays where the request
\* has it, so the money at it is not the one the order was sized to.
Execute(t) ==
  /\ state[t] = "sent"
  /\ state' = [state EXCEPT ![t] = "open"]
  /\ \E r \in 1..(riskOf[t] + MaxSlip) : riskOf' = [riskOf EXCEPT ![t] = r]
  /\ UNCHANGED <<symbolOf, listed, outDeals>>

\* A stop, a target or a person closes the position.
CloseAtBroker(t) ==
  /\ state[t] = "open"
  /\ state' = [state EXCEPT ![t] = "closed"]
  /\ UNCHANGED <<symbolOf, riskOf, listed, outDeals>>

\* Another program opens a position.
ForeignOpens(t, s) ==
  /\ t \in Foreign /\ state[t] = "none"
  /\ state' = [state EXCEPT ![t] = "open"]
  /\ symbolOf' = [symbolOf EXCEPT ![t] = s]
  /\ riskOf' = [riskOf EXCEPT ![t] = 1]
  /\ UNCHANGED <<listed, outDeals>>

\* The position list catches up with the broker.
ListCatchesUp(t) ==
  /\ listed' = IF state[t] = "open" THEN listed \cup {t} ELSE listed \ {t}
  /\ listed' # listed
  /\ UNCHANGED <<state, symbolOf, riskOf, outDeals>>

\* The closing deal appears in the history.
DealAppears(t) ==
  /\ state[t] = "closed" /\ t \notin outDeals
  /\ outDeals' = outDeals \cup {t}
  /\ UNCHANGED <<state, symbolOf, riskOf, listed>>

=============================================================================
