------------------------------ MODULE RiskGate ------------------------------
(***************************************************************************)
(* The risk gate every symbol thread passes before an entry                *)
(* (RiskManager.should_trade): the watchdog's cooldown, and the drawdown   *)
(* against an equity peak that has to move with deposits and withdrawals.  *)
(* How deep the drawdown is and how many trades were lost are inputs.      *)
(***************************************************************************)
EXTENDS BalanceFlows

CONSTANTS
  GateThread,     \* the symbol threads that share one RiskManager
  CooldownTime    \* watchdog.cooldown_hours

ASSUME GateAssumption == CooldownTime \in Nat \ {0}

VARIABLES
  gate,           \* the RiskManager: _balance_flows, _pending_flow, equity_peak
  cooldownUntil,  \* cooldown_until
  check           \* the should_trade call of every thread

gateVars == <<now, posted, gate, cooldownUntil, check>>

-----------------------------------------------------------------------------
(* should_trade, one step per access to what the threads share.            *)

Idle == [at |-> "idle", now |-> 0, pending |-> Zero, equity |-> {}]

Goto(t, place) == check' = [check EXCEPT ![t].at = place]
Leave(t) == check' = [check EXCEPT ![t] = Idle]

TriggerCooldown(t) == cooldownUntil' = check[t].now + CooldownTime

BeginCheck(t) ==
  /\ check[t].at = "idle"
  /\ check' = [check EXCEPT ![t].at = "cooldown", ![t].now = now]
  /\ UNCHANGED <<now, posted, gate, cooldownUntil>>

\* cooldown_active: a cooldown that is over is cleared in a step of its own.
TestCooldown(t) ==
  /\ check[t].at = "cooldown"
  /\ CASE cooldownUntil = NoTime -> Goto(t, "losses")
       [] cooldownUntil # NoTime /\ check[t].now < cooldownUntil -> Leave(t)
       [] OTHER -> Goto(t, "clear")
  /\ UNCHANGED <<now, posted, gate, cooldownUntil>>

ClearCooldown(t) ==
  /\ check[t].at = "clear"
  /\ cooldownUntil' = NoTime
  /\ Goto(t, "losses")
  /\ UNCHANGED <<now, posted, gate>>

\* _count_consecutive_losses reads the deal history; what it counts is an input.
CountLosses(t, tooMany) ==
  /\ check[t].at = "losses"
  /\ IF tooMany THEN TriggerCooldown(t) /\ Leave(t)
                ELSE Goto(t, "flows") /\ UNCHANGED cooldownUntil
  /\ UNCHANGED <<now, posted, gate>>

\* _pending_flow += poll(): the left side is read before the call.
LoadPending(t) ==
  /\ check[t].at = "flows"
  /\ check' = [check EXCEPT ![t].at = "poll", ![t].pending = gate.pending]
  /\ UNCHANGED <<now, posted, gate, cooldownUntil>>

PollFlows(t) ==
  /\ check[t].at = "poll"
  /\ \E look \in Looks(gate.cursor, check[t].now) :
       /\ gate' = [gate EXCEPT !.cursor = look.cursor]
       /\ check' = [check EXCEPT ![t].at = "store", ![t].pending = Plus(@, Each(look.flow))]
  /\ UNCHANGED <<now, posted, cooldownUntil>>

StorePending(t) ==
  /\ check[t].at = "store"
  /\ gate' = [gate EXCEPT !.pending = check[t].pending]
  /\ Goto(t, "account")
  /\ UNCHANGED <<now, posted, cooldownUntil>>

ReadAccountMutant(t, answers) ==
  /\ check[t].at = "account"
  /\ IF answers
     THEN /\ check' = [check EXCEPT ![t].at = "shift", ![t].equity = Posted]
          /\ UNCHANGED gate
     ELSE Leave(t) /\ gate' = [gate EXCEPT !.pending = Zero]
  /\ UNCHANGED <<now, posted, cooldownUntil>>

\* Without an account the entry is blocked and the flow waits for the next check.
ReadAccount(t, answers) ==
  /\ check[t].at = "account"
  /\ IF answers THEN check' = [check EXCEPT ![t].at = "shift", ![t].equity = Posted]
                ELSE Leave(t)
  /\ UNCHANGED <<now, posted, gate, cooldownUntil>>

ShiftPeak(t) ==
  /\ check[t].at = "shift"
  /\ gate' = [gate EXCEPT !.peak = IF @ = NoTime THEN @ ELSE Plus(@, gate.pending)]
  /\ Goto(t, "reset")
  /\ UNCHANGED <<now, posted, cooldownUntil>>

ResetPending(t) ==
  /\ check[t].at = "reset"
  /\ gate' = [gate EXCEPT !.pending = Zero]
  /\ Goto(t, "peak")
  /\ UNCHANGED <<now, posted, cooldownUntil>>

\* _update_equity_peak and _drawdown_exceeded; the session filter reads nothing
\* that is shared.
RaisePeak(t, higher, exceeded) ==
  /\ check[t].at = "peak"
  /\ gate' = [gate EXCEPT !.peak = IF @ = NoTime \/ higher THEN Each(check[t].equity) ELSE @]
  /\ IF exceeded THEN TriggerCooldown(t) ELSE UNCHANGED cooldownUntil
  /\ Leave(t)
  /\ UNCHANGED <<now, posted>>

CheckStep(t) ==
  \/ BeginCheck(t) \/ TestCooldown(t) \/ ClearCooldown(t)
  \/ \E tooMany \in BOOLEAN : CountLosses(t, tooMany)
  \/ LoadPending(t) \/ PollFlows(t) \/ StorePending(t)
  \/ \E answers \in BOOLEAN : ReadAccount(t, answers)
  \/ ShiftPeak(t) \/ ResetPending(t)
  \/ \E higher, exceeded \in BOOLEAN : RaisePeak(t, higher, exceeded)

NewGate == [cursor |-> NewCursor, pending |-> Zero, peak |-> NoTime]

\* A restart or a reconnect joins the threads and builds a new RiskManager.
RestartGate ==
  /\ gate' = NewGate /\ cooldownUntil' = NoTime
  /\ check' = [t \in GateThread |-> Idle]
  /\ UNCHANGED <<now, posted>>

GateInit ==
  /\ now = 0 /\ posted = [d \in Deal |-> NoTime]
  /\ gate = NewGate /\ cooldownUntil = NoTime
  /\ check = [t \in GateThread |-> Idle]

GateNext ==
  \/ \E t \in GateThread : CheckStep(t)
  \/ RestartGate
  \/ AccountStep /\ UNCHANGED <<gate, cooldownUntil, check>>

GateSpec == GateInit /\ [][GateNext]_gateVars

-----------------------------------------------------------------------------
(* Properties.                                                             *)

Places == {"idle", "cooldown", "clear", "losses", "flows", "poll", "store", "account",
           "shift", "reset", "peak"}

GateTypeOK ==
  /\ now \in Nat /\ posted \in [Deal -> Int \cup {NoTime}]
  /\ gate \in [cursor : Cursor, pending : Money, peak : Money \cup {NoTime}]
  /\ cooldownUntil \in Int \cup {NoTime}
  /\ check \in [GateThread -> [at : Places, now : Nat, pending : Money, equity : SUBSET Deal]]

\* A failed look never steps over a deal: whatever is posted and not counted
\* yet lies in the window of the next look (balance_flows.py:51).
GateMissesNothing == InSight(gate.cursor)

\* Between entry checks every deal that is marked as counted is in the peak or
\* waits in _pending_flow, whichever reads failed ("symbol threads share one
\* RiskManager: a deal must be counted once", balance_flows.py:48).
NothingLost ==
  (\A t \in GateThread : check[t].at = "idle") /\ gate.peak # NoTime =>
    Counted(Plus(gate.peak, gate.pending), gate.cursor)

\* A cooldown is cleared only when it is over and replaced only by a later one
\* (risk.py:307-318); a restart forgets it.
RunningCooldownKept ==
  [][RestartGate \/ cooldownUntil \in {NoTime, cooldownUntil'}
     \/ IF cooldownUntil' = NoTime THEN now >= cooldownUntil
                                   ELSE cooldownUntil' >= cooldownUntil]_gateVars

-----------------------------------------------------------------------------
(* The inductive invariants: of any number of threads, and of one.         *)

GateInv ==
  /\ GateTypeOK
  /\ NotAhead(gate.cursor)
  /\ \A t \in GateThread : check[t].now <= now /\ check[t].equity \subseteq Posted
  /\ GateMissesNothing

\* Where the money of a counted deal is while a check is under way.
FlowsKept(t) ==
  /\ check[t].at \in {"reset", "peak"} /\ gate.peak # NoTime => Counted(gate.peak, gate.cursor)
  /\ check[t].at \notin {"store", "reset", "peak"} /\ gate.peak # NoTime =>
       Counted(Plus(gate.peak, gate.pending), gate.cursor)
  /\ check[t].at = "store" /\ gate.peak # NoTime =>
       Counted(Plus(gate.peak, check[t].pending), gate.cursor)
  /\ check[t].at = "poll" => check[t].pending = gate.pending
  /\ check[t].at \in {"shift", "reset", "peak"} => gate.cursor.tickets \subseteq check[t].equity

\* A check that got past the cooldown found none running.
CooldownSeen(t) ==
  /\ check[t].at = "clear" => cooldownUntil # NoTime /\ cooldownUntil <= check[t].now
  /\ check[t].at \notin {"idle", "cooldown", "clear"} => cooldownUntil = NoTime

OneThreadInv == GateInv /\ \A t \in GateThread : FlowsKept(t) /\ CooldownSeen(t)

=============================================================================
