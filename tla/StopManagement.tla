--------------------------- MODULE StopManagement ---------------------------
(***************************************************************************)
(* Breakeven and trailing of one position: manage_open_positions of        *)
(* src/src/risk.py, which the symbol's thread runs on every bar, next to   *)
(* the main thread that flags, drops and adopts cache entries and saves    *)
(* them, and to the broker.  Nobody else moves the stop.                   *)
(*                                                                         *)
(* The thread works on a copy of the entry and on one tick.  The stop at   *)
(* the broker and the stop in the entry are two pieces of state: the entry *)
(* is written only after the answer DONE, and goes back to the file's on a *)
(* restart.  Prices are whole points, so the rounding to the symbol's      *)
(* digits changes nothing here.                                            *)
(***************************************************************************)
EXTENDS Integers

CONSTANTS
  MaxPrice,     \* prices are 1..MaxPrice; a stop of 0 is no stop
  Spread,       \* ask - bid
  Trades,       \* the position: direction, fill price, stop, sl_atr_mult * atr
  Settings,     \* breakeven_at_1R, and the distances current_atr *
                \* trailing_atr_mult takes (none: trailing is off)
  MaxCrashes    \* bound: restarts of a behaviour

Price == 1..MaxPrice

ASSUME StopsAssumption ==
  /\ MaxPrice \in Nat \ {0} /\ Spread \in Nat \ {0} /\ MaxCrashes \in Nat
  /\ Trades \subseteq [direction : {"long", "short"}, price : Price,
                       stop : Price, oneR : Nat \ {0}]
  /\ \A t \in Trades : IF t.direction = "long" THEN t.stop < t.price
                                               ELSE t.stop > t.price
  /\ Settings \subseteq [breakeven : BOOLEAN, trailing : SUBSET (Nat \ {0})]

VARIABLES
  trade, settings,
  bid,         \* the market
  open,        \* the position exists at the broker
  brokerStop,  \* its stop there
  entry,       \* its entry in open_positions_cache
  saved,       \* the entry in the state file
  pc,          \* where the thread is in manage_open_positions
  copied,      \* pos_details["sl"] of the thread's copy
  newStop,     \* new_sl
  crashes

brokerVars == <<bid, open, brokerStop>>
threadVars == <<pc, copied, newStop>>
stopVars == <<trade, settings, brokerVars, entry, saved, threadVars, crashes>>

Long == trade.direction = "long"

Stop == 0..MaxPrice

\* kind "adopted": atr and sl_atr_mult are missing.  waiting: close_first_seen.
CacheEntry == [kind : {"recorded", "adopted"}, stop : Price, waiting : BOOLEAN]

\* No entry: kind "out".
NoEntry == [kind |-> "out", stop |-> 0, waiting |-> FALSE]

\* The types of the variables.
StopTypeOK ==
  /\ trade \in Trades /\ settings \in Settings
  /\ bid \in Price /\ open \in BOOLEAN /\ brokerStop \in Price
  /\ entry \in CacheEntry \cup {NoEntry} /\ saved \in CacheEntry \cup {NoEntry}
  /\ pc \in {"idle", "copied", "sending", "done"}
  /\ copied \in Stop /\ newStop \in Stop
  /\ crashes \in 0..MaxCrashes

-----------------------------------------------------------------------------
(* manage_open_positions.                                                  *)

TighterMutant(a, b) == a > b

\* tightened: the stop a protects more than the stop b.
Tighter(a, b) == IF Long THEN a > b ELSE 0 < a /\ a < b

Tightest(a, b) == IF Tighter(a, b) THEN a ELSE b

ExitPrice == IF Long THEN bid ELSE bid + Spread

ProfitMove == IF Long THEN ExitPrice - trade.price ELSE trade.price - ExitPrice

ReachedOneR == ProfitMove >= trade.oneR

StopAtEntry(s) == IF Long THEN s >= trade.price ELSE 0 < s /\ s <= trade.price

Trailed(d) == IF Long THEN ExitPrice - d ELSE ExitPrice + d

WantedStopMutant(d) ==
  IF d > 0 /\ (ReachedOneR \/ StopAtEntry(copied))
  THEN Tightest(Trailed(d), copied)
  ELSE IF settings.breakeven /\ ReachedOneR THEN trade.price ELSE copied

\* new_sl; d = 0 when trailing is off.
WantedStop(d) ==
  LET breakeven == IF settings.breakeven /\ ReachedOneR /\ ~StopAtEntry(copied)
                   THEN trade.price ELSE copied
  IN  IF d > 0 /\ (ReachedOneR \/ StopAtEntry(copied))
      THEN Tightest(Trailed(d), breakeven)
      ELSE breakeven

FarEnoughMutant(s) == 2 * (bid - s) >= 3 * Spread

FarEnough(s) ==
  LET distance == IF Long THEN bid - s ELSE s - (bid + Spread)
  IN  2 * distance >= 3 * Spread

\* Under cache_lock; an entry that waits for its closing deal has no stop left
\* to move, an adopted one lacks what the rules are measured from.
CopyEntry ==
  /\ pc = "idle"
  /\ entry.kind = "recorded" /\ ~entry.waiting
  /\ settings.breakeven \/ settings.trailing # {}
  /\ copied' = entry.stop
  /\ pc' = "copied"
  /\ UNCHANGED <<trade, settings, brokerVars, entry, saved, newStop, crashes>>

\* The tick and the decision on it.
Decide(d) ==
  /\ pc = "copied"
  /\ d = 0 <=> settings.trailing = {}
  /\ LET s == WantedStop(d)
     IN  /\ s > 0 /\ Tighter(s, copied) /\ FarEnough(s)
         /\ newStop' = s
  /\ pc' = "sending"
  /\ UNCHANGED <<trade, settings, brokerVars, entry, saved, copied, crashes>>

\* Nothing to move, too close to the market, no tick, no symbol info.
Leave ==
  /\ pc \in {"copied", "sending"}
  /\ pc' = "idle"
  /\ UNCHANGED <<trade, settings, brokerVars, entry, saved, copied, newStop, crashes>>

\* order_send: the broker moves the stop; the answer DONE arrives or does not.
Modify(answered) ==
  /\ pc = "sending" /\ open
  /\ brokerStop' = newStop
  /\ pc' = IF answered THEN "done" ELSE "idle"
  /\ UNCHANGED <<trade, settings, bid, open, entry, saved, copied, newStop,
                 crashes>>

UpdateEntryEarlyMutant ==
  /\ pc \in {"done", "sending"}
  /\ entry' = IF entry = NoEntry THEN NoEntry ELSE [entry EXCEPT !.stop = newStop]
  /\ pc' = "idle"
  /\ UNCHANGED <<trade, settings, brokerVars, saved, copied, newStop, crashes>>

\* if cache_key in the cache: the entry may have been dropped meanwhile.
UpdateEntry ==
  /\ pc = "done"
  /\ entry' = IF entry = NoEntry THEN NoEntry ELSE [entry EXCEPT !.stop = newStop]
  /\ pc' = "idle"
  /\ UNCHANGED <<trade, settings, brokerVars, saved, copied, newStop, crashes>>

ThreadStep ==
  \/ CopyEntry
  \/ \E d \in settings.trailing \cup {0} : Decide(d)
  \/ Leave \/ UpdateEntry
  \/ \E answered \in BOOLEAN : Modify(answered)

-----------------------------------------------------------------------------
(* The main thread (module LiveTrading), as far as this entry goes.        *)

\* The position is missing from the terminal's list.
MarkWaiting ==
  /\ entry # NoEntry /\ ~entry.waiting
  /\ entry' = [entry EXCEPT !.waiting = TRUE]

\* It is listed again.
ClearWaiting ==
  /\ entry # NoEntry /\ entry.waiting
  /\ entry' = [entry EXCEPT !.waiting = FALSE]

\* A closing deal, or none after CLOSE_DEAL_WAIT_SECONDS.
DropEntry ==
  /\ entry # NoEntry
  /\ ~open \/ entry.waiting
  /\ entry' = NoEntry

Adopt ==
  /\ entry = NoEntry /\ open
  /\ entry' = [kind |-> "adopted", stop |-> brokerStop, waiting |-> FALSE]

Reconcile ==
  /\ MarkWaiting \/ ClearWaiting \/ DropEntry \/ Adopt
  /\ UNCHANGED <<trade, settings, brokerVars, saved, threadVars, crashes>>

SaveState ==
  /\ saved' = entry
  /\ UNCHANGED <<trade, settings, brokerVars, entry, threadVars, crashes>>

\* A crash or a reconnect; the entry is the file's again.
Restart ==
  /\ crashes < MaxCrashes
  /\ crashes' = crashes + 1
  /\ entry' = saved
  /\ pc' = "idle" /\ copied' = 0 /\ newStop' = 0
  /\ UNCHANGED <<trade, settings, brokerVars, saved>>

MainStep == Reconcile \/ SaveState \/ Restart

-----------------------------------------------------------------------------
(* The market and the broker.                                              *)

MoveMarket(p) ==
  /\ p # bid
  /\ bid' = p
  /\ UNCHANGED <<open, brokerStop>>

CloseAtBroker ==
  /\ open
  /\ open' = FALSE
  /\ UNCHANGED <<bid, brokerStop>>

BrokerStep ==
  /\ (\E p \in Price : MoveMarket(p)) \/ CloseAtBroker
  /\ UNCHANGED <<trade, settings, entry, saved, threadVars, crashes>>

\* The trade has just been recorded; the file is older.
StopInit ==
  /\ trade \in Trades /\ settings \in Settings
  /\ bid = trade.price /\ open = TRUE
  /\ brokerStop = trade.stop
  /\ entry = [kind |-> "recorded", stop |-> trade.stop, waiting |-> FALSE]
  /\ saved = NoEntry
  /\ pc = "idle" /\ copied = 0 /\ newStop = 0
  /\ crashes = 0

StopNext == ThreadStep \/ MainStep \/ BrokerStep

StopSpec == StopInit /\ [][StopNext]_stopVars

-----------------------------------------------------------------------------
(* Fairness: the thread runs on every bar, the tick, the answer and the      *)
(* broker's consent come again and again.                                    *)

StopFairness ==
  /\ WF_stopVars(CopyEntry) /\ WF_stopVars(UpdateEntry)
  /\ SF_stopVars(\E d \in settings.trailing \cup {0} : Decide(d))
  /\ SF_stopVars(\E answered \in BOOLEAN : Modify(answered))

FairStopSpec == StopSpec /\ StopFairness

-----------------------------------------------------------------------------
(* Safety.                                                                 *)

\* What a unit of the position loses when the stop s is hit.
Loss(s) == IF Long THEN trade.price - s ELSE s - trade.price

\* The money at the stop never exceeds what the portfolio cap counted at entry:
\* no race, lost answer or restart makes the bot place a stop worse than the
\* first one.
RiskNeverGrows == Loss(brokerStop) <= Loss(trade.stop)

\* An entry that is managed never claims a tighter stop than the broker has: the
\* total of the open risk is not understated and the stop is not given up on.
EntryNotAhead ==
  \A e \in {entry, saved} : e.kind = "recorded" => Loss(brokerStop) <= Loss(e.stop)

\* With breakeven on, every stop the bot places is at the entry price or better:
\* trailing from a copy or a file that is behind cannot undo breakeven.
BreakevenIsKept ==
  settings.breakeven => brokerStop = trade.stop \/ Loss(brokerStop) <= 0

\* "the stop is only ever tightened" (risk.py:443).
OnlyTightened ==
  [][Loss(brokerStop)' <= Loss(brokerStop)]_stopVars

-----------------------------------------------------------------------------
(* Why they hold: an inductive invariant.                                  *)

\* Nothing the bot knows of claims more than the broker's stop, and the file no
\* more than the cache.
KnownStops ==
  /\ Loss(brokerStop) <= Loss(trade.stop)
  /\ \A e \in {entry, saved} :
       e.kind = "recorded" => /\ Loss(brokerStop) <= Loss(e.stop)
                              /\ Loss(e.stop) <= Loss(trade.stop)
  /\ entry.kind = "recorded" /\ saved.kind = "recorded" =>
       Loss(entry.stop) <= Loss(saved.stop)

\* The thread's copy is the entry's stop, if the entry is still there, and what it
\* sends is better.
ThreadStops ==
  /\ pc # "idle" =>
       /\ Loss(copied) <= Loss(trade.stop)
       /\ entry.kind = "recorded" => entry.stop = copied
       /\ saved.kind = "recorded" => Loss(copied) <= Loss(saved.stop)
  /\ pc \in {"sending", "done"} =>
       /\ newStop \in Price
       /\ Loss(newStop) <= Loss(copied)
       /\ settings.breakeven => Loss(newStop) <= 0
  /\ pc = "done" => brokerStop = newStop

\* The conjunction that every step preserves.
StopInv == StopTypeOK /\ KnownStops /\ ThreadStops /\ BreakevenIsKept

-----------------------------------------------------------------------------
(* Liveness.                                                               *)

Favourable == open /\ entry.kind = "recorded" /\ ~entry.waiting /\ ReachedOneR

\* A position that stays at +1R gets its stop to the entry price in the end,
\* through lost answers, refusals and restarts.
BreakevenHappens ==
  settings.breakeven /\ <>[]Favourable => <>(Loss(brokerStop) <= 0)

=============================================================================
