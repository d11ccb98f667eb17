------------------------------ MODULE Backtest ------------------------------
(***************************************************************************)
(* The walk-forward backtester (src/backtester.py) with its fills          *)
(* (src/src/backtest_fills.py) and models (src/src/backtest_models.py).    *)
(* The symbols are replayed one after the other; equity, equity peak,      *)
(* cooldown and closed results are shared by all of them, as in the code.  *)
(*                                                                         *)
(* Time is the number of a bar, prices are integers, a position has one    *)
(* unit.  Bars are bid prices: a long buys at the ask, a short buys back   *)
(* at the ask.  Probabilities and confidence are an input of Decide,       *)
(* distances of ReplayBar.                                                 *)
(*                                                                         *)
(* A definition whose name ends in Mutant is the one after it with a       *)
(* mistake; no action uses it.                                             *)
(***************************************************************************)
EXTENDS Integers, FiniteSets, FiniteSetsExt

CONSTANTS
  NumSymbols, Rows,          \* bounds: symbols, and bars of each
  Price,                     \* bound: the prices of bars
  Spreads,                   \* bound: the spreads of bars
  Distances, TrailDistances,
  Cost,                      \* slippage and commission of a round trip
  InitialEquity,
  TrainBars, Every, LabelHorizon,   \* train_bars, retrain_every_bars, horizon
  BlockPercent,              \* block_on_drawdown
  MaxLosses, LossWindow,     \* max_consecutive_losses, lookback_hours
  CooldownBars,              \* cooldown_hours
  EarlyStopTrades,           \* early_stop_min_trades
  Unset                      \* None

ASSUME BacktestAssumption ==
  /\ NumSymbols \in Nat \ {0} /\ Rows \in Nat
  /\ Price \subseteq Nat /\ Spreads \subseteq Nat
  /\ Distances \subseteq Nat \ {0} /\ TrailDistances \subseteq Nat
  /\ Cost \in Nat /\ InitialEquity \in Nat
  /\ TrainBars \in Nat /\ Every \in Nat \ {0}
  /\ LabelHorizon \in Nat \ {0} /\ LabelHorizon <= TrainBars
  /\ BlockPercent \in Nat /\ MaxLosses \in Nat \ {0} /\ LossWindow \in Nat
  /\ CooldownBars \in Nat \ {0} /\ EarlyStopTrades \in Nat
  /\ Unset \notin Int

VARIABLES
  phase,      \* where _process_bar is
  sym, row,   \* the symbol and the bar
  open,       \* open positions of the symbol
  pending,    \* the order decided on the last bar
  equity, peak, cooldown,
  results,    \* closed results of all symbols: when, and whether a loss
  judged,     \* closed trades of the symbol, and how many early stop has seen
  fit,        \* _block_start with the rows its models were fitted on
  exits       \* the exits of this bar, for the properties

backtestVars ==
  <<phase, sym, row, open, pending, equity, peak, cooldown, results, judged, fit, exits>>

-----------------------------------------------------------------------------
Row == 0..(Rows - 1)
Phase == {"bar", "judge", "gate", "decide", "close", "done"}
Direction == {"long", "short"}
PriceBar == {b \in [o : Price, h : Price, l : Price, c : Price, spread : Spreads] :
               b.l <= b.o /\ b.l <= b.c /\ b.o <= b.h /\ b.c <= b.h}
Fit == [row : Nat, first : Int, end : Int]
Position ==
  [direction : Direction, entry : Int, placed : Int, sl : Int, tp : Int, moved : Row]
Order == [direction : Direction, at : Row, fit : Fit]
Result == [symbol : 1..NumSymbols, at : Row, loss : BOOLEAN]
Exit == [direction : Direction, price : Int, stopped : BOOLEAN, bar : PriceBar, moved : Row]

IsLong(p) == p.direction = "long"

-----------------------------------------------------------------------------
(* Fills and stops: backtest_fills.py.                                     *)

EntryPrice(direction, b) == IF direction = "long" THEN b.o + b.spread ELSE b.o

Lower(a, b) == IF a <= b THEN a ELSE b
Higher(a, b) == IF a >= b THEN a ELSE b

StopTouched(p, b) == IF IsLong(p) THEN b.l <= p.sl ELSE b.h + b.spread >= p.sl

TargetTouched(p, b) == IF IsLong(p) THEN b.h >= p.tp ELSE b.l + b.spread <= p.tp

\* A bar that opens beyond the stop fills at the open.
StopFill(p, b) ==
  IF IsLong(p) THEN Lower(p.sl, b.o) ELSE Higher(p.sl, b.o + b.spread)

\* Both touched: the stop, as a bar has no order within itself.
ExitPrice(p, b) == IF StopTouched(p, b) THEN StopFill(p, b) ELSE p.tp

IsOut(p, b) == StopTouched(p, b) \/ TargetTouched(p, b)

ExitOf(p, b) == [direction |-> p.direction, price |-> ExitPrice(p, b),
                 stopped |-> StopTouched(p, b), bar |-> b, moved |-> p.moved]

ExitReference(p, b) == IF IsLong(p) THEN b.c ELSE b.c + b.spread
Gain(p, price) == IF IsLong(p) THEN price - p.entry ELSE p.entry - price
Risked(p) == IF IsLong(p) THEN p.entry - p.placed ELSE p.placed - p.entry
AtEntry(p) == IF IsLong(p) THEN p.sl >= p.entry ELSE 0 < p.sl /\ p.sl <= p.entry
Tighter(p, a, b) == IF IsLong(p) THEN Higher(a, b) ELSE Lower(a, b)

\* Breakeven at +1R, then the trail; only ever tightens.
NextStop(p, b, dist) ==
  LET reached == Gain(p, ExitReference(p, b)) >= Risked(p)
      even == IF reached /\ ~AtEntry(p) THEN p.entry ELSE p.sl
      trail == IF IsLong(p) THEN ExitReference(p, b) - dist ELSE ExitReference(p, b) + dist
      next == IF dist > 0 /\ (reached \/ AtEntry(p)) THEN Tighter(p, even, trail) ELSE even
  IN  IF next > 0 THEN Tighter(p, p.sl, next) ELSE p.sl

-----------------------------------------------------------------------------
(* One bar: _open_pending, _update_positions, _manage_stops.               *)

Sign(direction) == IF direction = "long" THEN 1 ELSE -1

Opened(b, stop, target) ==
  LET entry == EntryPrice(pending.direction, b)
      sign == Sign(pending.direction)
  IN  [direction |-> pending.direction, entry |-> entry, placed |-> entry - sign * stop,
       sl |-> entry - sign * stop, tp |-> entry + sign * target, moved |-> pending.at]

\* _open_pending: refused for a wide spread, a bad stop or no lot, or filled at
\* the open.
Filled(b) ==
  {{}} \cup IF pending = Unset THEN {} ELSE {{Opened(b, d, t)} : d, t \in Distances}

Close(p, price) == Gain(p, price) - Cost

ReplayBarMutant(b, dist) ==
  \E new \in Filled(b) :
    LET held == {[p EXCEPT !.sl = NextStop(p, b, dist), !.moved = row] : p \in open \cup new}
        gone == {p \in held : IsOut(p, b)}
        pnl(p) == Close(p, ExitPrice(p, b))
    IN  /\ phase = "bar"
        /\ pending' = Unset
        /\ open' = held \ gone
        /\ exits' = {ExitOf(p, b) : p \in gone}
        /\ equity' = equity + MapThenSumSet(pnl, gone)
        /\ results' = results \cup {[symbol |-> sym, at |-> row, loss |-> pnl(p) < 0] :
                                    p \in {q \in gone : pnl(q) # 0}}
        /\ judged' = [judged EXCEPT !.closed = @ + Cardinality(gone)]
        /\ phase' = "judge"
        /\ UNCHANGED <<sym, row, peak, cooldown, fit>>

\* The order of the last bar fills at this bar's open, the bar can stop it out at
\* once, and a stop that is moved applies from the next bar on.
ReplayBar(b, dist) ==
  \E new \in Filled(b) :
    LET held == open \cup new
        gone == {p \in held : IsOut(p, b)}
        pnl(p) == Close(p, ExitPrice(p, b))
    IN  /\ phase = "bar"
        /\ pending' = Unset
        /\ open' = {[p EXCEPT !.sl = NextStop(p, b, dist),
                              !.moved = IF NextStop(p, b, dist) = p.sl THEN @ ELSE row] :
                    p \in held \ gone}
        /\ exits' = {ExitOf(p, b) : p \in gone}
        /\ equity' = equity + MapThenSumSet(pnl, gone)
        /\ results' = results \cup {[symbol |-> sym, at |-> row, loss |-> pnl(p) < 0] :
                                    p \in {q \in gone : pnl(q) # 0}}
        /\ judged' = [judged EXCEPT !.closed = @ + Cardinality(gone)]
        /\ phase' = "judge"
        /\ UNCHANGED <<sym, row, peak, cooldown, fit>>

\* The early stop is judged when a trade of the symbol has closed; whether the
\* interval of the mean R is below 0 is an input.  The last bar ends the replay.
Judge(below) ==
  /\ phase = "judge"
  /\ judged' = [judged EXCEPT !.seen = judged.closed, !.stopped = below]
  /\ below => judged.closed # judged.seen /\ judged.closed >= EarlyStopTrades
  /\ phase' = IF below \/ row = Rows - 1 THEN "close" ELSE "gate"
  /\ exits' = {}
  /\ UNCHANGED <<sym, row, open, pending, equity, peak, cooldown, results, fit>>

-----------------------------------------------------------------------------
(* The gate: drawdown, losing streak, cooldown.                            *)

\* trailing_losses over the results of the window: losses after its last win.
WatchdogLosses(now) ==
  LET window == {r \in results : now - LossWindow <= r.at /\ r.at <= now}
      wins == {r \in window : ~r.loss}
  IN  Cardinality({r \in window : r.loss /\ \A w \in wins : r.at > w.at})

DrawdownExceeded(e, p) == (p - e) * 100 >= BlockPercent * p

\* cooldown_active: what is left of the cooldown at this bar.
LeftOf(until) == IF until # Unset /\ row < until THEN until ELSE Unset

GateMutant ==
  LET top == IF peak = Unset \/ equity > peak THEN equity ELSE peak
      bad == DrawdownExceeded(equity, top) \/ WatchdogLosses(row) >= MaxLosses
      until == IF cooldown = Unset /\ bad THEN row + CooldownBars ELSE cooldown
  IN  /\ phase = "gate"
      /\ peak' = top
      /\ cooldown' = LeftOf(until)
      /\ IF LeftOf(until) # Unset THEN phase' = "bar" /\ row' = row + 1
                                  ELSE phase' = "decide" /\ UNCHANGED row
      /\ UNCHANGED <<sym, open, pending, equity, results, judged, fit, exits>>

\* An expired cooldown is cleared first, so that a drawdown or a streak that still
\* holds starts a new one on this bar.
Gate ==
  LET top == IF peak = Unset \/ equity > peak THEN equity ELSE peak
      bad == DrawdownExceeded(equity, top) \/ WatchdogLosses(row) >= MaxLosses
      left == LeftOf(cooldown)
      until == IF left = Unset /\ bad THEN row + CooldownBars ELSE left
  IN  /\ phase = "gate"
      /\ peak' = top
      /\ cooldown' = LeftOf(until)
      /\ IF LeftOf(until) # Unset THEN phase' = "bar" /\ row' = row + 1
                                  ELSE phase' = "decide" /\ UNCHANGED row
      /\ UNCHANGED <<sym, open, pending, equity, results, judged, fit, exits>>

-----------------------------------------------------------------------------
(* The decision.                                                           *)

\* WalkForwardModels.probs: the row at which the block of row i was fitted.
BlockRow(i) == TrainBars + ((i - TrainBars) \div Every) * Every

FitBlockMutant(r) == [row |-> r, first |-> r - TrainBars, end |-> r + 1]

\* The last label known at row r is that of row r - LabelHorizon.
FitBlock(r) == [row |-> r, first |-> r - TrainBars, end |-> r - LabelHorizon + 1]

\* choose_direction: each side signals when probability and confidence suffice.
ChooseDirection(longOk, shortOk) ==
  IF longOk = shortOk THEN Unset ELSE IF longOk THEN "long" ELSE "short"

MayQueueMutant == pending = Unset

\* One position or order per symbol.
MayQueue == pending = Unset /\ open = {}

Decide(longOk, shortOk, session) ==
  LET used == IF fit # Unset /\ fit.row = BlockRow(row) THEN fit ELSE FitBlock(BlockRow(row))
      direction == ChooseDirection(longOk, shortOk)
  IN  /\ phase = "decide"
      /\ fit' = used
      /\ pending' = IF direction # Unset /\ MayQueue /\ session
                    THEN [direction |-> direction, at |-> row, fit |-> used]
                    ELSE pending
      /\ phase' = "bar" /\ row' = row + 1
      /\ UNCHANGED <<sym, open, equity, peak, cooldown, results, judged, exits>>

\* _force_close_open_positions at the last bar, then the next symbol.
ForceClose(b) ==
  LET pnl(p) == Close(p, ExitReference(p, b))
  IN  /\ phase = "close"
      /\ equity' = equity + MapThenSumSet(pnl, open)
      /\ results' = results \cup {[symbol |-> sym, at |-> Rows - 1, loss |-> pnl(p) < 0] :
                                  p \in {q \in open : pnl(q) # 0}}
      /\ open' = {}
      /\ IF sym = NumSymbols
         THEN phase' = "done" /\ UNCHANGED <<sym, row, pending, judged, fit>>
         ELSE /\ phase' = "bar" /\ sym' = sym + 1 /\ row' = TrainBars
              /\ judged' = [closed |-> 0, seen |-> 0, stopped |-> FALSE]
              /\ fit' = Unset /\ UNCHANGED pending
      /\ UNCHANGED <<peak, cooldown, exits>>

BacktestInit ==
  /\ phase = IF Rows > TrainBars + 1 THEN "bar" ELSE "done"
  /\ sym = 1 /\ row = TrainBars
  /\ open = {} /\ pending = Unset
  /\ equity = InitialEquity /\ peak = Unset /\ cooldown = Unset
  /\ results = {} /\ exits = {}
  /\ judged = [closed |-> 0, seen |-> 0, stopped |-> FALSE]
  /\ fit = Unset

BacktestNext ==
  \/ \E b \in PriceBar, dist \in TrailDistances : ReplayBar(b, dist)
  \/ \E below \in BOOLEAN : Judge(below)
  \/ Gate
  \/ \E longOk, shortOk, session \in BOOLEAN : Decide(longOk, shortOk, session)
  \/ \E b \in PriceBar : ForceClose(b)

BacktestSpec == BacktestInit /\ [][BacktestNext]_backtestVars

-----------------------------------------------------------------------------
(* Properties.                                                             *)

\* No look-ahead: an order comes from models that were fitted for its block, on
\* rows whose labels had become known by the block's first bar: "the models for
\* bar i were fitted on past bars only" (backtester.py:293).
LabelsAreKnown ==
  pending # Unset =>
    LET f == pending.fit
    IN  /\ f.row <= pending.at /\ pending.at < f.row + Every
        /\ 0 <= f.first
        /\ \A r \in f.first..(f.end - 1) : r + LabelHorizon <= f.row

\* "The rest of the replay is skipped; the results are of the part that ran"
\* (backtester.py:319): a replay that is stopped early holds no position and no
\* order, so that the forced close at the last bar adds nothing from bars that
\* were skipped.
EarlyStopIsFlat == judged.stopped => open = {} /\ pending = Unset

\* A fill is a price the bar offered, or a worse one at the target, and the stop
\* that was hit had been moved on an earlier bar: "a moved stop applies from the
\* next bar" (backtester.py:312).
FillsArePossible ==
  \A x \in exits :
    LET bid == x.price - IF x.direction = "long" THEN 0 ELSE x.bar.spread
    IN  /\ x.moved < row
        /\ x.stopped => x.bar.l <= bid /\ bid <= x.bar.h
        /\ ~x.stopped => IF x.direction = "long" THEN bid <= x.bar.h ELSE x.bar.l <= bid

\* No bar decides while the drawdown or the losing streak that starts a cooldown
\* still holds: it "starts a new cooldown on this bar instead of letting this bar
\* decide" (backtester.py:326).
DecidesOnlyWhenAllowed ==
  phase = "decide" => /\ ~DrawdownExceeded(equity, peak)
                      /\ ~(WatchdogLosses(row) >= MaxLosses)

-----------------------------------------------------------------------------
(* Why they hold: an inductive invariant.                                  *)

\* Equity is left out: it is a sum over the trades that close.
BacktestTypeOK ==
  /\ phase \in Phase /\ sym \in 1..NumSymbols
  /\ row \in Nat /\ (phase # "done" => row \in TrainBars..(Rows - 1))
  /\ (phase \in {"gate", "decide"} => row # Rows - 1)
  /\ open \subseteq Position
  /\ pending \in Order \cup {Unset}
  /\ cooldown \in Int \cup {Unset}
  /\ judged \in [closed : Nat, seen : Nat, stopped : BOOLEAN]
  /\ fit \in Fit \cup {Unset}
  /\ results \subseteq Result
  /\ exits \subseteq Exit

\* One position or one order, and never a stop that was moved on this very bar.
BookInv ==
  /\ \A p, q \in open : p = q
  /\ \A p \in open : IF phase = "bar" THEN p.moved < row ELSE p.moved <= row
  /\ pending # Unset => phase = "bar" /\ open = {} /\ pending.at < row
  /\ exits # {} => phase = "judge"

\* A trade has closed since the last look only when nothing is open any more.
JudgedInv ==
  /\ phase # "judge" => judged.closed = judged.seen
  /\ phase = "judge" /\ judged.closed # judged.seen => open = {}
  /\ judged.stopped => phase \in {"close", "done"}

FitInv == fit # Unset => fit = FitBlock(fit.row) /\ TrainBars <= fit.row

BacktestInv ==
  /\ BacktestTypeOK /\ BookInv /\ JudgedInv /\ FitInv
  /\ LabelsAreKnown /\ EarlyStopIsFlat /\ FillsArePossible
  /\ DecidesOnlyWhenAllowed

=============================================================================
