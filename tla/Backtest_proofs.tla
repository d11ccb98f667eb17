-------------------------- MODULE Backtest_proofs --------------------------
(* The safety properties of Backtest, for every number of symbols, bars,    *)
(* prices, distances and training lengths.                                  *)
EXTENDS Backtest, FiniteSetTheorems, TLAPS

-----------------------------------------------------------------------------
(* Blocks and fills.                                                       *)

\* A block starts at or before each of its rows, and ends after it.
LEMMA BlockHolds ==
  ASSUME NEW i \in Nat, BacktestAssumption, TrainBars <= i
  PROVE  /\ BlockRow(i) \in Nat
         /\ TrainBars <= BlockRow(i) /\ BlockRow(i) <= i /\ i < BlockRow(i) + Every
<1> DEFINE d == i - TrainBars
           q == d \div Every
<1>1. d \in Nat /\ Every \in Nat \ {0} /\ TrainBars \in Nat
  BY DEF BacktestAssumption
<1>2. q \in Int /\ d = Every * q + (d % Every) /\ d % Every \in 0..(Every - 1)
  BY <1>1
<1>3. q >= 0
  BY <1>1, <1>2
<1>4. q * Every = Every * q /\ q * Every \in Nat
  BY <1>1, <1>2, <1>3
<1>5. BlockRow(i) = TrainBars + q * Every
  BY DEF BlockRow
<1> HIDE DEF q, d
<1>6. d = i - TrainBars
  BY DEF d
<1>7. QED
  BY <1>1, <1>2, <1>4, <1>5, <1>6

\* A fit for a block knows the labels of its rows when the block starts.
LEMMA FitKnowsLabels ==
  ASSUME NEW r \in Nat, BacktestAssumption, TrainBars <= r
  PROVE  /\ FitBlock(r) \in Fit /\ FitBlock(r).row = r /\ 0 <= FitBlock(r).first
         /\ \A k \in FitBlock(r).first..(FitBlock(r).end - 1) : k + LabelHorizon <= r
BY DEF FitBlock, Fit, BacktestAssumption

\* Stops and fills are integers; a stop fill is a bid or ask of its bar.
LEMMA FillsOfBar ==
  ASSUME NEW p \in Position, NEW b \in PriceBar, BacktestAssumption
  PROVE  /\ ExitOf(p, b) \in [direction : Direction, price : Int, stopped : BOOLEAN,
                              bar : PriceBar, moved : Row]
         /\ IsOut(p, b) =>
              LET x == ExitOf(p, b)
                  bid == x.price - IF x.direction = "long" THEN 0 ELSE x.bar.spread
              IN  /\ x.stopped => x.bar.l <= bid /\ bid <= x.bar.h
                  /\ ~x.stopped => IF x.direction = "long" THEN bid <= x.bar.h
                                                           ELSE x.bar.l <= bid
<1>1. /\ b.o \in Nat /\ b.h \in Nat /\ b.l \in Nat /\ b.c \in Nat /\ b.spread \in Nat
      /\ b.l <= b.o /\ b.o <= b.h
  BY DEF PriceBar, BacktestAssumption
<1>2. /\ p.direction \in {"long", "short"} /\ p.entry \in Int /\ p.placed \in Int
      /\ p.sl \in Int /\ p.tp \in Int /\ p.moved \in Row
  BY DEF Position, Direction
<1>3. ExitPrice(p, b) \in Int
  BY <1>1, <1>2 DEF ExitPrice, StopFill, Lower, Higher
<1>4. StopTouched(p, b) \in BOOLEAN
  <2>1. CASE IsLong(p)
    BY <1>1, <1>2, <2>1 DEF StopTouched
  <2>2. CASE ~IsLong(p)
    BY <1>1, <1>2, <2>2 DEF StopTouched
  <2>3. QED
    BY <2>1, <2>2
<1>5. ExitOf(p, b) \in [direction : Direction, price : Int, stopped : BOOLEAN,
                        bar : PriceBar, moved : Row]
  BY <1>2, <1>3, <1>4 DEF ExitOf, Direction
<1>6. /\ ExitOf(p, b).price = ExitPrice(p, b) /\ ExitOf(p, b).bar = b
      /\ ExitOf(p, b).direction = p.direction
      /\ ExitOf(p, b).stopped <=> StopTouched(p, b)
  BY <1>4 DEF ExitOf
<1>7. ASSUME IsOut(p, b)
      PROVE  LET x == ExitPrice(p, b)
                 bid == x - IF p.direction = "long" THEN 0 ELSE b.spread
             IN  /\ StopTouched(p, b) => b.l <= bid /\ bid <= b.h
                 /\ ~StopTouched(p, b) => IF p.direction = "long" THEN bid <= b.h
                                                                  ELSE b.l <= bid
  <2>1. CASE p.direction = "long"
    BY <1>1, <1>2, <1>7, <2>1 DEF ExitPrice, StopFill, Lower, IsOut, StopTouched,
                                  TargetTouched, IsLong
  <2>2. CASE p.direction = "short"
    BY <1>1, <1>2, <1>7, <2>2 DEF ExitPrice, StopFill, Higher, IsOut, StopTouched,
                                  TargetTouched, IsLong
  <2>3. QED
    BY <1>2, <2>1, <2>2
<1>8. QED
  BY <1>5, <1>6, <1>7

\* The stop after a bar is an integer.
LEMMA NextStopType ==
  ASSUME NEW p \in Position, NEW b \in PriceBar, NEW dist \in TrailDistances,
         BacktestAssumption
  PROVE  NextStop(p, b, dist) \in Int
<1>1. b.c \in Nat /\ b.spread \in Nat /\ dist \in Nat
  BY DEF PriceBar, BacktestAssumption
<1>2. p.entry \in Int /\ p.placed \in Int /\ p.sl \in Int
  BY DEF Position
<1>3. ExitReference(p, b) \in Int
  BY <1>1 DEF ExitReference
<1>4. \A x, y \in Int : Tighter(p, x, y) \in Int
  BY DEF Tighter, Higher, Lower
<1> DEFINE reached == Gain(p, ExitReference(p, b)) >= Risked(p)
           even == IF reached /\ ~AtEntry(p) THEN p.entry ELSE p.sl
           trail == IF IsLong(p) THEN ExitReference(p, b) - dist
                                 ELSE ExitReference(p, b) + dist
           next == IF dist > 0 /\ (reached \/ AtEntry(p)) THEN Tighter(p, even, trail)
                                                           ELSE even
<1>5. even \in Int /\ trail \in Int
  BY <1>1, <1>2, <1>3
<1> HIDE DEF even, trail, reached
<1>6. next \in Int
  BY <1>4, <1>5
<1> HIDE DEF next
<1>7. (IF next > 0 THEN Tighter(p, p.sl, next) ELSE p.sl) \in Int
  BY <1>2, <1>4, <1>6
<1>8. QED
  BY <1>7 DEF NextStop, next, even, trail, reached

\* What an order becomes at the open: nothing, or one position with its stop as
\* placed.
LEMMA FilledType ==
  ASSUME NEW b \in PriceBar, NEW new \in Filled(b), BacktestAssumption, BacktestTypeOK
  PROVE  /\ new \subseteq Position
         /\ \A p, q \in new : p = q
         /\ pending = Unset => new = {}
         /\ \A p \in new : p.moved = pending.at
<1>1. b.o \in Nat /\ b.spread \in Nat
  BY DEF PriceBar, BacktestAssumption
<1>2. CASE pending = Unset
  BY <1>2 DEF Filled
<1>3. CASE pending # Unset /\ new # {}
  <2>1. /\ pending.direction \in {"long", "short"} /\ pending.at \in Row
    BY <1>3 DEF BacktestTypeOK, Order, Direction
  <2>2. EntryPrice(pending.direction, b) \in Int
    BY <1>1 DEF EntryPrice
  <2>3. PICK d \in Distances, t \in Distances : new = {Opened(b, d, t)}
    BY <1>3 DEF Filled
  <2>4. Sign(pending.direction) * d \in Int /\ Sign(pending.direction) * t \in Int
    BY DEF BacktestAssumption, Sign
  <2>5. Opened(b, d, t) \in Position /\ Opened(b, d, t).moved = pending.at
    BY <2>1, <2>2, <2>4 DEF Opened, Position, Direction
  <2>6. QED
    BY <1>3, <2>3, <2>5
<1>4. CASE new = {}
  BY <1>4
<1>5. QED
  BY <1>2, <1>3, <1>4

\* A set with at most one member is finite.
LEMMA AtMostOne ==
  ASSUME NEW S, \A p, q \in S : p = q
  PROVE  /\ Cardinality(S) \in Nat
         /\ S = {} => Cardinality(S) = 0
<1>1. CASE S = {}
  BY <1>1, FS_EmptySet
<1>2. CASE S # {}
  <2>1. PICK p \in S : TRUE
    BY <1>2
  <2>2. S = {p}
    BY <2>1
  <2>3. Cardinality({p}) = 1
    BY FS_Singleton
  <2>4. QED
    BY <1>2, <2>2, <2>3
<1>3. QED
  BY <1>1, <1>2

-----------------------------------------------------------------------------
(* The steps.                                                              *)

\* Nothing is open, ordered or fitted at the first bar.
LEMMA BacktestStarts ==
  ASSUME BacktestAssumption, BacktestInit
  PROVE  BacktestInv
<1> USE BacktestAssumption DEF BacktestAssumption, BacktestInit
<1>1. BacktestTypeOK
  <2>1. judged \in [closed : Nat, seen : Nat, stopped : BOOLEAN]
    OBVIOUS
  <2>2. phase \in {"bar", "done"} /\ (phase # "done" => row \in TrainBars..(Rows - 1))
    OBVIOUS
  <2>3. row \in Nat /\ sym \in 1..NumSymbols
    OBVIOUS
  <2>4. QED
    BY <2>1, <2>2, <2>3 DEF BacktestTypeOK, Phase
<1>2. BookInv /\ JudgedInv /\ FitInv
  BY DEF BookInv, JudgedInv, FitInv
<1>3. LabelsAreKnown /\ EarlyStopIsFlat /\ FillsArePossible
  BY DEF LabelsAreKnown, EarlyStopIsFlat, FillsArePossible
<1>4. DecidesOnlyWhenAllowed
  BY DEF DecidesOnlyWhenAllowed
<1>5. QED
  BY <1>1, <1>2, <1>3, <1>4 DEF BacktestInv

\* The bar fills the order, closes what it touches and moves the stop of the rest.
LEMMA BarsKeep ==
  ASSUME BacktestAssumption, BacktestInv, NEW b \in PriceBar, NEW dist \in TrailDistances,
         ReplayBar(b, dist)
  PROVE  BacktestInv'
<1>0. /\ BacktestTypeOK /\ BookInv /\ JudgedInv /\ FitInv /\ EarlyStopIsFlat
      /\ phase = "bar" /\ phase' = "judge" /\ pending' = Unset
      /\ UNCHANGED <<sym, row, cooldown, fit>>
  BY DEF BacktestInv, ReplayBar
<1>1. row \in TrainBars..(Rows - 1) /\ row \in Row /\ row \in Nat /\ sym \in 1..NumSymbols
  BY <1>0 DEF BacktestTypeOK, Row, BacktestAssumption
<1>2. PICK new \in Filled(b) :
        LET held == open \cup new
            gone == {p \in held : IsOut(p, b)}
            pnl(p) == Close(p, ExitPrice(p, b))
        IN  /\ open' = {[p EXCEPT !.sl = NextStop(p, b, dist),
                                  !.moved = IF NextStop(p, b, dist) = p.sl THEN @ ELSE row] :
                        p \in held \ gone}
            /\ exits' = {ExitOf(p, b) : p \in gone}
            /\ results' = results \cup {[symbol |-> sym, at |-> row, loss |-> pnl(p) < 0] :
                                        p \in {q \in gone : pnl(q) # 0}}
            /\ judged' = [judged EXCEPT !.closed = @ + Cardinality(gone)]
  BY DEF ReplayBar
<1> DEFINE held == open \cup new
           gone == {p \in held : IsOut(p, b)}
<1>3. /\ held \subseteq Position /\ gone \subseteq held
      /\ \A p, q \in held : p = q
      /\ \A p \in held : p.moved < row
  BY <1>0, FilledType DEF BacktestTypeOK, BookInv
<1>4. /\ Cardinality(gone) \in Nat /\ (gone = {} => Cardinality(gone) = 0)
      /\ (gone # {} => held \ gone = {})
  BY <1>3, AtMostOne
<1>5. judged'.closed = judged.closed + Cardinality(gone) /\ judged'.seen = judged.seen
      /\ judged'.stopped = judged.stopped
      /\ judged' \in [closed : Nat, seen : Nat, stopped : BOOLEAN]
  <2>1. judged \in [closed : Nat, seen : Nat, stopped : BOOLEAN]
    BY <1>0 DEF BacktestTypeOK
  <2>2. judged' = [judged EXCEPT !.closed = @ + Cardinality(gone)]
    BY <1>2
  <2>3. judged.closed + Cardinality(gone) \in Nat
    BY <1>4, <2>1
  <2>4. QED
    BY <2>1, <2>2, <2>3
<1>6. ASSUME NEW p \in open'
      PROVE  p \in Position /\ p.moved <= row
  <2>1. PICK q \in held : p = [q EXCEPT !.sl = NextStop(q, b, dist),
                                        !.moved = IF NextStop(q, b, dist) = q.sl THEN @ ELSE row]
    BY <1>2
  <2>2. q \in Position /\ q.moved < row /\ q.moved \in Int /\ NextStop(q, b, dist) \in Int
    BY <1>3, NextStopType DEF Position, Row
  <2>3. /\ p.moved = (IF NextStop(q, b, dist) = q.sl THEN q.moved ELSE row)
        /\ p = [direction |-> q.direction, entry |-> q.entry, placed |-> q.placed,
                sl |-> NextStop(q, b, dist), tp |-> q.tp, moved |-> p.moved]
    BY <2>1, <2>2 DEF Position
  <2>4. p.moved \in Row /\ p.moved <= row
    BY <1>1, <2>2, <2>3 DEF Position
  <2>5. QED
    BY <2>2, <2>3, <2>4 DEF Position
<1>7. /\ \A p, q \in open' : p = q
      /\ gone # {} => open' = {}
  BY <1>2, <1>3, <1>4
<1>8. results' \subseteq Result
  <2>1. ASSUME NEW p \in gone
        PROVE  [symbol |-> sym, at |-> row, loss |-> Close(p, ExitPrice(p, b)) < 0] \in Result
    BY <1>1 DEF Result
  <2>2. QED
    BY <1>0, <1>2, <2>1 DEF BacktestTypeOK
<1>9. exits' \subseteq Exit
  <2>1. ASSUME NEW p \in gone PROVE ExitOf(p, b) \in Exit
    <3>1. p \in Position
      BY <1>3
    <3>2. QED
      BY <3>1, FillsOfBar DEF Exit
  <2>2. QED
    BY <1>2, <2>1
<1>10. BacktestTypeOK'
  BY <1>0, <1>1, <1>5, <1>6, <1>8, <1>9 DEF BacktestTypeOK, Phase
<1>11. BookInv'
  BY <1>0, <1>6, <1>7 DEF BookInv
<1>12. JudgedInv'
  <2>1. judged'.closed # judged'.seen => open' = {}
    BY <1>0, <1>4, <1>5, <1>7 DEF JudgedInv, BacktestTypeOK
  <2>2. ~judged'.stopped
    BY <1>0, <1>5 DEF JudgedInv
  <2>3. QED
    BY <1>0, <2>1, <2>2 DEF JudgedInv
<1>13. FitInv' /\ LabelsAreKnown' /\ EarlyStopIsFlat' /\ DecidesOnlyWhenAllowed'
  BY <1>0, <1>5 DEF FitInv, LabelsAreKnown, EarlyStopIsFlat, DecidesOnlyWhenAllowed,
                    JudgedInv, FitBlock
<1>14. FillsArePossible'
  <2>1. ASSUME NEW x \in exits'
        PROVE  LET bid == x.price - IF x.direction = "long" THEN 0 ELSE x.bar.spread
               IN  /\ x.moved < row
                   /\ x.stopped => x.bar.l <= bid /\ bid <= x.bar.h
                   /\ ~x.stopped => IF x.direction = "long" THEN bid <= x.bar.h
                                                            ELSE x.bar.l <= bid
    <3>1. PICK p \in gone : x = ExitOf(p, b)
      BY <1>2
    <3>2. p \in Position /\ IsOut(p, b) /\ p.moved < row
      BY <1>3
    <3>3. x.moved = p.moved
      BY <3>1 DEF ExitOf
    <3>4. QED
      BY <3>1, <3>2, <3>3, FillsOfBar
  <2>2. QED
    BY <1>0, <2>1 DEF FillsArePossible
<1>15. QED
  BY <1>10, <1>11, <1>12, <1>13, <1>14 DEF BacktestInv

\* A replay is stopped early only after a close, when nothing is open.
LEMMA JudgingKeeps ==
  ASSUME BacktestAssumption, BacktestInv, NEW below \in BOOLEAN, Judge(below)
  PROVE  BacktestInv'
<1>1. /\ BacktestTypeOK /\ BookInv /\ JudgedInv /\ FitInv
      /\ phase = "judge" /\ phase' \in {"close", "gate"} /\ exits' = {}
      /\ UNCHANGED <<sym, row, open, pending, cooldown, results, fit>>
      /\ pending = Unset
  BY DEF BacktestInv, Judge, BookInv
<1>2. /\ judged'.closed = judged.closed /\ judged'.seen = judged.closed
      /\ judged'.stopped = below
      /\ judged' \in [closed : Nat, seen : Nat, stopped : BOOLEAN]
  BY <1>1 DEF Judge, BacktestTypeOK
<1>3. /\ below => phase' = "close" /\ open = {}
      /\ phase' = "gate" => row # Rows - 1
  BY <1>1 DEF Judge, JudgedInv
<1>4. BacktestTypeOK'
  BY <1>1, <1>2, <1>3 DEF BacktestTypeOK, Phase
<1>5. BookInv' /\ FitInv' /\ LabelsAreKnown' /\ FillsArePossible'
  BY <1>1 DEF BookInv, FitInv, LabelsAreKnown, FillsArePossible, FitBlock
<1>6. JudgedInv' /\ EarlyStopIsFlat'
  BY <1>1, <1>2, <1>3 DEF JudgedInv, EarlyStopIsFlat
<1>7. DecidesOnlyWhenAllowed'
  BY <1>1 DEF DecidesOnlyWhenAllowed
<1>8. QED
  BY <1>4, <1>5, <1>6, <1>7 DEF BacktestInv

\* A bar that passes the gate has neither the drawdown nor the streak.
LEMMA GateKeeps ==
  ASSUME BacktestAssumption, BacktestInv, Gate
  PROVE  BacktestInv'
<1>1. /\ BacktestTypeOK /\ BookInv /\ JudgedInv /\ FitInv
      /\ phase = "gate" /\ pending = Unset /\ exits = {}
      /\ UNCHANGED <<sym, open, pending, equity, results, judged, fit, exits>>
      /\ row \in TrainBars..(Rows - 1) /\ row # Rows - 1 /\ row \in Nat
  BY DEF BacktestInv, Gate, BookInv, BacktestTypeOK
<1> DEFINE top == IF peak = Unset \/ equity > peak THEN equity ELSE peak
           bad == DrawdownExceeded(equity, top) \/ WatchdogLosses(row) >= MaxLosses
           left == LeftOf(cooldown)
           until == IF left = Unset /\ bad THEN row + CooldownBars ELSE left
<1>2. /\ peak' = top /\ cooldown' = LeftOf(until)
      /\ IF LeftOf(until) # Unset THEN phase' = "bar" /\ row' = row + 1
                                  ELSE phase' = "decide" /\ row' = row
  BY DEF Gate
<1>3. left \in Int \cup {Unset} /\ (left # Unset => row < left)
  BY <1>1 DEF LeftOf, BacktestTypeOK
<1>4. row + CooldownBars \in Int /\ row < row + CooldownBars /\ Unset \notin Int
  BY <1>1 DEF BacktestAssumption
<1>5. until \in Int \cup {Unset} /\ cooldown' \in Int \cup {Unset}
  BY <1>2, <1>3, <1>4 DEF LeftOf
<1>6. phase' = "decide" => ~bad
  BY <1>2, <1>3, <1>4 DEF LeftOf
<1>7. row' \in Nat /\ row' \in TrainBars..(Rows - 1) /\ row <= row'
      /\ (phase' = "bar" => row < row') /\ phase' \in {"bar", "decide"}
      /\ (phase' = "decide" => row' = row)
  BY <1>1, <1>2 DEF BacktestAssumption
<1>8. BacktestTypeOK'
  BY <1>1, <1>5, <1>7 DEF BacktestTypeOK, Phase
<1>9. BookInv'
  <2>1. \A p \in open : p.moved \in Nat
    BY <1>1 DEF BacktestTypeOK, Position, Row
  <2>2. QED
    BY <1>1, <1>7, <2>1 DEF BookInv
<1>10. JudgedInv' /\ FitInv' /\ EarlyStopIsFlat'
  BY <1>1, <1>7 DEF JudgedInv, FitInv, EarlyStopIsFlat, FitBlock, BacktestInv
<1>11. LabelsAreKnown' /\ FillsArePossible'
  BY <1>1 DEF LabelsAreKnown, FillsArePossible
<1>12. DecidesOnlyWhenAllowed'
  <2>1. ASSUME phase' = "decide"
        PROVE  (~DrawdownExceeded(equity, peak) /\ ~(WatchdogLosses(row) >= MaxLosses))'
    <3>1. row' = row /\ results' = results /\ equity' = equity /\ peak' = top /\ ~bad
      BY <1>1, <1>2, <1>6, <1>7, <2>1
    <3>2. WatchdogLosses(row)' = WatchdogLosses(row)
      BY <3>1 DEF WatchdogLosses
    <3>3. DrawdownExceeded(equity, peak)' <=> DrawdownExceeded(equity, top)
      BY <3>1 DEF DrawdownExceeded
    <3>4. QED
      BY <3>1, <3>2, <3>3
  <2>2. QED
    BY <2>1 DEF DecidesOnlyWhenAllowed
<1>13. QED
  BY <1>8, <1>9, <1>10, <1>11, <1>12 DEF BacktestInv

\* A decision is made by the models of its block, and queued when nothing is open.
LEMMA DecisionsKeep ==
  ASSUME BacktestAssumption, BacktestInv, NEW longOk \in BOOLEAN, NEW shortOk \in BOOLEAN,
         NEW session \in BOOLEAN, Decide(longOk, shortOk, session)
  PROVE  BacktestInv'
<1>1. /\ BacktestTypeOK /\ BookInv /\ JudgedInv /\ FitInv
      /\ phase = "decide" /\ phase' = "bar" /\ row' = row + 1 /\ pending = Unset
      /\ exits = {} /\ UNCHANGED <<sym, open, cooldown, results, judged, exits>>
      /\ row \in TrainBars..(Rows - 1) /\ row # Rows - 1 /\ row \in Nat /\ row \in Row
  BY DEF BacktestInv, Decide, BookInv, BacktestTypeOK, Row, BacktestAssumption
<1> DEFINE used == IF fit # Unset /\ fit.row = BlockRow(row) THEN fit
                   ELSE FitBlock(BlockRow(row))
           direction == ChooseDirection(longOk, shortOk)
<1>2. /\ BlockRow(row) \in Nat
      /\ TrainBars <= BlockRow(row) /\ BlockRow(row) <= row /\ row < BlockRow(row) + Every
  BY <1>1, BlockHolds DEF BacktestAssumption
<1>3. used = FitBlock(BlockRow(row))
  BY <1>1 DEF FitInv
<1>4. fit' = used /\ pending' = (IF direction # Unset /\ MayQueue /\ session
                                 THEN [direction |-> direction, at |-> row, fit |-> used]
                                 ELSE pending)
  BY DEF Decide
<1>5. used \in Fit /\ used.row = BlockRow(row) /\ used.row \in Nat /\ 0 <= used.first
      /\ \A k \in used.first..(used.end - 1) : k + LabelHorizon <= used.row
  BY <1>2, <1>3, FitKnowsLabels
<1> HIDE DEF used
<1>6. direction # Unset => direction \in Direction
  BY DEF ChooseDirection, Direction
<1> HIDE DEF direction
<1>7. pending' # Unset =>
        /\ pending' = [direction |-> direction, at |-> row, fit |-> used]
        /\ direction \in Direction /\ open = {}
  BY <1>1, <1>4, <1>6 DEF MayQueue
<1>8. BacktestTypeOK'
  <2>1. pending' \in Order \cup {Unset}
    BY <1>1, <1>5, <1>7 DEF Order
  <2>2. row' \in Nat /\ row' \in TrainBars..(Rows - 1)
    BY <1>1 DEF BacktestAssumption
  <2>3. QED
    BY <1>1, <1>4, <1>5, <2>1, <2>2 DEF BacktestTypeOK, Phase
<1>9. BookInv'
  <2>1. \A p \in open : p.moved \in Nat
    BY <1>1 DEF BacktestTypeOK, Position, Row
  <2>2. QED
    BY <1>1, <1>7, <2>1 DEF BookInv
<1>10. JudgedInv' /\ EarlyStopIsFlat'
  BY <1>1 DEF JudgedInv, EarlyStopIsFlat
<1>11. FitInv'
  BY <1>2, <1>3, <1>4, <1>5 DEF FitInv, FitBlock
<1>12. LabelsAreKnown'
  BY <1>1, <1>2, <1>5, <1>7 DEF LabelsAreKnown
<1>13. FillsArePossible' /\ DecidesOnlyWhenAllowed'
  BY <1>1 DEF FillsArePossible, DecidesOnlyWhenAllowed
<1>14. QED
  BY <1>8, <1>9, <1>10, <1>11, <1>12, <1>13 DEF BacktestInv

\* The forced close empties the book of the symbol.
LEMMA ClosesKeep ==
  ASSUME BacktestAssumption, BacktestInv, NEW b \in PriceBar, ForceClose(b)
  PROVE  BacktestInv'
<1>1. /\ BacktestTypeOK /\ BookInv /\ JudgedInv /\ FitInv
      /\ phase = "close" /\ pending = Unset /\ exits = {} /\ open' = {}
      /\ UNCHANGED <<cooldown, exits, pending>>
      /\ Rows - 1 \in Row /\ sym \in 1..NumSymbols
  <2>1. row \in TrainBars..(Rows - 1)
    BY DEF BacktestInv, BacktestTypeOK, ForceClose
  <2>2. Rows - 1 \in Row
    BY <2>1 DEF Row, BacktestAssumption
  <2>3. QED
    BY <2>2 DEF BacktestInv, ForceClose, BookInv, BacktestTypeOK
<1>2. results' \subseteq Result
  <2>1. ASSUME NEW p \in open
        PROVE  [symbol |-> sym, at |-> Rows - 1,
                loss |-> Close(p, ExitReference(p, b)) < 0] \in Result
    BY <1>1 DEF Result
  <2>2. QED
    BY <1>1, <2>1 DEF ForceClose, BacktestTypeOK
<1>3. CASE sym = NumSymbols
  <2>1. phase' = "done" /\ UNCHANGED <<sym, row, judged, fit>>
    BY <1>3 DEF ForceClose
  <2>2. QED
    BY <1>1, <1>2, <2>1 DEF BacktestInv, BacktestTypeOK, BookInv, JudgedInv, FitInv, FitBlock,
      LabelsAreKnown, EarlyStopIsFlat, FillsArePossible, DecidesOnlyWhenAllowed, Phase
<1>4. CASE sym # NumSymbols
  <2>1. /\ phase' = "bar" /\ sym' = sym + 1 /\ row' = TrainBars /\ fit' = Unset
        /\ judged' = [closed |-> 0, seen |-> 0, stopped |-> FALSE]
    BY <1>4 DEF ForceClose
  <2>2. TrainBars \in Nat /\ TrainBars \in TrainBars..(Rows - 1)
    BY <1>1 DEF BacktestTypeOK, BacktestAssumption
  <2>3. sym' \in 1..NumSymbols
    BY <1>1, <1>4, <2>1 DEF BacktestAssumption
  <2>4. judged' \in [closed : Nat, seen : Nat, stopped : BOOLEAN]
        /\ judged'.closed = judged'.seen /\ ~judged'.stopped
    BY <2>1
  <2>5. BacktestTypeOK'
    BY <1>1, <1>2, <2>1, <2>2, <2>3, <2>4 DEF BacktestTypeOK, Phase
  <2>6. BookInv' /\ JudgedInv' /\ FitInv' /\ EarlyStopIsFlat'
    BY <1>1, <2>1, <2>4 DEF BookInv, JudgedInv, FitInv, EarlyStopIsFlat
  <2>7. LabelsAreKnown' /\ FillsArePossible' /\ DecidesOnlyWhenAllowed'
    BY <1>1, <2>1 DEF LabelsAreKnown, FillsArePossible, DecidesOnlyWhenAllowed
  <2>8. QED
    BY <2>5, <2>6, <2>7 DEF BacktestInv
<1>5. QED
  BY <1>3, <1>4

-----------------------------------------------------------------------------
(* The theorems.                                                           *)

\* The invariant of a replay.
THEOREM BacktestInvariant == BacktestSpec => []BacktestInv
<1>1. BacktestInit => BacktestInv
  BY BacktestAssumption, BacktestStarts
<1>2. BacktestInv /\ [BacktestNext]_backtestVars => BacktestInv'
  <2>1. SUFFICES ASSUME BacktestInv, [BacktestNext]_backtestVars PROVE BacktestInv'
    OBVIOUS
  <2>2. CASE UNCHANGED backtestVars
    BY <2>1, <2>2 DEF backtestVars, BacktestInv, BacktestTypeOK, BookInv, JudgedInv, FitInv,
      LabelsAreKnown, EarlyStopIsFlat, FillsArePossible, DecidesOnlyWhenAllowed,
      WatchdogLosses
  <2>3. CASE BacktestNext
    BY <2>1, <2>3, BacktestAssumption, BarsKeep, JudgingKeeps, GateKeeps, DecisionsKeep,
       ClosesKeep DEF BacktestNext
  <2>4. QED
    BY <2>1, <2>2, <2>3
<1>3. QED
  BY <1>1, <1>2, PTL DEF BacktestSpec

\* No order comes from a model that has seen the future.
THEOREM NoLookAhead == BacktestSpec => []LabelsAreKnown
<1>1. BacktestInv => LabelsAreKnown
  BY DEF BacktestInv
<1>2. QED
  BY <1>1, BacktestInvariant, PTL

\* A replay that is stopped early has nothing left to close.
THEOREM StoppedFlat == BacktestSpec => []EarlyStopIsFlat
<1>1. BacktestInv => EarlyStopIsFlat
  BY DEF BacktestInv
<1>2. QED
  BY <1>1, BacktestInvariant, PTL

\* Every fill is a price of its bar, by a stop that was there before the bar.
THEOREM FillsOfTheBar == BacktestSpec => []FillsArePossible
<1>1. BacktestInv => FillsArePossible
  BY DEF BacktestInv
<1>2. QED
  BY <1>1, BacktestInvariant, PTL

\* No bar decides through a drawdown or a losing streak.
THEOREM GateHolds == BacktestSpec => []DecidesOnlyWhenAllowed
<1>1. BacktestInv => DecidesOnlyWhenAllowed
  BY DEF BacktestInv
<1>2. QED
  BY <1>1, BacktestInvariant, PTL

=============================================================================
