----------------------- MODULE SeparateParts_proofs -----------------------
(* Proofs about the bandits (RiskController), for every pair of grids and   *)
(* every cooldown, and about the bars of a decision (BarFeed), for every    *)
(* lag, closed market and length of a bar; and that a part of SeparateParts *)
(* keeps its own specification, so that what is proved about it holds there *)
(* as well.                                                                 *)
EXTENDS SeparateParts, Backtest_proofs, BalanceFlows_proofs, ModelStaging_proofs,
        FiniteSetTheorems, WellFoundedInduction, TLAPS

-----------------------------------------------------------------------------
(* The bandits.                                                            *)

\* A change of one field leaves the others.
LEMMA FieldChanges ==
  ASSUME NEW c, Shaped(c), NEW v, NEW d,
         \/ d = [c EXCEPT !.grids = v] \/ d = [c EXCEPT !.losses = v]
         \/ d = [c EXCEPT !.lastAuc = v] \/ d = [c EXCEPT !.warmstarted = v]
         \/ d = [c EXCEPT !.atrUpdates = v] \/ d = [c EXCEPT !.probUpdates = v]
  PROVE  Shaped(d)
BY DEF Shaped

\* A change of the bandits leaves what the resets and the warm start are judged by.
LEMMA BanditsChange ==
  ASSUME NEW c, Shaped(c), NEW v, v = [b \in Bandit |-> v[b]],
         NEW d, d = [c EXCEPT !.bandits = v]
  PROVE  /\ Shaped(d) /\ d.bandits = v
         /\ d.grids = c.grids /\ d.resets = c.resets /\ d.lastReset = c.lastReset
         /\ d.warmstarted = c.warmstarted
BY DEF Shaped

\* What the adaptation of a state keeps of it.
Kept(c, d) ==
  /\ Shaped(d) /\ d.resets = c.resets /\ d.lastReset = c.lastReset
  /\ d.warmstarted = c.warmstarted
  /\ c.bandits["context"] = c.bandits["atr"] => d.bandits["context"] = d.bandits["atr"]

\* A grid that is replaced takes the evidence of the two stop bandits along alike.
LEMMA RegridKeeps ==
  ASSUME NEW c, Shaped(c), NEW p \in Param, NEW new
  PROVE  Kept(c, Regrid(c, p, new))
<1> DEFINE old == c.grids[p]
           b1 == [c.bandits EXCEPT ![p] = Transfer(@, old, new)]
           b2 == [b1 EXCEPT !["context"] = TransferContext(@, old, new)]
           v == IF p = "atr" THEN b2 ELSE b1
           g == [c.grids EXCEPT ![p] = new]
           e == [c EXCEPT !.grids = g]
           d == [e EXCEPT !.bandits = v]
<1>1. Regrid(c, p, new) = IF new = old THEN c ELSE d
  BY DEF Regrid
<1>2. v = [b \in Bandit |-> v[b]]
  BY DEF Shaped, Bandit, Param
<1>3. Shaped(e)
  BY FieldChanges
<1>4. c.bandits["context"] = c.bandits["atr"] => v["context"] = v["atr"]
  BY DEF Shaped, Bandit, Param, TransferContext
<1>5. e.resets = c.resets /\ e.lastReset = c.lastReset /\ e.warmstarted = c.warmstarted
  BY DEF Shaped
<1> HIDE DEF v, e
<1>6. /\ Shaped(d) /\ d.bandits = v /\ d.resets = e.resets /\ d.lastReset = e.lastReset
      /\ d.warmstarted = e.warmstarted
  BY <1>2, <1>3, BanditsChange
<1> HIDE DEF d
<1> QED
  BY <1>1, <1>4, <1>5, <1>6 DEF Kept

\* An adaptation changes the grids and what follows them, and counters.
LEMMA AdaptationsKeep ==
  ASSUME NEW c, Shaped(c), NEW d \in Adaptations(c)
  PROVE  Kept(c, d) /\ (~adaptive => d = c)
<1>0. ASSUME NEW x, NEW y, NEW z, Kept(x, y), Kept(y, z) PROVE Kept(x, z)
  BY <1>0 DEF Kept
<1>1. Kept(c, c)
  BY DEF Kept
<1>2. ASSUME NEW x, Kept(c, x), NEW y,
             y = [x EXCEPT !.atrUpdates = 0] \/ y = [x EXCEPT !.probUpdates = 0]
      PROVE  Kept(c, y)
  <2>1. Shaped(x)
    BY <1>2 DEF Kept
  <2>2. Shaped(y)
    BY <1>2, <2>1, FieldChanges
  <2>3. /\ y.resets = x.resets /\ y.lastReset = x.lastReset
        /\ y.warmstarted = x.warmstarted /\ y.bandits = x.bandits
    BY <1>2, <2>1 DEF Shaped
  <2> QED
    BY <1>2, <2>2, <2>3 DEF Kept
<1>3. ASSUME NEW x, Kept(c, x), NEW p \in Param, NEW new PROVE Kept(c, Regrid(x, p, new))
  <2>1. Shaped(x)
    BY <1>3 DEF Kept
  <2>2. Kept(x, Regrid(x, p, new))
    BY <2>1, RegridKeeps
  <2> QED
    BY <1>0, <1>3, <2>2
<1> DEFINE atr == IF c.atrUpdates < Interval THEN {c}
                  ELSE {[Regrid(c, "atr", g) EXCEPT !.atrUpdates = 0] :
                          g \in Refinements(c, "atr")}
           probs(x) == IF x.probUpdates < Interval THEN {x}
                       ELSE {[Regrid(Regrid(x, "long", g), "short", h) EXCEPT !.probUpdates = 0] :
                               g \in Refinements(x, "long"), h \in Refinements(x, "short")}
<1>4. d \in IF adaptive THEN UNION {probs(x) : x \in atr} ELSE {c}
  BY DEF Adaptations
<1>5. "atr" \in Param /\ "long" \in Param /\ "short" \in Param
  BY DEF Param
<1>6. ASSUME NEW x \in atr PROVE Kept(c, x)
  <2>1. ASSUME NEW g, x = [Regrid(c, "atr", g) EXCEPT !.atrUpdates = 0] PROVE Kept(c, x)
    <3>1. Kept(c, Regrid(c, "atr", g))
      BY <1>1, <1>3, <1>5
    <3> QED
      BY <1>2, <2>1, <3>1
  <2> QED
    BY <1>1, <1>6, <2>1
<1>7. ASSUME NEW x, Kept(c, x), NEW y \in probs(x) PROVE Kept(c, y)
  <2>1. CASE x.probUpdates < Interval
    BY <1>7, <2>1
  <2>2. CASE ~(x.probUpdates < Interval)
    <3>1. PICK g \in Refinements(x, "long"), h \in Refinements(x, "short") :
            y = [Regrid(Regrid(x, "long", g), "short", h) EXCEPT !.probUpdates = 0]
      BY <1>7, <2>2
    <3>2. Kept(c, Regrid(x, "long", g))
      BY <1>3, <1>5, <1>7
    <3>3. Kept(c, Regrid(Regrid(x, "long", g), "short", h))
      BY <1>3, <1>5, <3>2
    <3> QED
      BY <1>2, <3>1, <3>3
  <2> QED
    BY <2>1, <2>2
<1> HIDE DEF atr, probs
<1> QED
  BY <1>1, <1>4, <1>6, <1>7

\* A controller starts with all its fields.
LEMMA NewShaped ==
  LET c == [NewController EXCEPT !.bandits = Prior, !.grids = BacktestGrid, !.warmstarted = TRUE]
  IN  /\ Shaped(NewController) /\ Shaped(c)
      /\ c.bandits = Prior /\ c.resets = << >> /\ c.lastReset = Absent /\ c.warmstarted = TRUE
<1> DEFINE x == [NewController EXCEPT !.bandits = Prior]
           y == [x EXCEPT !.grids = BacktestGrid]
           z == [y EXCEPT !.warmstarted = TRUE]
           c == [NewController EXCEPT !.bandits = Prior, !.grids = BacktestGrid,
                                      !.warmstarted = TRUE]
<1>1. Prior = [b \in Bandit |-> Prior[b]]
  BY DEF Prior
<1>2. /\ Shaped(NewController) /\ NewController.resets = << >>
      /\ NewController.lastReset = Absent
  BY DEF Shaped, NewController, FreshBandits
<1>3. c = z
  OBVIOUS
<1>4. /\ Shaped(x) /\ x.bandits = Prior /\ x.resets = << >> /\ x.lastReset = Absent
  BY <1>1, <1>2, BanditsChange
<1> HIDE DEF x
<1>5. Shaped(y)
  BY <1>4, FieldChanges
<1>6. y.bandits = Prior /\ y.resets = << >> /\ y.lastReset = Absent
  BY <1>4 DEF Shaped
<1> HIDE DEF y
<1>7. Shaped(z)
  BY <1>5, FieldChanges
<1>8. /\ z.bandits = Prior /\ z.resets = << >> /\ z.lastReset = Absent
      /\ z.warmstarted = TRUE
  BY <1>5, <1>6 DEF Shaped
<1> HIDE DEF z
<1> QED
  BY <1>2, <1>3, <1>7, <1>8

\* What the warm start makes of a file.
LEMMA MergedFile ==
  ASSUME NEW d, Readable(d) => Shaped(d)
  PROVE  /\ Shaped(Merged(d))
         /\ ~Readable(d) => /\ Merged(d).resets = << >> /\ Merged(d).lastReset = Absent
                            /\ Merged(d).bandits = Prior /\ Merged(d).warmstarted = TRUE
         /\ Readable(d) => /\ Merged(d).resets = d.resets
                           /\ Merged(d).lastReset = d.lastReset
         /\ Readable(d) /\ d.warmstarted => Merged(d) = d
         /\ Readable(d) /\ ~d.warmstarted => /\ Merged(d).bandits = MergedBandits(d)
                                             /\ Merged(d).warmstarted = TRUE
<1>1. Merged(d) = IF ~Readable(d)
                  THEN [NewController EXCEPT !.bandits = Prior, !.grids = BacktestGrid,
                                             !.warmstarted = TRUE]
                  ELSE IF d.warmstarted THEN d
                  ELSE [d EXCEPT !.bandits = MergedBandits(d), !.warmstarted = TRUE]
  BY DEF Merged
<1>2. Prior = [b \in Bandit |-> Prior[b]]
  BY DEF Prior
<1>3. MergedBandits(d) = [b \in Bandit |-> MergedBandits(d)[b]]
  BY DEF MergedBandits
<1>4. CASE ~Readable(d)
  <2>1. Merged(d) = [NewController EXCEPT !.bandits = Prior, !.grids = BacktestGrid,
                                          !.warmstarted = TRUE]
    BY <1>1, <1>4
  <2>2. /\ Shaped(Merged(d)) /\ Merged(d).bandits = Prior /\ Merged(d).resets = << >>
        /\ Merged(d).lastReset = Absent /\ Merged(d).warmstarted = TRUE
    BY <1>2, <2>1, NewShaped
  <2> QED
    BY <1>4, <2>2
<1>5. CASE Readable(d) /\ d.warmstarted
  BY <1>1, <1>5
<1>6. CASE Readable(d) /\ ~d.warmstarted
  <2> DEFINE e == [d EXCEPT !.bandits = MergedBandits(d)]
             f == [e EXCEPT !.warmstarted = TRUE]
  <2>1. /\ Shaped(e) /\ e.bandits = MergedBandits(d)
        /\ e.resets = d.resets /\ e.lastReset = d.lastReset
    BY <1>3, <1>6, BanditsChange
  <2>2. Merged(d) = f
    BY <1>1, <1>6
  <2> HIDE DEF e
  <2>3. Shaped(f)
    BY <2>1, FieldChanges
  <2>4. /\ f.bandits = e.bandits /\ f.resets = e.resets
        /\ f.lastReset = e.lastReset /\ f.warmstarted = TRUE
    BY <2>1 DEF Shaped
  <2> HIDE DEF f
  <2> QED
    BY <1>6, <2>1, <2>2, <2>3, <2>4
<1> QED
  BY <1>4, <1>5, <1>6

\* The second update of a trade: the plain stop bandit and the threshold bandit of its
\* side.
CreditedBandits ==
  [ctl.bandits EXCEPT !["atr"] = CreditIfArm(@, learner.trade.arms["atr"]),
                      ![learner.trade.side] =
                        CreditIfArm(@, learner.trade.arms[learner.trade.side])]

\* The state after a trade is credited to the bandits.
Credited ==
  [ctl EXCEPT !.bandits = CreditedBandits, !.atrUpdates = @ + 1, !.probUpdates = @ + 1]

\* It has all its fields.
LEMMA CreditedShape ==
  ASSUME Shaped(ctl)
  PROVE  /\ Shaped(Credited) /\ Credited.bandits = CreditedBandits
         /\ Credited.resets = ctl.resets /\ Credited.lastReset = ctl.lastReset
         /\ Credited.warmstarted = ctl.warmstarted
         /\ LearnRest => /\ learner.at = "credit" /\ ctl' \in Adaptations(Credited)
                         /\ learner' = Rest
                         /\ UNCHANGED <<mode, adaptive, disk, decider, trades, taken,
                                        clock, model, starts>>
<1> DEFINE w == CreditedBandits
           x == [ctl EXCEPT !.bandits = w]
           y == [x EXCEPT !.atrUpdates = @ + 1]
           z == [y EXCEPT !.probUpdates = @ + 1]
<1>1. w = [b \in Bandit |-> w[b]]
  BY DEF Shaped, CreditedBandits
<1>2. Credited = z
  BY DEF Credited, Shaped
<1> HIDE DEF w
<1>3. /\ Shaped(x) /\ x.bandits = w /\ x.resets = ctl.resets /\ x.lastReset = ctl.lastReset
      /\ x.warmstarted = ctl.warmstarted
  BY <1>1, BanditsChange
<1> HIDE DEF x
<1>4. Shaped(y)
  BY <1>3, FieldChanges
<1>5. y.bandits = x.bandits /\ y.resets = x.resets /\ y.lastReset = x.lastReset /\ y.warmstarted = x.warmstarted
  BY <1>3 DEF Shaped
<1> HIDE DEF y
<1>6. Shaped(z)
  BY <1>4, FieldChanges
<1>7. z.bandits = y.bandits /\ z.resets = y.resets /\ z.lastReset = y.lastReset /\ z.warmstarted = y.warmstarted
  BY <1>4 DEF Shaped
<1> HIDE DEF z
<1>8. LearnRest => /\ learner.at = "credit" /\ ctl' \in Adaptations(Credited)
                   /\ learner' = Rest
                   /\ UNCHANGED <<mode, adaptive, disk, decider, trades, taken,
                                  clock, model, starts>>
  BY DEF LearnRest, Credited, CreditedBandits
<1> QED
  BY <1>2, <1>3, <1>5, <1>6, <1>7, <1>8 DEF w

\* The state keeps its fields, in memory and in the file.
LEMMA ShapeStep ==
  ASSUME WhereInv, [RiskNext]_riskVars
  PROVE  Shaped(ctl') /\ (Readable(disk') => Shaped(disk'))
<1>0. Shaped(ctl) /\ (Readable(disk) => Shaped(disk))
  BY DEF WhereInv
<1>1. ASSUME NEW drawdown \in BOOLEAN, CheckReset(drawdown) PROVE Shaped(ctl') /\ disk' = disk
  BY <1>0, <1>1, FieldChanges DEF CheckReset
<1>2. ASSUME ResetBandits PROVE Shaped(ctl') /\ disk' = disk
  <2>1. FreshBandits(ConfigGrid) = [b \in Bandit |-> FreshBandits(ConfigGrid)[b]]
    BY DEF FreshBandits
  <2> QED
    BY <1>0, <1>2, <2>1, BanditsChange DEF ResetBandits
<1>3. ASSUME ResetGrids PROVE Shaped(ctl') /\ disk' = disk
  BY <1>0, <1>3 DEF ResetGrids, Shaped
<1>4. ASSUME NEW sd \in TradeSide, NEW entered \in BOOLEAN, TakeTrade(sd, entered)
      PROVE  ctl' = ctl /\ disk' = disk
  BY <1>4 DEF TakeTrade
<1>5. ASSUME NEW tr \in trades, NEW won \in BOOLEAN, NEW risked \in BOOLEAN,
             LearnContext(tr, won, risked)
      PROVE  Shaped(ctl') /\ disk' = disk
  <2> DEFINE x == [ctl EXCEPT !.losses = IF won THEN 0 ELSE @ + 1]
             y == [x EXCEPT !.bandits["context"] = Credit(@, tr.arms["atr"])]
  <2>1. Shaped(x)
    BY <1>0, FieldChanges
  <2>2. ctl' \in {x, y} /\ disk' = disk
    BY <1>5 DEF LearnContext
  <2> HIDE DEF x
  <2>3. Shaped(y)
    BY <2>1 DEF Shaped
  <2> QED
    BY <2>1, <2>2, <2>3
<1>6. ASSUME LearnRest PROVE Shaped(ctl') /\ disk' = disk
  BY <1>0, <1>6, CreditedShape, AdaptationsKeep DEF LearnRest, Kept
<1>7. ASSUME SaveBandits PROVE ctl' = ctl /\ disk' = disk
  BY <1>7 DEF SaveBandits
<1>8. ASSUME WriteState PROVE Shaped(ctl') /\ (Readable(disk') => Shaped(disk'))
  <2> DEFINE v == [learner.saved EXCEPT !["context"] = ctl.bandits["context"]]
  <2>1. ctl' = ctl /\ (disk' = disk \/ disk' = [ctl EXCEPT !.bandits = v])
    BY <1>8 DEF WriteState
  <2>2. v = [b \in Bandit |-> v[b]]
    BY <1>8 DEF WriteState, WhereInv
  <2> HIDE DEF v
  <2> QED
    BY <1>0, <2>1, <2>2, BanditsChange
<1>9. ASSUME MergeWarmstart PROVE ctl' = ctl /\ (Readable(disk') => Shaped(disk'))
  BY <1>0, <1>9, MergedFile DEF MergeWarmstart
<1>10. ASSUME LoadState PROVE Shaped(ctl') /\ (Readable(disk') => Shaped(disk'))
  <2>1. Shaped(NewController)
    BY DEF Shaped, NewController, FreshBandits
  <2> QED
    BY <1>0, <1>10, <2>1 DEF LoadState, Readable
<1>11. ASSUME RestartController PROVE Shaped(ctl') /\ (Readable(disk') => Shaped(disk'))
  <2>1. Shaped(NewController)
    BY DEF Shaped, NewController, FreshBandits
  <2> QED
    BY <1>0, <1>11, <2>1 DEF RestartController, Readable
<1>12. ASSUME NextBar \/ (\E low \in BOOLEAN : NewModel(low)) \/ UNCHANGED riskVars
       PROVE  ctl' = ctl /\ disk' = disk
  BY <1>12 DEF NextBar, NewModel, riskVars
<1> QED
  BY <1>0, <1>1, <1>2, <1>3, <1>4, <1>5, <1>6, <1>7, <1>8, <1>9, <1>10, <1>11, <1>12
     DEF RiskNext

\* A start finds no decision under way; a backtest does one thing at a time.
LEMMA WhereStep ==
  ASSUME WhereInv, [RiskNext]_riskVars
  PROVE  WhereInv'
<1> DEFINE Goal ==
      /\ mode' \in Mode /\ adaptive' \in BOOLEAN /\ (adaptive' => mode' = "backtest")
      /\ decider' \in {"idle", "resetBandits", "resetGrids", "sample"}
      /\ learner' = [at |-> learner'.at, trade |-> learner'.trade, saved |-> learner'.saved]
      /\ learner'.at \in {"merge", "load", "loop", "credit", "write"}
      /\ ~Up' => decider' = "idle"
      /\ mode' = "backtest" => /\ learner'.at \in {"loop", "credit"} /\ disk' = Absent
                               /\ learner'.at = "credit" => decider' = "idle"
      /\ \A t \in trades' : t.side \in TradeSide
      /\ learner'.at = "credit" => learner'.trade.side \in TradeSide
      /\ learner'.at = "write" => learner'.saved = [b \in Bandit |-> learner'.saved[b]]
<1> USE DEF WhereInv, Up, Rest
<1>1. ASSUME NEW drawdown \in BOOLEAN, CheckReset(drawdown) PROVE Goal
  BY <1>1 DEF CheckReset, Quiet
<1>2. ASSUME ResetBandits \/ ResetGrids PROVE Goal
  BY <1>2 DEF ResetBandits, ResetGrids
<1>3. ASSUME NEW sd \in TradeSide, NEW entered \in BOOLEAN, TakeTrade(sd, entered)
      PROVE  Goal
  BY <1>3 DEF TakeTrade
<1>4. ASSUME NEW tr \in trades, NEW won \in BOOLEAN, NEW risked \in BOOLEAN,
             LearnContext(tr, won, risked)
      PROVE  Goal
  BY <1>4 DEF LearnContext
<1>5. ASSUME LearnRest PROVE Goal
  BY <1>5, CreditedShape
<1>6. ASSUME SaveBandits PROVE Goal
  BY <1>6 DEF SaveBandits, Shaped
<1>7. ASSUME WriteState PROVE Goal
  BY <1>7 DEF WriteState
<1>8. ASSUME MergeWarmstart \/ LoadState PROVE Goal
  BY <1>8 DEF MergeWarmstart, LoadState
<1>9. ASSUME RestartController PROVE Goal
  BY <1>9 DEF RestartController
<1>10. ASSUME NextBar \/ (\E low \in BOOLEAN : NewModel(low)) \/ UNCHANGED riskVars
       PROVE  Goal
  BY <1>10 DEF NextBar, NewModel, riskVars
<1>11. Goal
  <2> HIDE DEF Goal
  <2> QED
    BY <1>1, <1>2, <1>3, <1>4, <1>5, <1>6, <1>7, <1>8, <1>9, <1>10 DEF RiskNext
<1> QED
  BY <1>11, ShapeStep

\* What a step does to the resets behind a state: a reset is added where one was decided,
\* everything else copies a state that was there or starts anew.
LEMMA ResetsMove ==
  ASSUME WhereInv, [RiskNext]_riskVars
  PROVE  LET Same(c, d) == d.resets = c.resets /\ d.lastReset = c.lastReset
             Empty(d) == d.resets = << >> /\ d.lastReset = Absent
         IN  /\ \/ Same(ctl, ctl') \/ Empty(ctl') \/ (Readable(disk) /\ Same(disk, ctl'))
                \/ /\ ResetGrids
                   /\ ctl'.resets = Append(ctl.resets, clock) /\ ctl'.lastReset = clock
             /\ Readable(disk') =>
                  \/ Readable(disk) /\ Same(disk, disk')
                  \/ Same(ctl, disk') \/ Empty(disk')
             /\ decider' \in {"resetBandits", "resetGrids"} =>
                  /\ Same(ctl, ctl')
                  /\ decider \in {"resetBandits", "resetGrids"} \/ ~Cooling
<1> DEFINE Same(c, d) == d.resets = c.resets /\ d.lastReset = c.lastReset
           Empty(d) == d.resets = << >> /\ d.lastReset = Absent
           Goal == /\ \/ Same(ctl, ctl') \/ Empty(ctl') \/ (Readable(disk) /\ Same(disk, ctl'))
                      \/ /\ ResetGrids
                         /\ ctl'.resets = Append(ctl.resets, clock) /\ ctl'.lastReset = clock
                   /\ Readable(disk') =>
                        \/ Readable(disk) /\ Same(disk, disk')
                        \/ Same(ctl, disk') \/ Empty(disk')
                   /\ decider' \in {"resetBandits", "resetGrids"} =>
                        /\ Same(ctl, ctl')
                        /\ decider \in {"resetBandits", "resetGrids"} \/ ~Cooling
<1>0. Shaped(ctl) /\ (Readable(disk) => Shaped(disk))
  BY DEF WhereInv
<1>1. ASSUME NEW drawdown \in BOOLEAN, CheckReset(drawdown) PROVE Goal
  BY <1>0, <1>1 DEF CheckReset, Shaped
<1>2. ASSUME ResetBandits PROVE Goal
  BY <1>0, <1>2 DEF ResetBandits, Shaped
<1>3. ASSUME ResetGrids PROVE Goal
  BY <1>0, <1>3 DEF ResetGrids, Shaped
<1>4. ASSUME NEW tr \in trades, NEW won \in BOOLEAN, NEW risked \in BOOLEAN,
             LearnContext(tr, won, risked)
      PROVE  Goal
  BY <1>0, <1>4 DEF LearnContext, Shaped
<1>5. ASSUME LearnRest PROVE Goal
  <2>1. Kept(Credited, ctl')
    BY <1>0, <1>5, CreditedShape, AdaptationsKeep
  <2> QED
    BY <1>0, <1>5, <2>1, CreditedShape DEF Kept
<1>6. ASSUME WriteState PROVE Goal
  <2> DEFINE v == [learner.saved EXCEPT !["context"] = ctl.bandits["context"]]
             d == [ctl EXCEPT !.bandits = v]
  <2>1. ctl' = ctl /\ decider' = decider /\ (disk' = disk \/ disk' = d)
    BY <1>6 DEF WriteState
  <2> HIDE DEF v
  <2>2. d.resets = ctl.resets /\ d.lastReset = ctl.lastReset
    BY <1>0 DEF Shaped
  <2> HIDE DEF d
  <2> QED
    BY <2>1, <2>2
<1>7. ASSUME MergeWarmstart PROVE Goal
  <2>1. ctl' = ctl /\ decider' = decider /\ (disk' = disk \/ disk' = Merged(disk))
    BY <1>7 DEF MergeWarmstart
  <2>2. Empty(Merged(disk)) \/ (Readable(disk) /\ Same(disk, Merged(disk)))
    BY <1>0, MergedFile
  <2> QED
    BY <2>1, <2>2
<1>8. ASSUME LoadState PROVE Goal
  BY <1>0, <1>8 DEF LoadState, NewController, Readable, WhereInv, Up
<1>9. ASSUME RestartController PROVE Goal
  BY <1>0, <1>9 DEF RestartController, NewController, Readable
<1>10. ASSUME \/ \E sd \in TradeSide, entered \in BOOLEAN : TakeTrade(sd, entered)
              \/ SaveBandits \/ NextBar \/ (\E low \in BOOLEAN : NewModel(low))
              \/ UNCHANGED riskVars
       PROVE  Goal
  BY <1>10 DEF TakeTrade, SaveBandits, NextBar, NewModel, riskVars
<1>11. Goal
  <2> HIDE DEF Goal
  <2> QED
    BY <1>1, <1>2, <1>3, <1>4, <1>5, <1>6, <1>7, <1>8, <1>9, <1>10 DEF RiskNext
<1> QED
  BY <1>11

\* A longer list of resets ends in the new one.
LEMMA OneMoreReset ==
  ASSUME ControllerAssumption, clock \in Nat, ResetsOf(ctl, clock), ~Cooling,
         NEW d, d.resets = Append(ctl.resets, clock), d.lastReset = clock
  PROVE  ResetsOf(d, clock)
<1> DEFINE n == Len(ctl.resets)
<1>1. /\ ctl.resets \in Seq(Int) /\ n \in Nat /\ d.resets \in Seq(Int)
      /\ Len(d.resets) = n + 1 /\ d.resets[n + 1] = clock
      /\ \A i \in 1..n : d.resets[i] = ctl.resets[i]
  BY DEF ResetsOf
<1>2. n > 0 => clock >= ctl.resets[n] + ResetCooldown
  <2>1. ASSUME n > 0 PROVE ctl.lastReset = ctl.resets[n] /\ ctl.resets[n] \in Int
    BY <1>1, <2>1 DEF ResetsOf
  <2> QED
    BY <2>1 DEF Cooling, ControllerAssumption
<1>3. \A i \in 1..(n + 1) : d.resets[i] <= clock
  BY <1>1 DEF ResetsOf
<1>4. \A i \in 2..(n + 1) : d.resets[i] >= d.resets[i - 1] + ResetCooldown
  <2> TAKE i \in 2..(n + 1)
  <2>1. CASE i = n + 1
    BY <1>1, <1>2, <2>1
  <2>2. CASE i \in 2..n
    BY <1>1, <2>2 DEF ResetsOf
  <2> QED
    BY <1>1, <2>1, <2>2
<1>5. d.lastReset = d.resets[n + 1] /\ n + 1 # 0
  BY <1>1
<1> HIDE DEF n
<1> QED
  BY <1>1, <1>3, <1>4, <1>5 DEF ResetsOf

\* The clock does not go back.
LEMMA ClockGrows ==
  ASSUME [RiskNext]_riskVars, clock \in Nat
  PROVE  clock' \in Nat /\ clock' >= clock
<1>1. clock' = clock \/ clock' = clock + 1
  BY DEF RiskNext, riskVars, CheckReset, ResetBandits, ResetGrids, TakeTrade, LearnContext,
     LearnRest, SaveBandits, WriteState, MergeWarmstart, LoadState, RestartController, NextBar,
     NewModel
<1> QED
  BY <1>1

\* No step brings two resets closer than the cooldown.
LEMMA ResetStep ==
  ASSUME ControllerAssumption, WhereInv, ResetInv, [RiskNext]_riskVars
  PROVE  ResetInv'
<1>1. clock' \in Nat /\ clock' >= clock /\ clock \in Nat
  BY ClockGrows DEF ResetInv
<1>2. ASSUME NEW c, NEW d, d.resets = c.resets, d.lastReset = c.lastReset,
             ResetsOf(c, clock)
      PROVE  ResetsOf(d, clock')
  BY <1>1, <1>2 DEF ResetsOf
<1>3. ASSUME NEW d, d.resets = << >>, d.lastReset = Absent
      PROVE  ResetsOf(d, clock')
  BY <1>3 DEF ResetsOf
<1>4. ResetsOf(ctl, clock) /\ (Readable(disk) => ResetsOf(disk, clock))
  BY DEF ResetInv
<1>5. ResetsOf(ctl', clock')
  <2>1. CASE ResetGrids /\ ctl'.resets = Append(ctl.resets, clock) /\ ctl'.lastReset = clock
    <3>1. clock' = clock /\ ~Cooling
      BY <2>1 DEF ResetGrids, ResetInv
    <3> QED
      BY <1>1, <1>4, <2>1, <3>1, OneMoreReset
  <2> QED
    BY <1>2, <1>3, <1>4, <2>1, ResetsMove
<1>6. Readable(disk') => ResetsOf(disk', clock')
  BY <1>2, <1>3, <1>4, ResetsMove
<1>7. decider' \in {"resetBandits", "resetGrids"} => ~Cooling'
  <2> SUFFICES ASSUME decider' \in {"resetBandits", "resetGrids"}, ctl'.lastReset # Absent
               PROVE  clock' >= ctl'.lastReset + ResetCooldown
    BY <1>1, <1>5 DEF Cooling, ResetsOf, ControllerAssumption
  <2>1. ctl'.lastReset = ctl.lastReset /\ ~Cooling
    BY ResetsMove DEF ResetInv
  <2>2. ctl.lastReset \in Int
    BY <1>4, <2>1 DEF ResetsOf
  <2> QED
    BY <1>1, <2>1, <2>2 DEF Cooling, ControllerAssumption
<1> QED
  BY <1>1, <1>5, <1>6, <1>7 DEF ResetInv

\* The two stop bandits stay twins.
LEMMA TwinStep ==
  ASSUME WhereInv, TwinInv, [RiskNext]_riskVars
  PROVE  TwinInv'
<1> DEFINE Twins == ctl.bandits["context"] = ctl.bandits["atr"]
           Ahead == /\ learner.trade.arms["atr"] \in DOMAIN ctl.bandits["atr"]
                    /\ ctl.bandits["context"] =
                         Credit(ctl.bandits["atr"], learner.trade.arms["atr"])
           Goal == /\ learner'.at = "loop" => Twins'
                   /\ learner'.at = "credit" => Ahead'
<1>0. mode' = mode
  BY DEF RiskNext, riskVars, CheckReset, ResetBandits, ResetGrids, TakeTrade, LearnContext,
     LearnRest, SaveBandits, WriteState, MergeWarmstart, LoadState, RestartController, NextBar,
     NewModel
<1> SUFFICES ASSUME mode = "backtest" PROVE Goal
  BY <1>0 DEF TwinInv
<1>1. /\ Shaped(ctl) /\ learner.at \in {"loop", "credit"}
      /\ learner.at = "loop" => Twins
      /\ learner.at = "credit" => Ahead /\ decider = "idle"
  BY DEF WhereInv, TwinInv
<1>2. ASSUME learner' = learner, ctl'.bandits = ctl.bandits PROVE Goal
  BY <1>1, <1>2
<1>3. ASSUME NEW drawdown \in BOOLEAN, CheckReset(drawdown) PROVE Goal
  <2>1. learner' = learner /\ ctl'.bandits = ctl.bandits
    BY <1>1, <1>3 DEF CheckReset, Shaped
  <2> QED
    BY <1>2, <2>1
<1>4. ASSUME ResetBandits PROVE Goal
  <2>1. ctl'.bandits = FreshBandits(ConfigGrid) /\ learner' = learner /\ learner.at = "loop"
    BY <1>1, <1>4 DEF ResetBandits, Shaped
  <2> QED
    BY <2>1 DEF FreshBandits, GridOf, Bandit, Param
<1>5. ASSUME ResetGrids PROVE Goal
  <2>1. learner' = learner /\ ctl'.bandits = ctl.bandits
    BY <1>1, <1>5 DEF ResetGrids, Shaped
  <2> QED
    BY <1>2, <2>1
<1>6. ASSUME NEW tr \in trades, NEW won \in BOOLEAN, NEW risked \in BOOLEAN,
             LearnContext(tr, won, risked)
      PROVE  Goal
  <2> DEFINE arm == tr.arms["atr"]
             plain == ctl.bandits["atr"]
             x == [ctl EXCEPT !.losses = IF won THEN 0 ELSE @ + 1]
             y == [x EXCEPT !.bandits["context"] = Credit(@, arm)]
  <2>1. learner.at = "loop" /\ Twins
    BY <1>1, <1>6 DEF LearnContext
  <2>2. x.bandits = ctl.bandits
    BY <1>1 DEF Shaped
  <2>3. /\ y.bandits["context"] = Credit(ctl.bandits["context"], arm)
        /\ y.bandits["atr"] = plain
    BY <1>1, <2>2 DEF Shaped, Bandit, Param
  <2> HIDE DEF x, y
  <2>4. CASE ~(risked /\ arm \in DOMAIN ctl.bandits["context"])
    <3>1. ctl' = x /\ learner' = learner
      BY <1>6, <2>4 DEF LearnContext, x
    <3> QED
      BY <1>2, <2>2, <3>1
  <2>5. CASE risked /\ arm \in DOMAIN ctl.bandits["context"]
    <3>1. ctl' = y /\ learner'.at = "credit" /\ learner'.trade = tr
      BY <1>6, <2>5 DEF LearnContext, x, y, WhereInv
    <3> QED
      BY <2>1, <2>3, <2>5, <3>1
  <2> QED
    BY <2>4, <2>5
<1>7. ASSUME LearnRest PROVE Goal
  <2>1. learner.at = "credit" /\ learner' = Rest /\ Ahead /\ learner.trade.side \in TradeSide
    BY <1>1, <1>7, CreditedShape DEF WhereInv
  <2>2. CreditedBandits["context"] = CreditedBandits["atr"]
    BY <1>1, <2>1 DEF CreditedBandits, CreditIfArm, Shaped, Bandit, Param, TradeSide
  <2>3. Kept(Credited, ctl') /\ Credited.bandits = CreditedBandits
    BY <1>1, <1>7, CreditedShape, AdaptationsKeep
  <2> QED
    BY <2>1, <2>2, <2>3 DEF Kept, Rest
<1>8. ASSUME \/ SaveBandits \/ WriteState \/ MergeWarmstart \/ LoadState \/ RestartController
      PROVE  Goal
  BY <1>1, <1>8 DEF SaveBandits, WriteState, MergeWarmstart, LoadState, RestartController
<1>9. ASSUME \/ \E sd \in TradeSide, entered \in BOOLEAN : TakeTrade(sd, entered)
             \/ NextBar \/ (\E low \in BOOLEAN : NewModel(low))
             \/ UNCHANGED riskVars
      PROVE  Goal
  BY <1>2, <1>9 DEF TakeTrade, NextBar, NewModel, riskVars
<1> HIDE DEF Goal
<1> QED
  BY <1>3, <1>4, <1>5, <1>6, <1>7, <1>8, <1>9 DEF RiskNext

-----------------------------------------------------------------------------
\* A visit adds no prior.
LEMMA CreditPriors ==
  ASSUME NEW v, v = [b \in Bandit |-> v[b]], NEW w \in BOOLEAN, PriorsOf(v, w),
         NEW b \in Bandit, NEW i
  PROVE  /\ i \in DOMAIN v[b] => PriorsOf([v EXCEPT ![b] = Credit(@, i)], w)
         /\ PriorsOf([v EXCEPT ![b] = CreditIfArm(@, i)], w)
<1> DEFINE B == v[b]
           C == Credit(B, i)
<1>1. ASSUME i \in DOMAIN B PROVE PriorsOf([v EXCEPT ![b] = C], w)
  <2>1. /\ B = [j \in DOMAIN B |-> B[j]]
        /\ \A j \in DOMAIN B : B[j] \in [visits : Nat, prior : IF w THEN 0..1 ELSE {0}]
    BY DEF PriorsOf
  <2> HIDE DEF B
  <2>2. /\ C = [j \in DOMAIN C |-> C[j]] /\ DOMAIN C = DOMAIN B
        /\ \A j \in DOMAIN C : C[j] \in [visits : Nat, prior : IF w THEN 0..1 ELSE {0}]
    BY <1>1, <2>1 DEF Credit
  <2> HIDE DEF C
  <2> QED
    BY <2>2 DEF PriorsOf
<1>2. PriorsOf([v EXCEPT ![b] = B], w)
  BY DEF PriorsOf
<1> QED
  BY <1>1, <1>2 DEF CreditIfArm

\* Fresh bandits have no prior.
LEMMA FreshPriors ==
  ASSUME NEW w \in BOOLEAN, NEW grids
  PROVE  PriorsOf(FreshBandits(grids), w)
BY DEF PriorsOf, FreshBandits, Fresh

\* The evidence of the backtest is one prior for every arm.
LEMMA PriorPriors == PriorsOf(Prior, TRUE)
BY DEF PriorsOf, Prior

\* Added to bandits that had none, it is still one.
LEMMA MergedPriors ==
  ASSUME NEW d, PriorsOf(d.bandits, FALSE)
  PROVE  PriorsOf(MergedBandits(d), TRUE)
<1> SUFFICES ASSUME NEW b \in Bandit
             PROVE  LET M == MergedBandits(d)[b]
                    IN  /\ M = [i \in DOMAIN M |-> M[i]]
                        /\ \A i \in DOMAIN M : M[i] \in [visits : Nat, prior : 0..1]
  BY DEF PriorsOf
<1> DEFINE M == MergedBandits(d)[b]
           B == d.bandits[b]
           P == Prior[b]
<1>1. /\ B = [i \in DOMAIN B |-> B[i]]
      /\ \A i \in DOMAIN B : B[i] \in [visits : Nat, prior : {0}]
  BY DEF PriorsOf
<1>2. \A i \in DOMAIN P : P[i] = [visits |-> 0, prior |-> 1]
  BY DEF Prior
<1>3. M = IF d.grids[GridOf(b)] # BacktestGrid[GridOf(b)] THEN B
          ELSE [i \in DOMAIN B \cup DOMAIN P |-> Added(ArmOf(B, i), ArmOf(P, i))]
  BY DEF MergedBandits
<1>4. ASSUME NEW i
      PROVE  Added(ArmOf(B, i), ArmOf(P, i)) \in [visits : Nat, prior : 0..1]
  <2>1. ArmOf(B, i) \in [visits : Nat, prior : {0}]
    BY <1>1 DEF ArmOf
  <2>2. ArmOf(P, i) \in [visits : {0}, prior : 0..1]
    BY <1>2 DEF ArmOf
  <2> HIDE DEF B, P
  <2> QED
    BY <2>1, <2>2 DEF Added
<1> HIDE DEF M, B, P
<1>5. CASE d.grids[GridOf(b)] # BacktestGrid[GridOf(b)]
  <2>1. M = B
    BY <1>3, <1>5
  <2>2. \A i \in DOMAIN B : B[i] \in [visits : Nat, prior : 0..1]
    BY <1>1
  <2> QED
    BY <1>1, <2>1, <2>2 DEF M
<1>6. CASE ~(d.grids[GridOf(b)] # BacktestGrid[GridOf(b)])
  BY <1>3, <1>4, <1>6 DEF M
<1> QED
  BY <1>5, <1>6

\* No step gives an arm a second prior, or a first one without the mark.
LEMMA PriorStep ==
  ASSUME WhereInv, PriorInv, [RiskNext]_riskVars
  PROVE  PriorInv'
<1> DEFINE Goal == /\ ctl'.warmstarted \in BOOLEAN /\ PriorsOf(ctl'.bandits, ctl'.warmstarted)
                   /\ Readable(disk') => /\ disk'.warmstarted \in BOOLEAN
                                         /\ PriorsOf(disk'.bandits, disk'.warmstarted)
                   /\ learner'.at = "write" => PriorsOf(learner'.saved, ctl'.warmstarted)
<1>0. mode' = mode
  BY DEF RiskNext, riskVars, CheckReset, ResetBandits, ResetGrids, TakeTrade, LearnContext,
     LearnRest, SaveBandits, WriteState, MergeWarmstart, LoadState, RestartController, NextBar,
     NewModel
<1>00. PriorInv' <=> (mode' = "live" => Goal)
  BY DEF PriorInv, PriorsOf, Readable
<1> SUFFICES ASSUME mode = "live" PROVE Goal
  BY <1>0, <1>00
<1>1. /\ Shaped(ctl) /\ (Readable(disk) => Shaped(disk)) /\ ~adaptive
      /\ ctl.warmstarted \in BOOLEAN /\ PriorsOf(ctl.bandits, ctl.warmstarted)
      /\ Readable(disk) => /\ disk.warmstarted \in BOOLEAN
                           /\ PriorsOf(disk.bandits, disk.warmstarted)
      /\ learner.at = "write" => /\ PriorsOf(learner.saved, ctl.warmstarted)
                                 /\ learner.saved = [b \in Bandit |-> learner.saved[b]]
  BY DEF WhereInv, PriorInv
<1>2. ASSUME PriorsOf(ctl'.bandits, ctl.warmstarted), ctl'.warmstarted = ctl.warmstarted,
             disk' = disk, learner'.at = "write" => learner' = learner
      PROVE  Goal
  BY <1>1, <1>2
<1>3. ASSUME NEW drawdown \in BOOLEAN, CheckReset(drawdown) PROVE Goal
  <2>1. ctl'.bandits = ctl.bandits /\ ctl'.warmstarted = ctl.warmstarted
    BY <1>1, <1>3 DEF CheckReset, Shaped
  <2> QED
    BY <1>1, <1>2, <1>3, <2>1 DEF CheckReset
<1>4. ASSUME ResetBandits PROVE Goal
  <2>1. ctl'.bandits = FreshBandits(ConfigGrid) /\ ctl'.warmstarted = ctl.warmstarted
    BY <1>1, <1>4 DEF ResetBandits, Shaped
  <2>2. PriorsOf(FreshBandits(ConfigGrid), ctl.warmstarted)
    BY <1>1, FreshPriors
  <2> QED
    BY <1>2, <1>4, <2>1, <2>2 DEF ResetBandits
<1>5. ASSUME ResetGrids PROVE Goal
  <2>1. ctl'.bandits = ctl.bandits /\ ctl'.warmstarted = ctl.warmstarted
    BY <1>1, <1>5 DEF ResetGrids, Shaped
  <2> QED
    BY <1>1, <1>2, <1>5, <2>1 DEF ResetGrids
<1>6. ASSUME NEW tr \in trades, NEW won \in BOOLEAN, NEW risked \in BOOLEAN,
             LearnContext(tr, won, risked)
      PROVE  Goal
  <2> DEFINE arm == tr.arms["atr"]
             x == [ctl EXCEPT !.losses = IF won THEN 0 ELSE @ + 1]
             y == [x EXCEPT !.bandits["context"] = Credit(@, arm)]
             v == [ctl.bandits EXCEPT !["context"] = Credit(@, arm)]
  <2>1. x.bandits = ctl.bandits /\ x.warmstarted = ctl.warmstarted /\ Shaped(x)
    BY <1>1, FieldChanges DEF Shaped
  <2>2. y.bandits = v /\ y.warmstarted = ctl.warmstarted
    BY <2>1 DEF Shaped
  <2>3. arm \in DOMAIN ctl.bandits["context"] => PriorsOf(v, ctl.warmstarted)
    BY <1>1, CreditPriors DEF Shaped, Bandit
  <2> HIDE DEF v
  <2>4. ctl' = x \/ (ctl' = y /\ arm \in DOMAIN ctl.bandits["context"])
    BY <1>6 DEF LearnContext
  <2> HIDE DEF x, y
  <2>5. PriorsOf(ctl'.bandits, ctl.warmstarted) /\ ctl'.warmstarted = ctl.warmstarted
    BY <1>1, <2>1, <2>2, <2>3, <2>4
  <2>6. disk' = disk /\ learner'.at # "write"
    BY <1>6 DEF LearnContext, WhereInv
  <2> QED
    BY <1>2, <2>5, <2>6
<1>7. ASSUME LearnRest PROVE Goal
  <2>1. ctl' = Credited /\ learner' = Rest /\ disk' = disk
    BY <1>1, <1>7, CreditedShape, AdaptationsKeep
  <2>2. ctl'.bandits = CreditedBandits /\ ctl'.warmstarted = ctl.warmstarted
    BY <1>1, <2>1, CreditedShape
  <2>3. PriorsOf(CreditedBandits, ctl.warmstarted)
    <3> DEFINE v == [ctl.bandits EXCEPT !["atr"] = CreditIfArm(@, learner.trade.arms["atr"])]
               w == [v EXCEPT ![learner.trade.side] =
                                CreditIfArm(@, learner.trade.arms[learner.trade.side])]
    <3>1. ctl.bandits = [b \in Bandit |-> ctl.bandits[b]] /\ "atr" \in Bandit
          /\ learner.trade.side \in Bandit
      BY <1>1, <1>7, CreditedShape DEF Shaped, WhereInv, TradeSide, Bandit, Param
    <3>2. v = [b \in Bandit |-> v[b]] /\ PriorsOf(v, ctl.warmstarted)
      BY <1>1, <3>1, CreditPriors
    <3>3. CreditedBandits = w
      BY DEF CreditedBandits
    <3> HIDE DEF v
    <3>4. PriorsOf(w, ctl.warmstarted)
      BY <1>1, <3>1, <3>2, CreditPriors
    <3> HIDE DEF w
    <3> QED
      BY <3>3, <3>4
  <2> QED
    BY <1>2, <2>1, <2>2, <2>3 DEF Rest
<1>8. ASSUME SaveBandits PROVE Goal
  <2>1. ctl' = ctl /\ disk' = disk /\ learner'.saved = ctl.bandits
    BY <1>8 DEF SaveBandits, WhereInv
  <2> QED
    BY <1>1, <2>1
<1>9. ASSUME WriteState PROVE Goal
  <2> DEFINE v == [learner.saved EXCEPT !["context"] = ctl.bandits["context"]]
             d == [ctl EXCEPT !.bandits = v]
  <2>1. /\ ctl' = ctl /\ (disk' = disk \/ disk' = d) /\ learner.at = "write"
        /\ learner' = Rest
    BY <1>9 DEF WriteState
  <2>2. v = [b \in Bandit |-> v[b]] /\ PriorsOf(v, ctl.warmstarted)
    BY <1>1, <2>1 DEF PriorsOf, Bandit
  <2> HIDE DEF v
  <2>3. d.bandits = v /\ d.warmstarted = ctl.warmstarted
    BY <1>1, <2>2, BanditsChange
  <2> HIDE DEF d
  <2> QED
    BY <1>1, <2>1, <2>2, <2>3 DEF Rest
<1>10. ASSUME MergeWarmstart PROVE Goal
  <2>1. ctl' = ctl /\ (disk' = disk \/ disk' = Merged(disk)) /\ learner'.at = "load"
    BY <1>10 DEF MergeWarmstart, WhereInv
  <2>2. Merged(disk).warmstarted \in BOOLEAN
        /\ PriorsOf(Merged(disk).bandits, Merged(disk).warmstarted)
    <3>1. CASE ~Readable(disk)
      BY <1>1, <3>1, MergedFile, PriorPriors
    <3>2. CASE Readable(disk) /\ disk.warmstarted
      BY <1>1, <3>2, MergedFile
    <3>3. CASE Readable(disk) /\ ~disk.warmstarted
      <4>1. PriorsOf(disk.bandits, FALSE)
        BY <1>1, <3>3
      <4> QED
        BY <1>1, <3>3, <4>1, MergedFile, MergedPriors
    <3> QED
      BY <3>1, <3>2, <3>3
  <2> QED
    BY <1>1, <2>1, <2>2
<1>11. PriorsOf(NewController.bandits, NewController.warmstarted)
       /\ NewController.warmstarted = FALSE
  <2>1. /\ NewController.bandits = FreshBandits(ConfigGrid)
        /\ NewController.warmstarted = FALSE
    BY DEF NewController
  <2> QED
    BY <2>1, FreshPriors
<1>12. ASSUME LoadState PROVE Goal
  BY <1>1, <1>11, <1>12 DEF LoadState, Readable, Rest
<1>13. ASSUME RestartController PROVE Goal
  BY <1>1, <1>11, <1>13 DEF RestartController, Readable, Rest
<1>14. ASSUME \/ \E sd \in TradeSide, entered \in BOOLEAN : TakeTrade(sd, entered)
              \/ NextBar \/ (\E low \in BOOLEAN : NewModel(low))
              \/ UNCHANGED riskVars
       PROVE  Goal
  <2>1. ctl' = ctl /\ disk' = disk /\ learner' = learner
    BY <1>14 DEF TakeTrade, NextBar, NewModel, riskVars
  <2> QED
    BY <1>1, <2>1
<1> HIDE DEF Goal
<1> QED
  BY <1>3, <1>4, <1>5, <1>6, <1>7, <1>8, <1>9, <1>10, <1>12, <1>13, <1>14 DEF RiskNext

-----------------------------------------------------------------------------
(* The theorems about the bandits.                                         *)

\* The invariant of the bandits' state: where the threads are, and why each property
\* holds.
BanditsInv == WhereInv /\ ResetInv /\ TwinInv /\ PriorInv

\* It holds at the start.
LEMMA BanditsStart == RiskInit => BanditsInv
<1> SUFFICES ASSUME RiskInit PROVE BanditsInv
  OBVIOUS
<1>1. Shaped(NewController) /\ ~Readable(Absent)
  BY NewShaped DEF Readable
<1>2. WhereInv
  BY <1>1 DEF RiskInit, WhereInv, Rest, Up, Mode
<1>3. ResetInv
  BY <1>1 DEF RiskInit, ResetInv, ResetsOf, NewController
<1>4. TwinInv
  BY DEF RiskInit, TwinInv, NewController, FreshBandits, GridOf, Bandit, Param, Rest
<1>5. PriorInv
  <2>1. ctl.bandits = FreshBandits(ConfigGrid) /\ ctl.warmstarted = FALSE
    BY DEF RiskInit, NewController
  <2>2. learner.at # "write" /\ ~Readable(disk)
    BY <1>1 DEF RiskInit, Rest
  <2> QED
    BY <2>1, <2>2, FreshPriors DEF PriorInv
<1> QED
  BY <1>2, <1>3, <1>4, <1>5 DEF BanditsInv

\* BanditsInv holds in every reachable state.
THEOREM BanditsInvariant == RiskSpec => []BanditsInv
<1>1. BanditsInv /\ [RiskNext]_riskVars => BanditsInv'
  BY ControllerAssumption, WhereStep, ResetStep, TwinStep, PriorStep DEF BanditsInv
<1> QED
  BY <1>1, BanditsStart, PTL DEF RiskSpec

\* Between two resets of what the bandits know lies a cooldown, over any number of
\* restarts (risk_controller.py:805-813).
THEOREM ResetsStayApart == RiskSpec => []ResetsApart
<1>1. BanditsInv => ResetsApart
  BY DEF BanditsInv, ResetInv, ResetsOf, ResetsApart
<1> QED
  BY <1>1, BanditsInvariant, PTL

\* In a backtest the stop bandit that chooses and the one that is asked how much is
\* known tell the same story, for every grid and every adaptation.
THEOREM TwinsAgree == RiskSpec => []TwinBandits
<1>1. BanditsInv => TwinBandits
  BY DEF BanditsInv, TwinInv, TwinBandits, AtRest
<1> QED
  BY <1>1, BanditsInvariant, PTL

\* Bandits whose priors are in order hold the evidence of a backtest at most once.
LEMMA PriorsAtMostOnce ==
  ASSUME NEW v, NEW w \in BOOLEAN, PriorsOf(v, w), NEW b \in Bandit, NEW i \in DOMAIN v[b]
  PROVE  v[b][i].prior <= 1
<1>1. v[b][i].prior \in (IF w THEN 0..1 ELSE {0})
  <2> DEFINE P == IF w THEN 0..1 ELSE {0}
  <2>1. v[b][i] \in [visits : Nat, prior : P]
    BY DEF PriorsOf
  <2> HIDE DEF P
  <2>2. v[b][i].prior \in P
    BY <2>1
  <2> QED
    BY <2>2 DEF P
<1> QED
  BY <1>1

\* The evidence of a backtest counts once, whatever saves fail and files are damaged, for
\* every pair of grids (bandit_warmstart.py:186-188).
THEOREM PriorsCount == RiskSpec => []PriorsCountedOnce
<1>1. BanditsInv => PriorsCountedOnce
  <2> SUFFICES ASSUME BanditsInv, mode = "live"
               PROVE  PriorsCountedOnce
    BY DEF PriorsCountedOnce
  <2>1. \A b \in Bandit : \A i \in DOMAIN ctl.bandits[b] : ctl.bandits[b][i].prior <= 1
    BY PriorsAtMostOnce DEF BanditsInv, PriorInv
  <2>2. Readable(disk) => \A b \in Bandit : \A i \in DOMAIN disk.bandits[b] :
                            disk.bandits[b][i].prior <= 1
    BY PriorsAtMostOnce DEF BanditsInv, PriorInv
  <2> QED
    BY <2>1, <2>2 DEF PriorsCountedOnce
<1> QED
  BY <1>1, BanditsInvariant, PTL

-----------------------------------------------------------------------------
(* An arm has a value in its grid.                                          *)

\* A state with a bandit for every grid, each with the arms of its grid.
Matched(c) == Shaped(c) /\ DOMAIN c.grids = Param /\ ArmsMatch(c)

\* As many arms as before, for the same grids.
SameArms(c, d) ==
  d.grids = c.grids /\ \A b \in Bandit : DOMAIN d.bandits[b] = DOMAIN c.bandits[b]

\* A bandit is given the arms of the grid that replaces its own.
LEMMA RegridFits ==
  ASSUME NEW c, Matched(c), NEW p \in Param, NEW new
  PROVE  Matched(Regrid(c, p, new))
<1> DEFINE old == c.grids[p]
           b1 == [c.bandits EXCEPT ![p] = Transfer(@, old, new)]
           b2 == [b1 EXCEPT !["context"] = TransferContext(@, old, new)]
           v == IF p = "atr" THEN b2 ELSE b1
           g == [c.grids EXCEPT ![p] = new]
           e == [c EXCEPT !.grids = g]
           d == [e EXCEPT !.bandits = v]
<1>1. Regrid(c, p, new) = IF new = old THEN c ELSE d
  BY DEF Regrid
<1>2. v = [b \in Bandit |-> v[b]]
  BY DEF Matched, Shaped, Bandit, Param
<1>3. Shaped(e) /\ e.grids = g
  BY FieldChanges DEF Matched, Shaped
<1>4. DOMAIN g = Param /\ g[p] = new /\ \A q \in Param \ {p} : g[q] = c.grids[q]
  BY DEF Matched
<1>5. ASSUME NEW b \in Bandit PROVE DOMAIN v[b] = DOMAIN g[GridOf(b)]
  <2>1. GridOf(b) \in Param /\ (b # "context" => GridOf(b) = b)
    BY DEF GridOf, Bandit, Param
  <2>2. DOMAIN Transfer(c.bandits[b], old, new) = DOMAIN new
    BY DEF Transfer
  <2>3. v[b] = IF GridOf(b) = p THEN Transfer(c.bandits[b], old, new) ELSE c.bandits[b]
    BY DEF Matched, Shaped, GridOf, Bandit, Param, TransferContext
  <2>4. DOMAIN c.bandits[b] = DOMAIN c.grids[GridOf(b)]
    BY DEF Matched, ArmsMatch
  <2> HIDE DEF v, g
  <2> QED
    BY <1>4, <2>1, <2>2, <2>3, <2>4
<1> HIDE DEF v, g, e
<1>6. Shaped(d) /\ d.bandits = v /\ d.grids = g
  BY <1>2, <1>3, BanditsChange
<1> HIDE DEF d
<1> QED
  BY <1>1, <1>4, <1>5, <1>6 DEF Matched, ArmsMatch

\* So an adaptation leaves no arm without a value.
LEMMA AdaptationsFit ==
  ASSUME NEW c, Matched(c), NEW d \in Adaptations(c)
  PROVE  Matched(d)
<1>1. ASSUME NEW x, Matched(x), NEW y,
             y = [x EXCEPT !.atrUpdates = 0] \/ y = [x EXCEPT !.probUpdates = 0]
      PROVE  Matched(y)
  <2>1. Shaped(x) /\ Shaped(y)
    BY <1>1, FieldChanges DEF Matched
  <2>2. y.bandits = x.bandits /\ y.grids = x.grids
    BY <1>1, <2>1 DEF Shaped
  <2> QED
    BY <1>1, <2>1, <2>2 DEF Matched, ArmsMatch
<1> DEFINE atr == IF c.atrUpdates < Interval THEN {c}
                  ELSE {[Regrid(c, "atr", g) EXCEPT !.atrUpdates = 0] :
                          g \in Refinements(c, "atr")}
           probs(x) == IF x.probUpdates < Interval THEN {x}
                       ELSE {[Regrid(Regrid(x, "long", g), "short", h) EXCEPT !.probUpdates = 0] :
                               g \in Refinements(x, "long"), h \in Refinements(x, "short")}
<1>2. d \in IF adaptive THEN UNION {probs(x) : x \in atr} ELSE {c}
  BY DEF Adaptations
<1>3. "atr" \in Param /\ "long" \in Param /\ "short" \in Param
  BY DEF Param
<1>4. ASSUME NEW x \in atr PROVE Matched(x)
  <2>1. ASSUME NEW g, x = [Regrid(c, "atr", g) EXCEPT !.atrUpdates = 0] PROVE Matched(x)
    <3>1. Matched(Regrid(c, "atr", g))
      BY <1>3, RegridFits
    <3> QED
      BY <1>1, <2>1, <3>1
  <2> QED
    BY <1>4, <2>1
<1>5. ASSUME NEW x, Matched(x), NEW y \in probs(x) PROVE Matched(y)
  <2>1. CASE x.probUpdates < Interval
    BY <1>5, <2>1
  <2>2. CASE ~(x.probUpdates < Interval)
    <3>1. PICK g \in Refinements(x, "long"), h \in Refinements(x, "short") :
            y = [Regrid(Regrid(x, "long", g), "short", h) EXCEPT !.probUpdates = 0]
      BY <1>5, <2>2
    <3>2. Matched(Regrid(x, "long", g))
      BY <1>3, <1>5, RegridFits
    <3>3. Matched(Regrid(Regrid(x, "long", g), "short", h))
      BY <1>3, <3>2, RegridFits
    <3> QED
      BY <1>1, <3>1, <3>3
  <2> QED
    BY <2>1, <2>2
<1> HIDE DEF atr, probs
<1> QED
  BY <1>2, <1>4, <1>5

\* A bandit for every configured value.
LEMMA FreshFits ==
  /\ Configured(FreshBandits(ConfigGrid)) /\ Matched(NewController)
  /\ NewController.bandits = FreshBandits(ConfigGrid)
<1>1. \A b \in Bandit : FreshBandits(ConfigGrid)[b] = Fresh(ConfigGrid[GridOf(b)])
  BY DEF FreshBandits
<1>2. \A b \in Bandit : DOMAIN FreshBandits(ConfigGrid)[b] = DOMAIN ConfigGrid[GridOf(b)]
  BY <1>1 DEF Fresh
<1>3. /\ NewController.bandits = FreshBandits(ConfigGrid)
      /\ NewController.grids = ConfigGrid
  BY DEF NewController
<1> QED
  BY <1>2, <1>3, NewShaped, ControllerAssumption DEF Matched, ArmsMatch, Configured

\* Crediting a trade adds no arm.
LEMMA CreditedArms ==
  ASSUME WhereInv, learner.at = "credit"
  PROVE  SameArms(ctl, Credited)
<1>1. \A v, i : DOMAIN CreditIfArm(v, i) = DOMAIN v
  BY DEF CreditIfArm, Credit
<1>2. \A b \in Bandit : DOMAIN CreditedBandits[b] = DOMAIN ctl.bandits[b]
  BY <1>1 DEF CreditedBandits, WhereInv, Shaped, TradeSide, Bandit, Param
<1>3. Credited.grids = ctl.grids
  BY DEF Credited, WhereInv, Shaped
<1>4. Credited.bandits = CreditedBandits
  BY CreditedShape DEF WhereInv
<1> QED
  BY <1>2, <1>3, <1>4 DEF SameArms

\* The grids of a file that was warm-started are its own, or the backtest's.
LEMMA MergedGrids ==
  ASSUME NEW d, Readable(d) => Shaped(d)
  PROVE  Merged(d).grids = IF Readable(d) THEN d.grids ELSE BacktestGrid
<1>1. Merged(d) = IF ~Readable(d)
                  THEN [NewController EXCEPT !.bandits = Prior, !.grids = BacktestGrid,
                                             !.warmstarted = TRUE]
                  ELSE IF d.warmstarted THEN d
                  ELSE [d EXCEPT !.bandits = MergedBandits(d), !.warmstarted = TRUE]
  BY DEF Merged
<1>2. CASE Readable(d)
  BY <1>1, <1>2 DEF Shaped
<1>3. CASE ~Readable(d)
  BY <1>1, <1>3 DEF NewController
<1> QED
  BY <1>2, <1>3

\* The warm start adds no arm as long as the newest backtest has the configured number.
LEMMA MergedFits ==
  ASSUME NEW d, SameLengths,
         Readable(d) => Matched(d) /\ Configured(d.bandits)
  PROVE  Matched(Merged(d)) /\ Configured(Merged(d).bandits)
<1>1. \A b \in Bandit : GridOf(b) \in Param
  BY DEF GridOf, Bandit, Param
<1>2. \A b \in Bandit : /\ DOMAIN Prior[b] = DOMAIN BacktestGrid[GridOf(b)]
                        /\ DOMAIN Prior[b] = DOMAIN ConfigGrid[GridOf(b)]
  BY <1>1 DEF Prior, SameLengths
<1>3. Shaped(Merged(d))
  BY MergedFile DEF Matched
<1>4. CASE ~Readable(d)
  <2>1. Merged(d).bandits = Prior
    BY <1>4, MergedFile DEF Matched
  <2>2. Merged(d).grids = BacktestGrid
    BY <1>4, MergedGrids
  <2> QED
    BY <1>2, <1>3, <2>1, <2>2, ControllerAssumption DEF Matched, ArmsMatch, Configured
<1>5. CASE Readable(d) /\ d.warmstarted
  BY <1>5, MergedFile DEF Matched
<1>6. CASE Readable(d) /\ ~d.warmstarted
  <2>1. Merged(d).bandits = MergedBandits(d)
    BY <1>6, MergedFile DEF Matched
  <2>2. Merged(d).grids = d.grids
    BY <1>6, MergedGrids DEF Matched
  <2>3. ASSUME NEW b \in Bandit
        PROVE  DOMAIN MergedBandits(d)[b] = DOMAIN ConfigGrid[GridOf(b)]
    <3>1. DOMAIN d.bandits[b] = DOMAIN ConfigGrid[GridOf(b)]
      BY <1>6 DEF Configured
    <3>2. MergedBandits(d)[b] =
            IF d.grids[GridOf(b)] # BacktestGrid[GridOf(b)] THEN d.bandits[b]
            ELSE [i \in DOMAIN d.bandits[b] \cup DOMAIN Prior[b] |->
                    Added(ArmOf(d.bandits[b], i), ArmOf(Prior[b], i))]
      BY DEF MergedBandits
    <3> QED
      BY <1>2, <3>1, <3>2
  <2>4. \A b \in Bandit : DOMAIN d.grids[GridOf(b)] = DOMAIN ConfigGrid[GridOf(b)]
    BY <1>6 DEF Matched, ArmsMatch, Configured
  <2> QED
    BY <1>3, <1>6, <2>1, <2>2, <2>3, <2>4 DEF Matched, ArmsMatch, Configured
<1> QED
  BY <1>4, <1>5, <1>6

\* As many arms for the same grids fit as before.
LEMMA SameArmsFit ==
  ASSUME NEW c, NEW d, SameArms(c, d)
  PROVE  /\ DOMAIN c.grids = Param => DOMAIN d.grids = Param
         /\ ArmsMatch(c) => ArmsMatch(d)
         /\ Configured(c.bandits) => Configured(d.bandits)
BY DEF SameArms, ArmsMatch, Configured

\* Arms stay matched with their grids.
LEMMA ArmsStep ==
  ASSUME WhereInv, ArmsInv, [RiskNext]_riskVars
  PROVE  ArmsInv'
<1> DEFINE Live == mode = "live" /\ SameLengths
           FileFits == Readable(disk) => Matched(disk) /\ Configured(disk.bandits)
           HalfFits == learner.at = "write" => Configured(learner.saved)
           GridsKnown == DOMAIN ctl.grids = Param /\ (Readable(disk) => DOMAIN disk.grids = Param)
           Goal == /\ GridsKnown'
                   /\ mode = "backtest" => IF decider' = "resetGrids" THEN Configured(ctl'.bandits)
                                                                      ELSE ArmsMatch(ctl')
                   /\ Live => /\ Configured(ctl'.bandits) /\ ArmsMatch(ctl')
                              /\ FileFits' /\ HalfFits'
<1>0. mode' = mode
  BY DEF RiskNext, riskVars, CheckReset, ResetBandits, ResetGrids, TakeTrade, LearnContext,
     LearnRest, SaveBandits, WriteState, MergeWarmstart, LoadState, RestartController, NextBar,
     NewModel
<1>1. Goal => ArmsInv'
  BY <1>0 DEF ArmsInv, Matched
<1>2. /\ Shaped(ctl) /\ GridsKnown /\ mode \in Mode
      /\ mode = "backtest" => /\ learner.at \in {"loop", "credit"} /\ disk = Absent
                              /\ learner.at = "credit" => decider = "idle"
      /\ mode = "backtest" => IF decider = "resetGrids" THEN Configured(ctl.bandits)
                                                        ELSE ArmsMatch(ctl)
      /\ Live => Configured(ctl.bandits) /\ ArmsMatch(ctl) /\ FileFits /\ HalfFits
  BY DEF ArmsInv, WhereInv, Matched
<1>3. ASSUME SameArms(ctl, ctl'), disk' = disk, learner'.at = "write" => learner' = learner,
             (decider = "resetGrids") <=> (decider' = "resetGrids")
      PROVE  Goal
  BY <1>2, <1>3, SameArmsFit
<1>4. ASSUME NEW drawdown \in BOOLEAN, CheckReset(drawdown) PROVE Goal
  <2>1. ctl'.bandits = ctl.bandits /\ ctl'.grids = ctl.grids
    BY <1>2, <1>4 DEF CheckReset, Shaped
  <2>2. /\ SameArms(ctl, ctl') /\ disk' = disk /\ learner' = learner
        /\ decider # "resetGrids" /\ decider' # "resetGrids"
    BY <1>4, <2>1 DEF CheckReset, SameArms
  <2> QED
    BY <1>3, <2>2
<1>5. ASSUME ResetBandits PROVE Goal
  <2>1. /\ ctl'.bandits = FreshBandits(ConfigGrid) /\ ctl'.grids = ctl.grids
        /\ decider' = "resetGrids" /\ disk' = disk /\ learner' = learner
        /\ decider = "resetBandits"
    BY <1>2, <1>5 DEF ResetBandits, Shaped
  <2>2. Live => ArmsMatch(ctl')
    BY <1>2, <2>1, FreshFits DEF ArmsMatch, Configured
  <2> QED
    BY <1>2, <2>1, <2>2, FreshFits
<1>6. ASSUME ResetGrids PROVE Goal
  <2>1. /\ ctl'.bandits = ctl.bandits /\ ctl'.grids = ConfigGrid
        /\ decider' = "sample" /\ disk' = disk /\ learner' = learner
        /\ decider = "resetGrids"
    BY <1>2, <1>6 DEF ResetGrids, Shaped
  <2>2. Configured(ctl.bandits) => ArmsMatch(ctl')
    BY <2>1 DEF ArmsMatch, Configured
  <2> QED
    BY <1>2, <2>1, <2>2, ControllerAssumption
<1>7. ASSUME NEW tr \in trades, NEW won \in BOOLEAN, NEW risked \in BOOLEAN,
             LearnContext(tr, won, risked)
      PROVE  Goal
  <2> DEFINE x == [ctl EXCEPT !.losses = IF won THEN 0 ELSE @ + 1]
             y == [x EXCEPT !.bandits["context"] = Credit(@, tr.arms["atr"])]
  <2>1. x.bandits = ctl.bandits /\ x.grids = ctl.grids /\ Shaped(x)
    BY <1>2, FieldChanges DEF Shaped
  <2>2. y.grids = x.grids /\ \A b \in Bandit : DOMAIN y.bandits[b] = DOMAIN x.bandits[b]
    BY <2>1 DEF Shaped, Bandit, Param, Credit
  <2> HIDE DEF x, y
  <2>3. ctl' \in {x, y} /\ disk' = disk /\ decider' = decider /\ learner'.at # "write"
    BY <1>7 DEF LearnContext, x, y, WhereInv
  <2>4. SameArms(ctl, ctl')
    BY <2>1, <2>2, <2>3 DEF SameArms
  <2> QED
    BY <1>3, <2>3, <2>4
<1>8. ASSUME LearnRest PROVE Goal
  <2>1. /\ learner.at = "credit" /\ learner' = Rest /\ ctl' \in Adaptations(Credited)
        /\ UNCHANGED <<mode, disk, decider>>
    BY <1>2, <1>8, CreditedShape
  <2>2. SameArms(ctl, Credited) /\ Shaped(Credited)
    BY <1>2, <2>1, CreditedArms, CreditedShape
  <2>3. CASE mode = "backtest"
    <3>1. Matched(Credited)
      BY <1>2, <2>1, <2>2, <2>3, SameArmsFit DEF Matched
    <3>2. Matched(ctl')
      BY <2>1, <3>1, AdaptationsFit
    <3> QED
      BY <1>2, <2>1, <2>3, <3>2 DEF Matched
  <2>4. CASE mode # "backtest"
    <3>1. ctl' = Credited
      BY <2>1, <2>2, <2>4, AdaptationsKeep DEF WhereInv
    <3> QED
      BY <1>3, <2>1, <2>2, <3>1 DEF Rest
  <2> QED
    BY <2>3, <2>4
<1>9. ASSUME SaveBandits PROVE Goal
  <2>1. /\ mode = "live" /\ learner'.saved = ctl.bandits
        /\ UNCHANGED <<ctl, disk, decider>>
    BY <1>9 DEF SaveBandits, WhereInv
  <2> QED
    BY <1>2, <2>1
<1>10. ASSUME WriteState PROVE Goal
  <2> DEFINE v == [learner.saved EXCEPT !["context"] = ctl.bandits["context"]]
             e == [ctl EXCEPT !.bandits = v]
  <2>1. /\ learner.at = "write" /\ disk' \in {disk, e} /\ learner' = Rest
        /\ UNCHANGED <<ctl, decider>>
    BY <1>10 DEF WriteState
  <2>2. v = [b \in Bandit |-> v[b]]
    BY <2>1 DEF WhereInv, Bandit, Param
  <2>3. ASSUME Live PROVE Configured(v)
    <3>1. learner.saved = [b \in Bandit |-> learner.saved[b]] /\ Configured(learner.saved)
      BY <1>2, <2>1, <2>3 DEF WhereInv
    <3> QED
      BY <1>2, <2>3, <3>1 DEF Configured, Bandit, Param
  <2> HIDE DEF v
  <2>4. Shaped(e) /\ e.bandits = v /\ e.grids = ctl.grids
    BY <1>2, <2>2, BanditsChange
  <2>5. Live => Matched(e) /\ Configured(e.bandits)
    BY <1>2, <2>3, <2>4 DEF Matched, ArmsMatch, Configured
  <2> HIDE DEF e
  <2>6. mode # "backtest"
    BY <1>2, <2>1
  <2> QED
    BY <1>2, <2>1, <2>4, <2>5, <2>6 DEF Rest
<1>11. ASSUME MergeWarmstart PROVE Goal
  <2>1. /\ learner.at = "merge" /\ disk' \in {disk, Merged(disk)} /\ learner'.at = "load"
        /\ UNCHANGED <<ctl, decider>>
    BY <1>11 DEF MergeWarmstart, WhereInv
  <2>2. Live => Matched(Merged(disk)) /\ Configured(Merged(disk).bandits)
    BY <1>2, MergedFits
  <2>4. DOMAIN Merged(disk).grids = Param
    BY <1>2, MergedGrids, ControllerAssumption DEF WhereInv
  <2>3. mode # "backtest"
    BY <1>2, <2>1
  <2> QED
    BY <1>2, <2>1, <2>2, <2>3, <2>4
<1>12. ASSUME LoadState PROVE Goal
  <2>1. /\ learner.at = "load" /\ ctl' = IF Readable(disk) THEN disk ELSE NewController
        /\ disk' = IF Readable(disk) THEN disk ELSE Absent
        /\ learner' = Rest
    BY <1>12 DEF LoadState
  <2>2. mode = "live"
    BY <1>2, <2>1 DEF Mode
  <2> QED
    BY <1>2, <2>1, <2>2, FreshFits DEF Matched, Readable, Rest
<1>13. ASSUME RestartController PROVE Goal
  <2>1. /\ mode = "live" /\ ctl' = NewController
        /\ disk' \in {disk} \cup (IF disk = Absent THEN {} ELSE {Damaged})
        /\ learner' = [Rest EXCEPT !.at = "merge"]
    BY <1>13 DEF RestartController
  <2>2. disk' = disk \/ ~Readable(disk')
    BY <2>1 DEF Readable
  <2> QED
    BY <1>2, <2>1, <2>2, FreshFits DEF Matched, Rest
<1>14. ASSUME \/ \E sd \in TradeSide, entered \in BOOLEAN : TakeTrade(sd, entered)
              \/ NextBar \/ (\E low \in BOOLEAN : NewModel(low))
              \/ UNCHANGED riskVars
       PROVE  Goal
  <2>1. ctl' = ctl /\ disk' = disk /\ learner' = learner
    BY <1>14 DEF TakeTrade, NextBar, NewModel, riskVars
  <2>2. SameArms(ctl, ctl')
    BY <2>1 DEF SameArms
  <2>3. (decider = "resetGrids") <=> (decider' = "resetGrids")
    BY <1>14 DEF TakeTrade, NextBar, NewModel, riskVars
  <2> QED
    BY <1>3, <2>1, <2>2, <2>3
<1> HIDE DEF Goal
<1> QED
  BY <1>1, <1>4, <1>5, <1>6, <1>7, <1>8, <1>9, <1>10, <1>11, <1>12, <1>13, <1>14 DEF RiskNext

\* An arm that is chosen has a value in its grid, through every credit, adaptation and
\* reset of a backtest; in the live bot as long as the newest backtest's grids are as
\* long as the configured ones (risk_controller.py:206).
THEOREM ArmsStayMatched ==
  RiskSpec => [](mode = "backtest" \/ SameLengths => ArmsMatchGrids)
<1>1. WhereInv /\ ArmsInv => (mode = "backtest" \/ SameLengths => ArmsMatchGrids)
  BY DEF WhereInv, Mode, ArmsInv, ArmsMatchGrids
<1>2. RiskInit => ArmsInv
  <2> SUFFICES ASSUME RiskInit PROVE ArmsInv
    OBVIOUS
  <2>1. /\ ctl = NewController /\ ~Readable(disk) /\ learner.at # "write"
        /\ decider = "idle"
    BY DEF RiskInit, Readable, Rest
  <2> QED
    BY <2>1, FreshFits DEF ArmsInv, Matched
<1>3. BanditsInv => WhereInv
  BY DEF BanditsInv
<1>4. WhereInv /\ ArmsInv /\ [RiskNext]_riskVars => ArmsInv'
  BY ArmsStep
<1> QED
  BY <1>1, <1>2, <1>3, <1>4, BanditsInvariant, PTL DEF RiskSpec

-----------------------------------------------------------------------------
(* Bars and their numbers.                                                 *)

\* A nonempty set of bars has a newest one.
LEMMA HasNewest ==
  ASSUME NEW n \in Nat, NEW S, S \subseteq 0..n, NEW i \in S
  PROVE  \E b \in S : \A x \in S : x <= b
<1> DEFINE T == {n - x : x \in S}
<1>1. T \subseteq Nat /\ T # {}
  <2>1. \A x \in S : n - x \in Nat
    OBVIOUS
  <2>2. n - i \in T
    OBVIOUS
  <2> QED
    BY <2>1, <2>2
<1>2. PICK t \in T : \A y \in T : ~(<<y, t>> \in OpToRel(<, Nat))
  BY <1>1, NatLessThanWellFounded, WFMin
<1>3. \A y \in T : ~(y < t)
  BY <1>1, <1>2 DEF OpToRel
<1>4. PICK b \in S : t = n - b
  BY <1>2
<1>5. \A x \in S : x <= b
  <2> TAKE x \in S
  <2>1. n - x \in T /\ ~(n - x < t)
    BY <1>3
  <2> QED
    BY <2>1, <1>4
<1> QED
  BY <1>4, <1>5

\* Max is the newest.
LEMMA MaxIsNewest ==
  ASSUME NEW S, S \subseteq Nat, NEW b \in S, S \subseteq 0..b
  PROVE  Max(S) = b
<1>1. \A y \in S : b >= y
  OBVIOUS
<1>2. Max(S) \in S /\ \A y \in S : Max(S) >= y
  BY <1>1 DEF Max
<1>3. Max(S) \in 0..b /\ Max(S) >= b
  BY <1>2
<1> QED
  BY <1>3

\* A bounded set of bars that has any has its newest.
LEMMA NewestIn ==
  ASSUME NEW S, NEW n \in Nat, S \subseteq 0..n, S # {}
  PROVE  Max(S) \in S /\ S \subseteq 0..Max(S)
<1>1. PICK b \in S : S \subseteq 0..b
  <2>1. PICK i \in S : TRUE
    OBVIOUS
  <2>2. PICK b \in S : \A x \in S : x <= b
    BY <2>1, HasNewest
  <2>3. S \subseteq 0..b
    BY <2>2
  <2> QED
    BY <2>3
<1>2. S \subseteq Nat
  OBVIOUS
<1>3. Max(S) = b
  BY <1>1, <1>2, MaxIsNewest
<1> QED
  BY <1>1, <1>3

\* The higher-timeframe bar that slot i is in.
LEMMA HigherOf ==
  ASSUME NEW i \in Nat
  PROVE  /\ i \div Ratio \in 0..i
         /\ (i \div Ratio) * Ratio <= i
         /\ i <= (i \div Ratio) * Ratio + Ratio - 1
<1>1. Ratio \in Nat /\ Ratio >= 1
  BY FeedAssumption
<1> DEFINE q == i \div Ratio
           r == i % Ratio
<1>2. q \in Int /\ r \in 0..(Ratio - 1) /\ i = Ratio * q + r
  BY <1>1
<1> HIDE DEF q, r
<1>3. q >= 0
  <2> SUFFICES ASSUME q <= -1 PROVE FALSE
    BY <1>2
  <2>1. Ratio * q <= Ratio * (-1)
    BY <1>1, <1>2
  <2> QED
    BY <1>1, <1>2, <2>1
<1>4. Ratio * q >= q
  BY <1>1, <1>2, <1>3
<1>5. Ratio * q = q * Ratio
  BY <1>1, <1>2
<1>6. q \in 0..i /\ q * Ratio <= i /\ i <= q * Ratio + Ratio - 1
  BY <1>1, <1>2, <1>3, <1>4, <1>5
<1> QED
  BY <1>6 DEF q

\* Later higher-timeframe bars open later.
LEMMA HigherOrder ==
  ASSUME NEW p \in Int, NEW q \in Int
  PROVE  p < q <=> p * Ratio + Ratio <= q * Ratio
<1>1. Ratio \in Nat /\ Ratio >= 1
  BY FeedAssumption
<1>2. ASSUME p < q PROVE p * Ratio + Ratio <= q * Ratio
  <2>1. (q - p - 1) * Ratio >= 0
    BY <1>1, <1>2
  <2>2. (q - p - 1) * Ratio = q * Ratio - p * Ratio - Ratio
    BY <1>1
  <2> QED
    BY <1>1, <2>1, <2>2
<1>3. ASSUME q <= p PROVE q * Ratio < p * Ratio + Ratio
  <2>1. (p - q) * Ratio >= 0
    BY <1>1, <1>3
  <2>2. (p - q) * Ratio = p * Ratio - q * Ratio
    BY <1>1
  <2> QED
    BY <1>1, <2>1, <2>2
<1> QED
  BY <1>1, <1>2, <1>3

\* A slot before the start of a higher-timeframe bar is in an earlier one.
LEMMA Earlier ==
  ASSUME NEW i \in Nat, NEW q \in Int
  PROVE  /\ i < q * Ratio <=> i \div Ratio < q
         /\ (i \div Ratio + 1) * Ratio <= q * Ratio <=> i \div Ratio < q
<1> DEFINE p == i \div Ratio
<1>1. Ratio \in Nat /\ Ratio >= 1 /\ p \in Int
      /\ p * Ratio <= i /\ i <= p * Ratio + Ratio - 1
  BY FeedAssumption, HigherOf
<1> HIDE DEF p
<1>2. p < q <=> p * Ratio + Ratio <= q * Ratio
  BY <1>1, HigherOrder
<1>3. q <= p <=> ~(p < q)
  BY <1>1
<1>4. q <= p => q * Ratio <= p * Ratio
  <2>1. q < p + 1 <=> q * Ratio + Ratio <= (p + 1) * Ratio
    BY <1>1, HigherOrder
  <2>2. (p + 1) * Ratio = p * Ratio + Ratio
    BY <1>1
  <2> QED
    BY <1>1, <2>1, <2>2
<1>5. (p + 1) * Ratio = p * Ratio + Ratio
  BY <1>1
<1>6. i < q * Ratio <=> p < q
  BY <1>1, <1>2, <1>3, <1>4
<1> QED
  BY <1>2, <1>5, <1>6 DEF p

\* The higher-timeframe bars of a longer history are more, and all later.
LEMMA HigherGrows ==
  ASSUME NEW t \in Int, NEW u \in Int, t <= u
  PROVE  /\ HigherBarsUntil(t) \subseteq HigherBarsUntil(u)
         /\ HigherBarsUntil(u) \subseteq Nat /\ IsFiniteSet(HigherBarsUntil(u))
         /\ \A m \in HigherBarsUntil(u), c \in HigherBarsUntil(t) :
              m < c => m \in HigherBarsUntil(t)
<1>1. HigherBarsUntil(t) \subseteq HigherBarsUntil(u)
  BY DEF HigherBarsUntil, BarsUntil
<1>2. HigherBarsUntil(u) \subseteq 0..u
  <2> SUFFICES ASSUME NEW i \in 0..u PROVE i \div Ratio \in 0..u
    BY DEF HigherBarsUntil, BarsUntil
  <2>1. i \div Ratio \in 0..i
    BY HigherOf
  <2> QED
    BY <2>1
<1>3. IsFiniteSet(HigherBarsUntil(u))
  <2>1. IsFiniteSet(0..u)
    BY FS_Interval
  <2> QED
    BY <1>2, <2>1, FS_Subset
<1>4. ASSUME NEW m \in HigherBarsUntil(u), NEW c \in HigherBarsUntil(t), m < c
      PROVE  m \in HigherBarsUntil(t)
  <2>1. PICK i \in BarsUntil(u) : m = i \div Ratio
    BY DEF HigherBarsUntil
  <2>2. PICK k \in BarsUntil(t) : c = k \div Ratio
    BY DEF HigherBarsUntil
  <2>3. i \in Nat /\ k \in Nat /\ m \in Int /\ c \in Int
    BY <2>1, <2>2, HigherOf DEF BarsUntil
  <2>4. i < c * Ratio /\ c * Ratio <= k
    BY <1>4, <2>1, <2>2, <2>3, Earlier, HigherOf
  <2>5. c * Ratio \in Int
    BY <2>3, FeedAssumption
  <2>6. i \in BarsUntil(t)
    BY <2>2, <2>3, <2>4, <2>5, <2>1 DEF BarsUntil
  <2> QED
    BY <2>1, <2>6 DEF HigherBarsUntil
<1> QED
  BY <1>1, <1>2, <1>3, <1>4

-----------------------------------------------------------------------------
(* Files and answers.                                                      *)

\* The newest bar before b, if there is one, is the last before b.
LEMMA LastOfEarlier ==
  ASSUME NEW b \in Nat, NEW i \in (0..(b - 1)) \ ShutSlots
  PROVE  \E l \in Nat : LastBefore(l, b) /\ i <= l
<1> DEFINE S == (0..(b - 1)) \ ShutSlots
<1>1. b - 1 \in Nat
  OBVIOUS
<1>2. PICK l \in S : \A x \in S : x <= l
  <2>1. S \subseteq 0..(b - 1) /\ i \in S
    OBVIOUS
  <2> HIDE DEF S
  <2> QED
    BY <1>1, <2>1, HasNewest
<1>3. (l + 1)..(b - 1) \subseteq ShutSlots
  BY <1>2
<1> QED
  BY <1>2, <1>3 DEF LastBefore

\* All but the newest of an answer: it ends one bar before it.
LEMMA FetchedEnds ==
  ASSUME NEW S, S \subseteq Nat, IsFiniteSet(S), NEW n \in Nat, NEW b \in Fetched(S, n)
  PROVE  /\ \E z \in S : z > b
         /\ Fetched(S, n) \subseteq 0..b =>
              \E z \in S : \A j \in S : j > b => j = z
         /\ \A i \in S : i < b /\ Cardinality({j \in S : j >= i}) <= n => i \in Fetched(S, n)
<1>1. /\ b \in S /\ Cardinality({j \in S : j >= b}) <= n
      /\ \A i \in Fetched(S, n) : i \in LatestOf(S, n) /\ i \in S
  BY DEF Fetched, LatestOf
<1>2. PICK z \in LatestOf(S, n) : z > b
  BY DEF Fetched
<1>3. z \in S
  BY <1>2 DEF LatestOf
<1>4. ASSUME NEW j \in S, j > b PROVE j \in LatestOf(S, n)
  <2>1. {x \in S : x >= j} \subseteq {x \in S : x >= b}
    <3>1. b \in Nat /\ j \in Nat
      BY <1>1
    <3>2. \A x \in S : x >= j => x >= b
      BY <1>4, <3>1
    <3> QED
      BY <3>2
  <2>2. IsFiniteSet({x \in S : x >= b})
    BY FS_Subset
  <2>3. Cardinality({x \in S : x >= j}) <= Cardinality({x \in S : x >= b})
    BY <2>1, <2>2, FS_Subset
  <2>4. Cardinality({x \in S : x >= j}) \in Nat /\ Cardinality({x \in S : x >= b}) \in Nat
    BY <2>1, <2>2, FS_Subset, FS_CardinalityType
  <2> QED
    BY <1>1, <2>3, <2>4 DEF LatestOf
<1>5. ASSUME Fetched(S, n) \subseteq 0..b, NEW j \in S, j > b PROVE j = z
  <2>1. j \in LatestOf(S, n)
    BY <1>4, <1>5
  <2>2. ~(j < z) /\ ~(z < j)
    BY <1>2, <1>3, <1>5, <2>1 DEF Fetched
  <2> QED
    BY <1>3, <2>2
<1>6. ASSUME NEW i \in S, i < b, Cardinality({j \in S : j >= i}) <= n
      PROVE  i \in Fetched(S, n)
  <2>1. i \in LatestOf(S, n) /\ b \in LatestOf(S, n)
    BY <1>1, <1>6 DEF LatestOf
  <2> QED
    BY <1>6, <2>1, <1>1 DEF Fetched
<1> QED
  BY <1>2, <1>3, <1>5, <1>6

\* An answer of at least a fetch holds what the decision is judged by.
LEMMA OwnAnswer ==
  ASSUME slot \in Nat, NEW n \in Nat, n >= Chunk, NEW new \in Fetches("own", n)
  PROVE  OwnBars(new)
<1>1. CASE new = {}
  BY <1>1 DEF OwnBars
<1>2. ASSUME NEW t \in Int, t <= slot, new = Fetched(BarsUntil(t), n)
      PROVE  OwnBars(new)
  <2> DEFINE S == BarsUntil(t)
  <2>1. S \subseteq Nat /\ IsFiniteSet(S)
    <3>1. IsFiniteSet(0..t) /\ S \subseteq 0..t
      BY FS_Interval DEF BarsUntil
    <3> QED
      BY <3>1, FS_Subset
  <2>2. ASSUME NEW b \in new PROVE b \in BarsUntil(slot - 1)
    <3>1. b \in S
      BY <1>2, <2>2 DEF Fetched, LatestOf
    <3>2. PICK z \in S : z > b
      BY <1>2, <2>1, <2>2, FetchedEnds
    <3> QED
      BY <1>2, <3>1, <3>2 DEF BarsUntil
  <2>3. ASSUME NEW b \in new, new \subseteq 0..b, NEW l \in 0..b,
               LastBefore(l, (b \div Ratio) * Ratio)
        PROVE  l \in new
    <3> DEFINE base == (b \div Ratio) * Ratio
               later == {j \in S : j >= l}
    <3>1. PICK z \in S : \A j \in S : j > b => j = z
      BY <1>2, <2>1, <2>3, FetchedEnds
    <3>2. b \in S /\ b \in Nat /\ base \in Int /\ base <= b /\ b <= base + Ratio - 1
      <4>1. b \in S /\ b \in Nat
        BY <1>2, <2>1 DEF Fetched, LatestOf
      <4>2. Ratio \in Nat
        BY FeedAssumption
      <4> QED
        BY <4>1, <4>2, HigherOf
    <3>3. l \in Nat /\ l < base /\ l \in S
      BY <2>3, <3>2, <1>2 DEF LastBefore, BarsUntil
    <3>4. later \subseteq ({l} \cup (base..b)) \cup {z}
      <4> SUFFICES ASSUME NEW j \in S, l < j, j < base PROVE FALSE
        BY <2>1, <3>1, <3>2, <3>3
      <4>1. j \in (l + 1)..(base - 1)
        BY <2>1, <3>2, <3>3
      <4>2. j \notin ShutSlots
        BY DEF BarsUntil
      <4> QED
        BY <2>3, <4>1, <4>2 DEF LastBefore
    <3>5. IsFiniteSet(base..b) /\ Cardinality(base..b) = b - base + 1
      BY <3>2, FS_Interval
    <3> HIDE DEF base, later
    <3> DEFINE A == base..b
               B == A \cup {l}
    <3>6. IsFiniteSet(B) /\ Cardinality(B) \in Nat /\ Cardinality(B) <= b - base + 2
      <4>1. IsFiniteSet(A) /\ Cardinality(A) = b - base + 1
        BY <3>5
      <4> HIDE DEF A
      <4>2. IsFiniteSet(B) /\ Cardinality(B) = IF l \in A THEN Cardinality(A) ELSE Cardinality(A) + 1
        BY <4>1, FS_AddElement
      <4> QED
        BY <3>2, <4>1, <4>2, FS_CardinalityType
    <3>7. /\ IsFiniteSet(B \cup {z}) /\ Cardinality(B \cup {z}) \in Nat
          /\ Cardinality(B \cup {z}) <= b - base + 3
      <4> HIDE DEF B
      <4>1. /\ IsFiniteSet(B \cup {z})
            /\ Cardinality(B \cup {z}) = IF z \in B THEN Cardinality(B) ELSE Cardinality(B) + 1
        BY <3>6, FS_AddElement
      <4> QED
        BY <3>2, <3>6, <4>1, FS_CardinalityType
    <3>8. Cardinality(later) <= b - base + 3 /\ Cardinality(later) \in Nat
      <4>1. later \subseteq B \cup {z}
        BY <3>4
      <4> HIDE DEF B
      <4>2. IsFiniteSet(later) /\ Cardinality(later) <= Cardinality(B \cup {z})
        BY <3>7, <4>1, FS_Subset
      <4> QED
        BY <3>2, <3>7, <4>2, FS_CardinalityType
    <3>9. Cardinality(later) <= n
      BY <1>2, <3>2, <3>8, FeedAssumption
    <3> QED
      BY <1>2, <2>1, <2>3, <3>2, <3>3, <3>9, FetchedEnds DEF later
  <2> QED
    BY <2>2, <2>3 DEF OwnBars
<1>3. \A t \in Max({0, slot - Lag})..slot : t \in Int /\ t <= slot
  OBVIOUS
<1> QED
  BY <1>1, <1>2, <1>3 DEF Fetches, BarsOf

\* Two files together hold it too: the newest bar of both is that of one.
LEMMA OwnUnion ==
  ASSUME NEW S, NEW T, OwnBars(S), OwnBars(T)
  PROVE  OwnBars(S \cup T)
<1> SUFFICES ASSUME NEW b \in S \cup T, S \cup T \subseteq 0..b, NEW l \in 0..b,
                    LastBefore(l, (b \div Ratio) * Ratio)
             PROVE  l \in S \cup T
  BY DEF OwnBars
<1>1. S \subseteq 0..b /\ T \subseteq 0..b
  OBVIOUS
<1> QED
  BY <1>1 DEF OwnBars

\* A file keeps it while bars open.
LEMMA OwnLater ==
  ASSUME NEW S, OwnBars(S), slot \in Nat, slot' = slot + 1
  PROVE  OwnBars(S)'
BY DEF OwnBars, BarsUntil, LastBefore

\* An answer of at least a fetch has no gap within a fetch of now, also when the
\* terminal lags.
LEMMA HigherAnswer ==
  ASSUME slot \in Nat, NEW n \in Nat, n >= Chunk, NEW new \in Fetches("mta", n)
  PROVE  HigherBars(new)
<1>1. CASE new = {}
  BY <1>1 DEF HigherBars
<1>2. ASSUME NEW t \in Int, t <= slot, new = Fetched(HigherBarsUntil(t), n)
      PROVE  HigherBars(new)
  <2> DEFINE S == HigherBarsUntil(t)
             U == HigherBarsUntil(slot)
  <2>1. /\ S \subseteq U /\ S \subseteq Nat /\ IsFiniteSet(S) /\ IsFiniteSet(U)
        /\ U \subseteq Nat
        /\ \A m \in U, c \in S : m < c => m \in S
    BY <1>2, HigherGrows
  <2> HIDE DEF S, U
  <2>2. new \subseteq S
    BY <1>2 DEF Fetched, LatestOf, S
  <2>3. ASSUME NEW c \in new, NEW m \in U, m < c, Cardinality({j \in U : j >= m}) <= Chunk
        PROVE  m \in new
    <3>1. m \in S
      BY <2>1, <2>2, <2>3
    <3>2. IsFiniteSet({j \in U : j >= m}) /\ {j \in S : j >= m} \subseteq {j \in U : j >= m}
      BY <2>1, FS_Subset
    <3>3. Cardinality({j \in S : j >= m}) <= Cardinality({j \in U : j >= m})
      BY <3>2, FS_Subset
    <3>4. Cardinality({j \in S : j >= m}) \in Nat /\ Cardinality({j \in U : j >= m}) \in Nat
      BY <3>2, FS_Subset, FS_CardinalityType
    <3>5. Cardinality({j \in S : j >= m}) <= n
      BY <2>3, <3>3, <3>4, FeedAssumption
    <3>6. new = Fetched(S, n)
      BY <1>2 DEF S
    <3> QED
      BY <2>1, <2>3, <3>1, <3>5, <3>6, FetchedEnds
  <2> QED
    BY <2>1, <2>2, <2>3 DEF HigherBars, U
<1>3. \A t \in Max({0, slot - Lag})..slot : t \in Int /\ t <= slot
  OBVIOUS
<1> QED
  BY <1>1, <1>2, <1>3 DEF Fetches, BarsOf

\* Two files together have no gap within a fetch either.
LEMMA HigherUnion ==
  ASSUME NEW S, NEW T, HigherBars(S), HigherBars(T)
  PROVE  HigherBars(S \cup T)
BY DEF HigherBars

\* A file without such a gap has none later: the bars a fetch reaches get fewer.
LEMMA HigherLater ==
  ASSUME NEW S, HigherBars(S), slot \in Nat, slot' = slot + 1
  PROVE  HigherBars(S)'
<1> DEFINE U == HigherBarsUntil(slot)
           V == HigherBarsUntil(slot + 1)
<1>1. /\ U \subseteq V /\ V \subseteq Nat /\ IsFiniteSet(V)
      /\ \A m \in V, c \in U : m < c => m \in U
  BY HigherGrows
<1> HIDE DEF U, V
<1>2. S \subseteq U /\ \A c \in S, m \in U :
        m < c /\ Cardinality({j \in U : j >= m}) <= Chunk => m \in S
  BY DEF HigherBars, U
<1>3. ASSUME NEW c \in S, NEW m \in V, m < c, Cardinality({j \in V : j >= m}) <= Chunk
      PROVE  m \in S
  <2>1. m \in U
    BY <1>1, <1>2, <1>3
  <2>2. {j \in U : j >= m} \subseteq {j \in V : j >= m} /\ IsFiniteSet({j \in V : j >= m})
    BY <1>1, FS_Subset
  <2>3. Cardinality({j \in U : j >= m}) <= Cardinality({j \in V : j >= m})
    BY <2>2, FS_Subset
  <2>4. Cardinality({j \in U : j >= m}) \in Nat /\ Cardinality({j \in V : j >= m}) \in Nat
    BY <2>2, FS_Subset, FS_CardinalityType
  <2>5. Cardinality({j \in U : j >= m}) <= Chunk
    BY <1>3, <2>3, <2>4, FeedAssumption
  <2> QED
    BY <1>2, <1>3, <2>1, <2>5
<1>4. S \subseteq V
  BY <1>1, <1>2
<1>5. HigherBarsUntil(slot)' = V
  BY DEF V, HigherBarsUntil, BarsUntil
<1> QED
  BY <1>3, <1>4, <1>5 DEF HigherBars

\* A bootstrap adds answers of at least a fetch.
LEMMA BootstrapKeeps ==
  ASSUME slot \in Nat, NEW S
  PROVE  /\ OwnBars(S) => \A T \in Bootstrapped(S, "own") : OwnBars(T)
         /\ HigherBars(S) => \A T \in Bootstrapped(S, "mta") : HigherBars(T)
<1>1. Chunk \in Nat /\ InitialBars \in Nat /\ InitialBars >= Chunk
  BY FeedAssumption
<1>2. ASSUME OwnBars(S), NEW T \in Bootstrapped(S, "own") PROVE OwnBars(T)
  <2>1. PICK new \in Fetches("own", Chunk), all \in Fetches("own", InitialBars) :
          T = (S \cup new) \cup all \/ T = S \cup new
    <3> DEFINE result(new, all) ==
          IF Cardinality(S \cup new) < InitialBars THEN S \cup new \cup all ELSE S \cup new
    <3>1. T \in {result(new, all) : new \in Fetches("own", Chunk), all \in Fetches("own", InitialBars)}
      BY <1>2 DEF Bootstrapped
    <3>2. \A new, all : result(new, all) = (S \cup new) \cup all \/ result(new, all) = S \cup new
      OBVIOUS
    <3> HIDE DEF result
    <3> QED
      BY <3>1, <3>2
  <2>2. OwnBars(new) /\ OwnBars(all)
    BY <1>1, OwnAnswer
  <2> QED
    BY <1>2, <2>1, <2>2, OwnUnion
<1>3. ASSUME HigherBars(S), NEW T \in Bootstrapped(S, "mta") PROVE HigherBars(T)
  <2>1. PICK new \in Fetches("mta", Chunk), all \in Fetches("mta", InitialBars) :
          T = (S \cup new) \cup all \/ T = S \cup new
    <3> DEFINE result(new, all) ==
          IF Cardinality(S \cup new) < InitialBars THEN S \cup new \cup all ELSE S \cup new
    <3>1. T \in {result(new, all) : new \in Fetches("mta", Chunk), all \in Fetches("mta", InitialBars)}
      BY <1>3 DEF Bootstrapped
    <3>2. \A new, all : result(new, all) = (S \cup new) \cup all \/ result(new, all) = S \cup new
      OBVIOUS
    <3> HIDE DEF result
    <3> QED
      BY <3>1, <3>2
  <2>2. HigherBars(new) /\ HigherBars(all)
    BY <1>1, HigherAnswer
  <2> QED
    BY <1>3, <2>1, <2>2, HigherUnion
<1> QED
  BY <1>2, <1>3

-----------------------------------------------------------------------------
(* The threads.                                                            *)

\* A thread that waits has nothing to follow.
LEMMA WaitingFollows == Follows(Waiting)
BY DEF Follows, Waiting

\* A thread whose decision bar and context stand still follows.
LEMMA StillFollows ==
  ASSUME NEW f, Follows(f), f.at \notin {"wait", "mta"}, NEW g, DOMAIN g = DOMAIN Waiting,
         g.at \notin {"wait", "mta"}, g.bar = f.bar, g.mta = f.mta
  PROVE  Follows(g)
BY DEF Follows

\* What was the newest higher-timeframe bar before a decision bar stays it.
LEMMA FollowsLater ==
  ASSUME slot \in Nat, slot' = slot + 1, NEW f, Follows(f)
  PROVE  Follows(f)'
<1>1. CASE f.at = "mta"
  BY <1>1, OwnLater DEF Follows, Waiting
<1>2. CASE f.at = "wait"
  BY <1>2 DEF Follows, Waiting
<1>3. CASE f.at \notin {"wait", "mta"}
  <2> DEFINE U == HigherBarsUntil(slot)
             V == HigherBarsUntil(slot + 1)
  <2>1. f.bar \in 0..(slot - 1) /\ f.mta \subseteq U /\ HoldsNewest(f.mta, f.bar)
    BY <1>3 DEF Follows
  <2>2. U \subseteq V
    BY HigherGrows
  <2>3. ASSUME NEW m \in V, (m + 1) * Ratio <= f.bar PROVE m \in U
    <3>1. PICK i \in BarsUntil(slot + 1) : m = i \div Ratio
      BY DEF HigherBarsUntil
    <3>2. i \in Nat /\ m \in Nat /\ Ratio \in Nat /\ i < (m + 1) * Ratio
      <4>1. i \in Nat /\ m \in Nat /\ Ratio \in Nat
        BY <3>1, HigherOf, FeedAssumption DEF BarsUntil
      <4>2. m < m + 1 /\ m + 1 \in Int
        BY <4>1
      <4> QED
        BY <3>1, <4>1, <4>2, Earlier
    <3>3. (m + 1) * Ratio \in Int
      BY <3>2
    <3>4. i \in BarsUntil(slot)
      BY <2>1, <2>3, <3>1, <3>2, <3>3 DEF BarsUntil
    <3> QED
      BY <3>1, <3>4 DEF HigherBarsUntil
  <2>4. ASSUME NEW m \in V, (m + 1) * Ratio <= f.bar,
               \A k \in V : (k + 1) * Ratio <= f.bar => k <= m
        PROVE  m \in f.mta
    BY <2>1, <2>2, <2>3, <2>4 DEF HoldsNewest
  <2>5. HigherBarsUntil(slot)' = V
    BY DEF HigherBarsUntil, BarsUntil
  <2> HIDE DEF U, V
  <2>6. HoldsNewest(f.mta, f.bar)'
    BY <2>4, <2>5 DEF HoldsNewest
  <2> QED
    BY <1>3, <2>1, <2>2, <2>5, <2>6 DEF Follows, Waiting
<1> QED
  BY <1>1, <1>2, <1>3

\* The context that is judged fresh enough holds the bar the decision needs.
LEMMA FreshContext ==
  ASSUME slot \in Nat, NEW own, OwnBars(own), NEW b \in own, own \subseteq 0..b,
         NEW context, HigherBars(context),
         Cardinality({j \in HigherBarsUntil(slot) : j >= b \div Ratio}) < Chunk,
         ~ \E m \in NeededIn(own, b) : \A c \in context : c < m
  PROVE  HoldsNewest(context, b)
<1> DEFINE U == HigherBarsUntil(slot)
           q == b \div Ratio
<1> SUFFICES ASSUME NEW m \in U, (m + 1) * Ratio <= b,
                    \A k \in U : (k + 1) * Ratio <= b => k <= m
             PROVE  m \in context
  BY DEF HoldsNewest
<1>1. /\ b \in Nat /\ b \in BarsUntil(slot - 1) /\ b < slot
      /\ Ratio \in Nat /\ Ratio >= 1 /\ q \in Nat /\ q * Ratio \in Nat /\ q * Ratio <= b
      /\ Chunk \in Nat
  <2>1. b \in BarsUntil(slot - 1) /\ b \in Nat /\ b < slot
    BY DEF OwnBars, BarsUntil
  <2>2. q \in Nat
    BY <2>1, HigherOf
  <2> QED
    BY <2>1, <2>2, HigherOf, FeedAssumption
<1>2. PICK i \in BarsUntil(slot) : m = i \div Ratio
  BY DEF HigherBarsUntil
<1>3. i \in Nat /\ m \in Nat
  BY <1>2, HigherOf DEF BarsUntil
<1>4. \A k \in Nat : (k + 1) * Ratio <= b <=> k < q
  <2> TAKE k \in Nat
  <2>1. b < (k + 1) * Ratio <=> q < k + 1
    <3> DEFINE p == k + 1
    <3>1. p \in Int /\ b \in Nat
      BY <1>1
    <3> HIDE DEF p
    <3>2. b < p * Ratio <=> b \div Ratio < p
      BY <3>1, Earlier
    <3> QED
      BY <3>2 DEF p
  <2>2. (k + 1) * Ratio \in Nat
    BY <1>1
  <2> QED
    BY <1>1, <2>1, <2>2
<1>5. m < q /\ \A k \in U : k < q => k <= m
  <2>1. U \subseteq Nat
    BY HigherGrows
  <2> QED
    BY <1>3, <1>4, <2>1
<1> HIDE DEF q, U
<1>6. \A x \in Nat : x < q * Ratio <=> x \div Ratio < q
  <2>1. q \in Int
    BY <1>1
  <2> QED
    BY <2>1, Earlier
<1>7. i \in 0..(q * Ratio - 1) /\ q * Ratio \in Nat
  BY <1>1, <1>2, <1>3, <1>5, <1>6
<1>8. PICK l \in Nat : LastBefore(l, q * Ratio) /\ i <= l
  BY <1>7, <1>2, LastOfEarlier DEF BarsUntil
<1>9. l \in own /\ l < q * Ratio
  BY <1>1, <1>8 DEF OwnBars, LastBefore, q
<1>10. \A x \in own : x < q * Ratio => x <= l
  <2> SUFFICES ASSUME NEW x \in own, x < q * Ratio, l < x PROVE FALSE
    BY <1>9 DEF OwnBars, BarsUntil
  <2>1. x \in Nat /\ x \notin ShutSlots
    BY DEF OwnBars, BarsUntil
  <2>2. x \in (l + 1)..(q * Ratio - 1)
    BY <1>1, <2>1
  <2> QED
    BY <1>8, <2>1, <2>2 DEF LastBefore
<1>11. l \div Ratio = m
  <2>1. l \in BarsUntil(slot)
    BY <1>1, <1>9 DEF OwnBars, BarsUntil
  <2>2. l \div Ratio \in U /\ l \div Ratio \in Nat
    BY <2>1, HigherOf DEF HigherBarsUntil, BarsUntil, U
  <2>3. l \div Ratio < q
    BY <1>6, <1>9
  <2>4. l \div Ratio <= m
    BY <1>5, <2>2, <2>3
  <2>5. ~(l \div Ratio < m)
    <3> SUFFICES ASSUME l \div Ratio < m PROVE FALSE
      OBVIOUS
    <3>1. l < m * Ratio /\ m * Ratio <= i
      BY <1>2, <1>3, <1>8, Earlier, HigherOf
    <3>2. m * Ratio \in Nat
      BY <1>1, <1>3
    <3> QED
      BY <1>3, <1>8, <3>1, <3>2
  <2> QED
    BY <1>3, <2>2, <2>4, <2>5
<1>12. m \in NeededIn(own, b)
  <2> DEFINE earlier == {x \in own : x < q * Ratio}
  <2>1. earlier \subseteq Nat /\ l \in earlier /\ earlier \subseteq 0..l
    <3>1. own \subseteq Nat
      BY DEF OwnBars, BarsUntil
    <3>2. l \in earlier
      BY <1>9
    <3>3. ASSUME NEW x \in earlier PROVE x \in 0..l
      <4>1. x \in own /\ x < q * Ratio
        BY <3>3
      <4>2. x \in Nat /\ x <= l
        BY <1>10, <3>1, <4>1
      <4> QED
        BY <4>2
    <3> QED
      BY <3>1, <3>2, <3>3
  <2>2. Max(earlier) = l
    <3> HIDE DEF earlier
    <3> QED
      BY <2>1, MaxIsNewest
  <2>3. NeededIn(own, b) = {Max(earlier) \div Ratio : x \in earlier}
    BY DEF NeededIn, q
  <2> HIDE DEF earlier
  <2> QED
    BY <1>11, <2>1, <2>2, <2>3
<1>13. PICK c \in context : ~(c < m)
  BY <1>12
<1>14. c \in Nat
  <2>1. U \subseteq Nat
    BY HigherGrows DEF U
  <2> QED
    BY <2>1 DEF HigherBars, U
<1>15. Cardinality({j \in U : j >= m}) <= Chunk
  <2> DEFINE later == {j \in U : j >= q}
             from == {j \in U : j >= m}
  <2>1. U \subseteq Nat /\ IsFiniteSet(U)
    BY HigherGrows DEF U
  <2>2. from \subseteq later \cup {m}
    <3> SUFFICES ASSUME NEW j \in U, j >= m, j # m PROVE j >= q
      OBVIOUS
    <3> QED
      BY <1>1, <1>3, <1>5, <2>1
  <2>3. IsFiniteSet(later) /\ Cardinality(later) \in Nat /\ Cardinality(later) < Chunk
    BY <2>1, FS_Subset, FS_CardinalityType DEF U, q
  <2> HIDE DEF later, from
  <2>4. /\ IsFiniteSet(later \cup {m})
        /\ Cardinality(later \cup {m}) = IF m \in later THEN Cardinality(later) ELSE Cardinality(later) + 1
    BY <2>3, FS_AddElement
  <2>5. IsFiniteSet(from) /\ Cardinality(from) <= Cardinality(later \cup {m})
    BY <2>2, <2>4, FS_Subset
  <2>6. Cardinality(from) \in Nat
    BY <2>5, FS_CardinalityType
  <2>7. Cardinality(from) <= Chunk
    BY <1>1, <2>3, <2>4, <2>5, <2>6
  <2> QED
    BY <2>7 DEF from
<1> QED
  BY <1>3, <1>13, <1>14, <1>15 DEF HigherBars, U

-----------------------------------------------------------------------------
(* The invariant.                                                          *)

\* A thread's step that leaves the files or adds to its own two keeps the invariant
\* when the thread follows what it joins.
LEMMA ThreadStep ==
  ASSUME FeedInv, NEW s \in FeedThread, slot' = slot,
         NEW own, NEW mta, OwnBars(own), HigherBars(mta), NEW f, Follows(f),
         csv' = [csv EXCEPT ![s] = [own |-> own, mta |-> mta]],
         feed' = [feed EXCEPT ![s] = f]
  PROVE  FeedInv'
<1>1. csv' \in [FeedThread -> [own : SUBSET Int, mta : SUBSET Int]]
  <2>1. own \subseteq Int
    BY DEF OwnBars, BarsUntil
  <2>2. HigherBarsUntil(slot) \subseteq Nat
    BY HigherGrows DEF FeedInv
  <2>3. mta \subseteq Int
    BY <2>2 DEF HigherBars
  <2> QED
    BY <2>1, <2>3 DEF FeedInv
<1>2. feed' = [t \in FeedThread |-> feed'[t]]
  BY DEF FeedInv
<1>3. ASSUME NEW t \in FeedThread
      PROVE  OwnBars(csv'[t].own) /\ HigherBars(csv'[t].mta) /\ Follows(feed'[t])
  <2>1. CASE t = s
    <3>1. csv'[t] = [own |-> own, mta |-> mta] /\ feed'[t] = f
      BY <2>1 DEF FeedInv
    <3> QED
      BY <3>1
  <2>2. CASE t # s
    <3>1. csv'[t] = csv[t] /\ feed'[t] = feed[t]
      BY <2>2 DEF FeedInv
    <3> QED
      BY <3>1 DEF FeedInv
  <2> QED
    BY <2>1, <2>2
<1>4. ASSUME NEW t \in FeedThread
      PROVE  (OwnBars(csv[t].own) /\ HigherBars(csv[t].mta) /\ Follows(feed[t]))'
  BY <1>3 DEF OwnBars, HigherBars, Follows, HoldsNewest, HigherBarsUntil, BarsUntil, LastBefore,
              Waiting
<1>5. slot' \in Nat
  BY DEF FeedInv
<1> QED
  BY <1>1, <1>2, <1>4, <1>5 DEF FeedInv

\* The same for a step that leaves the files.
LEMMA ThreadMoves ==
  ASSUME FeedInv, NEW s \in FeedThread, slot' = slot, csv' = csv, NEW f, Follows(f),
         feed' = [feed EXCEPT ![s] = f]
  PROVE  FeedInv'
<1>1. csv[s] = [own |-> csv[s].own, mta |-> csv[s].mta]
  BY DEF FeedInv
<1>2. csv' = [csv EXCEPT ![s] = [own |-> csv[s].own, mta |-> csv[s].mta]]
  BY <1>1 DEF FeedInv
<1>3. OwnBars(csv[s].own) /\ HigherBars(csv[s].mta)
  BY DEF FeedInv
<1> QED
  BY <1>2, <1>3, ThreadStep

\* The fields of a thread's locals.
LEMMA Fields ==
  DOMAIN Waiting = {"at", "newest", "bar", "mta", "fetched", "existing", "im"}
BY DEF Waiting

\* The bars of the thread are fetched.
LEMMA FetchOwnStep ==
  ASSUME FeedInv, NEW s \in FeedThread, FetchOwn(s)
  PROVE  FeedInv'
<1>1. PICK new \in Fetches("own", Chunk) \ {{}} :
        /\ csv' = [csv EXCEPT ![s].own = Appended(@, new)]
        /\ feed' = [feed EXCEPT ![s] = [Waiting EXCEPT !.at = "mta", !.newest = Max(new),
                                                    !.bar = Max(csv[s].own \cup new),
                                                    !.existing = csv[s].own \cup new]]
  BY DEF FetchOwn
<1> DEFINE F == csv[s].own
           E == F \cup new
           f == [Waiting EXCEPT !.at = "mta", !.newest = Max(new), !.bar = Max(E), !.existing = E]
<1>2. slot \in Nat /\ OwnBars(F) /\ OwnBars(new) /\ OwnBars(E) /\ slot' = slot
  <2>1. slot \in Nat /\ OwnBars(F) /\ slot' = slot /\ Chunk \in Nat
    BY FeedAssumption DEF FeedInv, FetchOwn
  <2>2. OwnBars(new)
    BY <2>1, OwnAnswer
  <2> QED
    BY <2>1, <2>2, OwnUnion
<1>3. Max(E) \in E /\ E \subseteq 0..Max(E)
  <2>1. E # {} /\ E \subseteq 0..slot
    BY <1>1, <1>2 DEF OwnBars, BarsUntil
  <2> HIDE DEF f, E, F
  <2> QED
    BY <1>2, <2>1, NewestIn
<1>4. Follows(f)
  <2>1. DOMAIN f = DOMAIN Waiting /\ f.at = "mta" /\ f.bar = Max(E) /\ f.existing = E
    BY DEF Waiting
  <2> HIDE DEF f, E
  <2> QED
    BY <1>2, <1>3, <2>1 DEF Follows
<1>5. csv' = [csv EXCEPT ![s] = [own |-> Appended(F, new), mta |-> csv[s].mta]]
  <2>1. csv[s] \in [own : SUBSET Int, mta : SUBSET Int]
    BY DEF FeedInv
  <2>2. [csv[s] EXCEPT !.own = Appended(@, new)] = [own |-> Appended(F, new), mta |-> csv[s].mta]
    BY <2>1
  <2> QED
    BY <1>1, <2>2
<1>6. OwnBars(Appended(F, new)) /\ HigherBars(csv[s].mta)
  BY <1>2 DEF Appended, FeedInv
<1>7. feed' = [feed EXCEPT ![s] = f]
  BY <1>1
<1> HIDE DEF f, F, E
<1> QED
  BY <1>2, <1>4, <1>5, <1>6, <1>7, ThreadStep

\* The higher-timeframe bars are fetched and judged, in time.
LEMMA FetchMtaStep ==
  ASSUME FeedInv, Timely, NEW s \in FeedThread, FetchMta(s)
  PROVE  FeedInv'
<1>1. PICK new \in Fetches("mta", Chunk) :
        /\ csv' = [csv EXCEPT ![s].mta = Appended(@, new)]
        /\ IF \/ new = {}
              \/ \E m \in NeededIn(feed[s].existing, feed[s].bar) :
                   \A c \in csv[s].mta \cup new : c < m
           THEN Skip(s)
           ELSE feed' = [feed EXCEPT ![s] = [@ EXCEPT !.at = "im", !.existing = {},
                                                      !.mta = csv[s].mta \cup new]]
  BY DEF FetchMta
<1> DEFINE M == csv[s].mta
           context == M \cup new
<1>2. /\ slot \in Nat /\ slot' = slot /\ feed[s].at = "mta" /\ Follows(feed[s])
      /\ OwnBars(csv[s].own) /\ HigherBars(M)
  BY DEF FeedInv, FetchMta
<1>3. HigherBars(context)
  <2>1. Chunk \in Nat
    BY FeedAssumption
  <2>2. HigherBars(new)
    BY <1>2, <2>1, HigherAnswer
  <2> QED
    BY <1>2, <2>2, HigherUnion
<1>4. csv' = [csv EXCEPT ![s] = [own |-> csv[s].own, mta |-> Appended(M, new)]]
  <2>1. csv[s] \in [own : SUBSET Int, mta : SUBSET Int]
    BY DEF FeedInv
  <2>2. [csv[s] EXCEPT !.mta = Appended(@, new)] = [own |-> csv[s].own, mta |-> Appended(M, new)]
    BY <2>1
  <2> QED
    BY <1>1, <2>2
<1>5. HigherBars(Appended(M, new))
  BY <1>2, <1>3 DEF Appended
<1>6. CASE Skip(s)
  <2>1. feed' = [feed EXCEPT ![s] = Waiting]
    BY <1>6 DEF Skip
  <2> HIDE DEF M
  <2> QED
    BY <1>2, <1>4, <1>5, <2>1, WaitingFollows, ThreadStep
<1>7. CASE ~Skip(s)
  <2> DEFINE f == [feed[s] EXCEPT !.at = "im", !.existing = {}, !.mta = context]
  <2>1. /\ feed' = [feed EXCEPT ![s] = f]
        /\ ~ \E m \in NeededIn(feed[s].existing, feed[s].bar) : \A c \in context : c < m
    BY <1>1, <1>7
  <2>2. /\ OwnBars(feed[s].existing) /\ feed[s].bar \in feed[s].existing
        /\ feed[s].existing \subseteq 0..feed[s].bar
    BY <1>2 DEF Follows
  <2>3. HoldsNewest(context, feed[s].bar)
    <3>1. Cardinality({j \in HigherBarsUntil(slot) : j >= feed[s].bar \div Ratio}) < Chunk
      BY <1>2 DEF Timely
    <3> HIDE DEF context
    <3> QED
      BY <1>2, <1>3, <2>1, <2>2, <3>1, FreshContext
  <2>4. feed[s].bar \in 0..(slot - 1)
    BY <2>2 DEF OwnBars, BarsUntil
  <2>5. /\ DOMAIN f = DOMAIN Waiting /\ f.at = "im" /\ f.bar = feed[s].bar /\ f.mta = context
    BY <1>2, Fields DEF Follows
  <2> HIDE DEF f, context
  <2>6. Follows(f)
    BY <1>3, <2>3, <2>4, <2>5 DEF Follows, HigherBars
  <2> HIDE DEF M
  <2> QED
    BY <1>2, <1>4, <1>5, <2>1, <2>6, ThreadStep
<1> QED
  BY <1>6, <1>7

\* The other steps of a thread leave its bar and its higher-timeframe context.
LEMMA OtherSteps ==
  ASSUME FeedInv, NEW s \in FeedThread,
         FetchIm(s) \/ ReadShared(s) \/ ReplaceShared(s) \/ LoadShared(s) \/ FinishBar(s)
  PROVE  FeedInv'
<1>1. slot' = slot /\ csv' = csv /\ Follows(feed[s])
  BY DEF FeedInv, FetchIm, ReadShared, ReplaceShared, LoadShared, FinishBar
<1>2. CASE Skip(s)
  BY <1>1, <1>2, WaitingFollows, ThreadMoves DEF Skip
<1>3. ASSUME NEW f, feed' = [feed EXCEPT ![s] = f], DOMAIN f = DOMAIN feed[s],
             f.at \notin {"wait", "mta"}, feed[s].at \notin {"wait", "mta"},
             f.bar = feed[s].bar, f.mta = feed[s].mta
      PROVE  FeedInv'
  <2>1. DOMAIN f = DOMAIN Waiting
    BY <1>1, <1>3 DEF Follows
  <2>2. Follows(f)
    BY <1>1, <1>3, <2>1, StillFollows
  <2> QED
    BY <1>1, <1>3, <2>2, ThreadMoves
<1>4. DOMAIN feed[s] = {"at", "newest", "bar", "mta", "fetched", "existing", "im"}
  BY <1>1, Fields DEF Follows
<1>5. CASE FetchIm(s) /\ ~Skip(s)
  <2>1. PICK new \in Fetches("own", Chunk) :
          feed' = [feed EXCEPT ![s] = [feed[s] EXCEPT !.at = IF saving THEN "read" ELSE "load",
                                                      !.fetched = new]]
    BY <1>5 DEF FetchIm
  <2> DEFINE f == [feed[s] EXCEPT !.at = IF saving THEN "read" ELSE "load", !.fetched = new]
  <2>2. /\ DOMAIN f = DOMAIN feed[s] /\ f.at \notin {"wait", "mta"}
        /\ f.bar = feed[s].bar /\ f.mta = feed[s].mta
    BY <1>4
  <2>3. feed' = [feed EXCEPT ![s] = f] /\ feed[s].at \notin {"wait", "mta"}
    BY <1>5, <2>1 DEF FetchIm
  <2> HIDE DEF f
  <2> QED
    BY <1>3, <2>2, <2>3
<1>6. CASE ReadShared(s)
  <2> DEFINE f == [feed[s] EXCEPT !.at = "replace", !.existing = sharedCsv]
  <2>2. /\ DOMAIN f = DOMAIN feed[s] /\ f.at \notin {"wait", "mta"}
        /\ f.bar = feed[s].bar /\ f.mta = feed[s].mta
    BY <1>4
  <2>3. feed' = [feed EXCEPT ![s] = f] /\ feed[s].at \notin {"wait", "mta"}
    BY <1>6 DEF ReadShared
  <2> HIDE DEF f
  <2> QED
    BY <1>3, <2>2, <2>3
<1>7. CASE ReplaceShared(s)
  <2> DEFINE f == [feed[s] EXCEPT !.at = "load", !.existing = {}]
  <2>2. /\ DOMAIN f = DOMAIN feed[s] /\ f.at \notin {"wait", "mta"}
        /\ f.bar = feed[s].bar /\ f.mta = feed[s].mta
    BY <1>4
  <2>3. feed' = [feed EXCEPT ![s] = f] /\ feed[s].at \notin {"wait", "mta"}
    BY <1>7 DEF ReplaceShared
  <2> HIDE DEF f
  <2> QED
    BY <1>3, <2>2, <2>3
<1>8. CASE LoadShared(s) /\ ~Skip(s)
  <2> DEFINE f == [feed[s] EXCEPT !.at = "decide", !.im = sharedCsv]
  <2>2. /\ DOMAIN f = DOMAIN feed[s] /\ f.at \notin {"wait", "mta"}
        /\ f.bar = feed[s].bar /\ f.mta = feed[s].mta
    BY <1>4
  <2>3. feed' = [feed EXCEPT ![s] = f] /\ feed[s].at \notin {"wait", "mta"}
    BY <1>8 DEF LoadShared
  <2> HIDE DEF f
  <2> QED
    BY <1>3, <2>2, <2>3
<1> QED
  BY <1>2, <1>5, <1>6, <1>7, <1>8 DEF FinishBar

\* A start bootstraps the files.
LEMMA StartStep ==
  ASSUME FeedInv, StartFeed
  PROVE  FeedInv'
<1>1. /\ slot \in Nat /\ slot' = slot /\ feed' = [s \in FeedThread |-> Waiting]
      /\ csv' \in [FeedThread -> [own : UNION {Bootstrapped(csv[s].own, "own") : s \in FeedThread},
                                  mta : UNION {Bootstrapped(csv[s].mta, "mta") : s \in FeedThread}]]
  BY DEF FeedInv, StartFeed
<1>2. ASSUME NEW s \in FeedThread
      PROVE  OwnBars(csv'[s].own) /\ HigherBars(csv'[s].mta)
  <2>1. /\ csv'[s].own \in Bootstrapped(csv[s].own, "own")
        /\ csv'[s].mta \in Bootstrapped(csv[s].mta, "mta")
    BY DEF StartFeed
  <2> QED
    BY <1>1, <2>1, BootstrapKeeps DEF FeedInv
<1>3. csv' \in [FeedThread -> [own : SUBSET Int, mta : SUBSET Int]]
  <2>1. \A s \in FeedThread : csv'[s].own \subseteq Int /\ csv'[s].mta \subseteq Int
    <3> TAKE s \in FeedThread
    <3>1. HigherBarsUntil(slot) \subseteq Nat
      BY <1>1, HigherGrows
    <3> QED
      BY <1>2, <3>1 DEF OwnBars, HigherBars, BarsUntil
  <2>2. \A s \in FeedThread : csv'[s] = [own |-> csv'[s].own, mta |-> csv'[s].mta]
    BY <1>1
  <2>3. csv' = [s \in FeedThread |-> csv'[s]]
    BY <1>1
  <2> QED
    BY <2>1, <2>2, <2>3
<1>4. ASSUME NEW t \in FeedThread
      PROVE  (OwnBars(csv[t].own) /\ HigherBars(csv[t].mta) /\ Follows(feed[t]))'
  <2>1. feed'[t] = Waiting
    BY <1>1
  <2> QED
    BY <1>1, <1>2, <2>1 DEF OwnBars, HigherBars, Follows, HoldsNewest, HigherBarsUntil, BarsUntil,
                            LastBefore, Waiting
<1>5. feed' = [s \in FeedThread |-> feed'[s]]
  BY <1>1
<1> QED
  BY <1>1, <1>3, <1>4, <1>5 DEF FeedInv

\* A slot ends.
LEMMA SlotStep ==
  ASSUME FeedInv, SlotEnds
  PROVE  FeedInv'
<1>1. slot \in Nat /\ slot' = slot + 1 /\ csv' = csv /\ feed' = feed
  BY DEF FeedInv, SlotEnds
<1>2. ASSUME NEW t \in FeedThread
      PROVE  (OwnBars(csv[t].own) /\ HigherBars(csv[t].mta) /\ Follows(feed[t]))'
  <2>1. OwnBars(csv[t].own) /\ HigherBars(csv[t].mta) /\ Follows(feed[t])
    BY DEF FeedInv
  <2> DEFINE S == csv[t].own
             T == csv[t].mta
             f == feed[t]
  <2>2. S' = S /\ T' = T /\ f' = f
    BY <1>1
  <2>3. OwnBars(S)' /\ HigherBars(T)' /\ Follows(f)'
    BY <1>1, <2>1, OwnLater, HigherLater, FollowsLater
  <2> QED
    BY <2>3
<1> QED
  BY <1>1, <1>2 DEF FeedInv

\* Every step that is in time keeps the invariant.
LEMMA FeedStep == FeedInv /\ Timely /\ [FeedNext]_feedVars => FeedInv'
<1> SUFFICES ASSUME FeedInv, Timely, [FeedNext]_feedVars PROVE FeedInv'
  OBVIOUS
<1>1. CASE UNCHANGED feedVars
  BY <1>1 DEF FeedInv, feedVars, OwnBars, HigherBars, Follows, HoldsNewest, HigherBarsUntil,
              BarsUntil, LastBefore, Waiting
<1>2. CASE FeedNext
  BY <1>2, StartStep, SlotStep, FetchOwnStep, FetchMtaStep, OtherSteps DEF FeedNext
<1> QED
  BY <1>1, <1>2

\* It holds at the start.
LEMMA FeedStart == FeedInit => FeedInv
<1> SUFFICES ASSUME FeedInit PROVE FeedInv
  OBVIOUS
<1>1. OwnBars({}) /\ HigherBars({})
  BY DEF OwnBars, HigherBars
<1> QED
  BY <1>1, WaitingFollows, FeedAssumption DEF FeedInit, FeedInv

\* What a thread joins is what had closed.
LEMMA FollowsIsCurrent ==
  ASSUME FeedInv, NEW s \in FeedThread, feed[s].at \notin {"wait", "mta"}
  PROVE  LET closed == {m \in HigherBarsUntil(slot) :
                          \A i \in 0..slot : i \div Ratio = m => i < feed[s].bar}
             joined == Joined(feed[s].mta, feed[s].bar)
         IN  joined \subseteq closed /\ (closed # {} => Max(closed) \in joined)
<1> DEFINE b == feed[s].bar
           U == HigherBarsUntil(slot)
           F == feed[s].mta
           closed == {m \in U : \A i \in 0..slot : i \div Ratio = m => i < b}
           joined == {m \in F : (m + 1) * Ratio <= b}
<1>1. /\ slot \in Nat /\ b \in 0..(slot - 1) /\ F \subseteq U /\ HoldsNewest(F, b)
      /\ Ratio \in Nat
  BY FeedAssumption DEF FeedInv, Follows
<1> HIDE DEF b, F
<1>2. U \subseteq 0..slot
  <2> SUFFICES ASSUME NEW i \in 0..slot PROVE i \div Ratio \in 0..slot
    BY DEF HigherBarsUntil, BarsUntil
  <2>1. i \in Nat /\ i \div Ratio \in 0..i
    BY HigherOf
  <2> QED
    BY <1>1, <2>1
<1>3. \A m \in U : m \in closed <=> (m + 1) * Ratio <= b
  <2> TAKE m \in U
  <2> DEFINE p == m + 1
  <2>1. m \in Nat /\ p \in Int /\ p * Ratio \in Int /\ b \in Nat
    BY <1>1, <1>2
  <2>2. \A i \in Nat : i < p * Ratio <=> i \div Ratio < p
    <3> HIDE DEF p
    <3> QED
      BY <2>1, Earlier
  <2>3. ASSUME p * Ratio <= b, NEW i \in 0..slot, i \div Ratio = m PROVE i < b
    <3>1. i \div Ratio < p
      BY <2>1, <2>3
    <3>2. i < p * Ratio
      BY <2>2, <3>1
    <3> HIDE DEF p
    <3> QED
      BY <2>1, <2>3, <3>2
  <2>4. ASSUME b < p * Ratio, m \in closed PROVE FALSE
    <3>1. b \div Ratio < p /\ b \div Ratio \in Nat
      BY <2>1, <2>2, <2>4, HigherOf
    <3>2. PICK i \in BarsUntil(slot) : m = i \div Ratio
      BY DEF HigherBarsUntil
    <3>3. i \in 0..slot /\ i < b
      BY <2>4, <3>2 DEF BarsUntil
    <3>4. m <= b \div Ratio
      <4> SUFFICES ASSUME b \div Ratio < m PROVE FALSE
        BY <2>1, <3>1
      <4>1. b < m * Ratio /\ m * Ratio <= i /\ m * Ratio \in Int
        BY <1>1, <2>1, <3>2, <3>3, Earlier, HigherOf
      <4> QED
        BY <2>1, <3>3, <4>1
    <3>5. b \div Ratio = m
      BY <2>1, <3>1, <3>4
    <3> QED
      BY <1>1, <2>1, <2>4, <3>5
  <2>5. p * Ratio <= b <=> ~(b < p * Ratio)
    <3> HIDE DEF p
    <3> QED
      BY <2>1
  <2> QED
    BY <2>3, <2>4, <2>5
<1>4. joined \subseteq closed
  BY <1>1, <1>3
<1>5. ASSUME closed # {} PROVE Max(closed) \in joined
  <2>1. closed \subseteq 0..slot
    BY <1>2
  <2> DEFINE m == Max(closed)
  <2>2. m \in closed /\ closed \subseteq 0..m
    <3> HIDE DEF closed
    <3> QED
      BY <1>1, <1>5, <2>1, NewestIn
  <2> HIDE DEF m
  <2>4. m \in U /\ (m + 1) * Ratio <= b
    BY <1>3, <2>2
  <2>5. \A k \in U : (k + 1) * Ratio <= b => k <= m
    BY <1>3, <2>2
  <2>6. m \in F
    BY <1>1, <2>4, <2>5 DEF HoldsNewest
  <2> QED
    BY <2>4, <2>6 DEF m
<1> QED
  BY <1>4, <1>5 DEF Joined, b, F

\* FeedInv holds as long as the fetches are in time.
THEOREM FeedInvariant == FeedSpec /\ []Timely => []FeedInv
BY FeedStart, FeedStep, PTL DEF FeedSpec

\* The decision bar is joined with the newest higher-timeframe bar that had closed when
\* it opened, for every lag, closed market and stale file (data_manager.py:233-247,
\* 276-282).
THEOREM ContextStaysCurrent == FeedSpec /\ []Timely => []ContextIsCurrent
<1>1. FeedInv => ContextIsCurrent
  BY FollowsIsCurrent DEF ContextIsCurrent
<1> QED
  BY <1>1, FeedInvariant, PTL

-----------------------------------------------------------------------------
(* The composition.                                                        *)

\* A step of the monitor's own leaves the account history.
LEMMA MonitorLeavesHistory == MonitorStep => UNCHANGED historyVars
BY DEF MonitorStep, ReadEquity, LoadMonitor, ApplyFlows, SyncEquity, UpdateEquity, SaveMonitor,
       RestartMonitor, historyVars

\* So does a step of the gate's own.
LEMMA GateLeavesHistory ==
  RestartGate \/ (\E t \in GateThread : CheckStep(t)) => UNCHANGED historyVars
BY DEF RestartGate, CheckStep, BeginCheck, TestCooldown, ClearCooldown, CountLosses, LoadPending,
       PollFlows, StorePending, ReadAccount, ShiftPeak, ResetPending, RaisePeak, historyVars

\* A step of SeparateParts is one of every part, or leaves it.
LEMMA StepOfEachPart ==
  ASSUME [PartNext]_partVars
  PROVE  /\ [BacktestNext]_backtestVars /\ [GateNext]_gateVars /\ [MonitorNext]_monitorVars
         /\ [RiskNext]_riskVars /\ [FeedNext]_feedVars /\ [StagingNext]_stagingVars
<1>1. /\ UNCHANGED gateVars <=> UNCHANGED historyVars /\ UNCHANGED gateOnlyVars
      /\ UNCHANGED monitorVars <=> UNCHANGED historyVars /\ UNCHANGED monitorOnlyVars
  BY DEF gateVars, monitorVars, historyVars, gateOnlyVars, monitorOnlyVars
<1>2. CASE UNCHANGED partVars
  BY <1>1, <1>2 DEF partVars
<1>3. CASE BacktestRuns
  BY <1>1, <1>3 DEF BacktestRuns
<1>4. CASE GateRuns
  <2>1. CASE AccountStep /\ UNCHANGED <<gate, cooldownUntil, check>>
    BY <1>1, <1>4, <2>1 DEF GateRuns, MonitorNext, monitorOnlyVars
  <2>2. CASE RestartGate \/ \E t \in GateThread : CheckStep(t)
    BY <1>1, <1>4, <2>2, GateLeavesHistory DEF GateRuns
  <2> QED
    BY <1>4, <2>1, <2>2 DEF GateRuns, GateNext
<1>5. CASE MonitorRuns
  <2>1. CASE AccountStep /\ UNCHANGED <<monitor, file, loop, read>>
    BY <1>1, <1>5, <2>1 DEF MonitorRuns, GateNext, gateOnlyVars
  <2>2. CASE MonitorStep
    BY <1>1, <1>5, <2>2, MonitorLeavesHistory DEF MonitorRuns
  <2> QED
    BY <1>5, <2>1, <2>2 DEF MonitorRuns, MonitorNext
<1>6. CASE BanditsRun
  BY <1>1, <1>6 DEF BanditsRun
<1>7. CASE FeedRuns
  BY <1>1, <1>7 DEF FeedRuns
<1>8. CASE ModelsRun
  BY <1>1, <1>8 DEF ModelsRun
<1> QED
  BY <1>2, <1>3, <1>4, <1>5, <1>6, <1>7, <1>8 DEF PartNext

\* SeparateParts implements the specification of every part, although the gate and the
\* monitor look at one account history: what is proved about a part holds in it.
THEOREM EachPartKeepsItsSpec ==
  PartSpec => /\ BacktestSpec /\ GateSpec /\ MonitorSpec
              /\ RiskSpec /\ FeedSpec /\ StagingSpec
<1>1. PartInit => /\ BacktestInit /\ GateInit /\ MonitorInit
                  /\ RiskInit /\ FeedInit /\ StagingInit
  BY DEF PartInit
<1> QED
  BY <1>1, StepOfEachPart, PTL
     DEF PartSpec, BacktestSpec, GateSpec, MonitorSpec, RiskSpec, FeedSpec, StagingSpec

\* The safety properties of the parts hold in their composition: no label of the future,
\* no deal stepped over, no money lost but at the sync of startup, no evidence counted
\* twice, no model lost or taken unchecked.
THEOREM PartsAreSafe ==
  PartSpec => /\ [](LabelsAreKnown /\ EarlyStopIsFlat)
              /\ [](NothingMissed /\ GateMissesNothing) /\ OnlySyncLosesMoney
              /\ [](TwinBandits /\ PriorsCountedOnce /\ ResetsApart)
              /\ [](ModelOnDisk /\ AcceptedOnly /\ OneRetrainAtATime)
              /\ []Timely => []ContextIsCurrent
<1>1. PartSpec => [](LabelsAreKnown /\ EarlyStopIsFlat)
  BY EachPartKeepsItsSpec, NoLookAhead, StoppedFlat, PTL
<1>2. PartSpec => [](NothingMissed /\ GateMissesNothing) /\ OnlySyncLosesMoney
  BY EachPartKeepsItsSpec, NoDealMissed, PeakStaysPaired, GateSeesEveryDeal, PTL
<1>3. PartSpec => [](TwinBandits /\ PriorsCountedOnce /\ ResetsApart)
  BY EachPartKeepsItsSpec, TwinsAgree, PriorsCount, ResetsStayApart, PTL
<1>4. PartSpec => [](ModelOnDisk /\ AcceptedOnly /\ OneRetrainAtATime)
  BY EachPartKeepsItsSpec, ModelSurvives, LiveIsAccepted, NoOverlap, PTL
<1>5. PartSpec /\ []Timely => []ContextIsCurrent
  BY EachPartKeepsItsSpec, ContextStaysCurrent, PTL
<1> QED
  BY <1>1, <1>2, <1>3, <1>4, <1>5, PTL

=============================================================================
