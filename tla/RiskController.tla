--------------------------- MODULE RiskController ---------------------------
(***************************************************************************)
(* What the bot learns from its trades: for one symbol the Thompson        *)
(* bandits that choose the stop distance and the entry thresholds, the     *)
(* grids their arms stand for, the adaptation and the reset of both, the   *)
(* state file and the warm start from a backtest.                          *)
(*                                                                         *)
(* An arm is modelled by its evidence: the trades credited to it and the   *)
(* weight of the backtest prior in it.  Which arm looks best, whether a    *)
(* trade won and what the equity does are inputs.  A grid value is an      *)
(* integer (fixed point).                                                  *)
(*                                                                         *)
(* mode "live": the symbol thread decides and resets while the main thread *)
(* learns and saves; the grids are fixed, as config.yaml:129 ships them.   *)
(* mode "backtest": one thread does all of it.                             *)
(***************************************************************************)
EXTENDS Integers, Sequences, FiniteSetsExt

CONSTANTS
  ConfigGrid,       \* thompson_sampling.*_grid of every parameter
  BacktestGrid,     \* the grids in the newest backtest state
  Interval,         \* adaptation_interval_updates
  Shrink,           \* adaptation_refinement_factor in percent
  MinGrid, MaxGrid, \* min_grid_size, max_grid_size
  ResetLosses,      \* reset_on_consecutive_losses
  ResetCooldown,    \* reset_cooldown_hours
  MaxTrades,        \* bound on trades, for each mode
  MaxClock,         \* bound on bar times
  MaxStarts,        \* bound on starts of the program
  Absent,           \* None, no file
  Damaged           \* a file that cannot be read

Param == {"atr", "long", "short"}
TradeSide == {"long", "short"}
Mode == {"live", "backtest"}
Bandit == Param \cup {"context"}
GridOf(b) == IF b = "context" THEN "atr" ELSE b

ASSUME ControllerAssumption ==
  /\ DOMAIN ConfigGrid = Param /\ DOMAIN BacktestGrid = Param
  /\ Interval \in Nat \ {0} /\ Shrink \in 1..99 /\ MinGrid \in Nat /\ MaxGrid \in Nat \ {0}
  /\ ResetLosses \in Nat \ {0} /\ ResetCooldown \in Nat
  /\ MaxTrades \in [Mode -> Nat] /\ MaxClock \in Nat /\ MaxStarts \in Nat
  /\ Absent \notin Int

VARIABLES
  mode,       \* live or backtest
  adaptive,   \* adaptive_grids_enabled
  ctl,        \* the SymbolRiskState and warmstart_sources, in memory
  disk,       \* thompson_sampling.state_file
  decider,    \* where get_params is
  learner,    \* where the main thread is, with what it holds
  trades,     \* the trades taken and not yet credited
  taken,      \* how many were taken
  clock,      \* the decision bar's time
  model,      \* the ensemble AUC of the active model: its name and whether it is low
  starts

riskVars == <<mode, adaptive, ctl, disk, decider, learner, trades, taken, clock, model, starts>>

-----------------------------------------------------------------------------
(* Bandits and grids.                                                      *)

Fresh(grid) == [i \in DOMAIN grid |-> [visits |-> 0, prior |-> 0]]
FreshBandits(grids) == [b \in Bandit |-> Fresh(grids[GridOf(b)])]

Credit(bandit, i) == [bandit EXCEPT ![i].visits = @ + 1]
Visited(bandit) == {i \in DOMAIN bandit : bandit[i].visits + bandit[i].prior > 0}

Distance(a, b) == IF a < b THEN b - a ELSE a - b
Nearest(grid, v) == CHOOSE i \in DOMAIN grid : \A j \in DOMAIN grid :
  \/ Distance(grid[i], v) < Distance(grid[j], v)
  \/ Distance(grid[i], v) = Distance(grid[j], v) /\ i <= j

Total(bandit, S) == [visits |-> MapThenSumSet(LAMBDA i : bandit[i].visits, S),
                     prior |-> MapThenSumSet(LAMBDA i : bandit[i].prior, S)]

\* _transfer_bandit_state: an old arm goes to the closest new one, sums where two meet.
Transfer(bandit, old, new) ==
  [n \in DOMAIN new |-> Total(bandit, {o \in DOMAIN old : Nearest(new, old[o]) = n})]

TransferContextMutant(bandit, old, new) ==
  [n \in DOMAIN new |->
     LET from == {o \in DOMAIN old : Nearest(new, old[o]) = n}
     IN  IF from = {} THEN Total(bandit, {}) ELSE bandit[CHOOSE o \in from : \A p \in from : p <= o]]

\* _transfer_contextual_bandit_state adds the data of A and b, without the prior.
TransferContext(bandit, old, new) == Transfer(bandit, old, new)

Linspace(lo, hi, n) == [i \in 1..n |-> IF n = 1 THEN lo ELSE lo + ((hi - lo) * (i - 1)) \div (n - 1)]
Sorted(S) == CHOOSE s \in [1..Cardinality(S) -> S] : \A i, j \in DOMAIN s : i < j => s[i] < s[j]

\* _refine_grid around the value of the best arm.
Refined(grid, best) ==
  LET last == Len(grid)
      v == grid[best]
      low == IF best = 1 THEN v - (grid[2] - v) * 2 ELSE grid[best - 1]
      high == IF best = last THEN v + (v - grid[last - 1]) * 2 ELSE grid[best + 1]
      half == ((high - low) * Shrink) \div 200
      from == Max({v - half, Min({grid[i] : i \in 1..last})})
      upTo == Min({v + half, Max({grid[i] : i \in 1..last})})
      points == Min({MaxGrid, Max({MinGrid, last + 2})})
      values == {Linspace(from, upTo, points)[i] : i \in 1..points} \cup {v}
      new == Sorted(values)
  IN  IF last <= 1 \/ last < MinGrid \/ upTo <= from \/ Cardinality(values) < MinGrid
        THEN grid
      ELSE IF Cardinality(values) > MaxGrid
        THEN Linspace(new[1], new[Len(new)], MaxGrid)
      ELSE new

\* _adapt_one_grid: the grids it can return, one for every arm that may be the best.
Refinements(c, p) ==
  LET visited == Visited(c.bandits[p])
  IN  IF Len(c.grids[p]) <= 1 \/ visited = {} THEN {c.grids[p]}
      ELSE {Refined(c.grids[p], best) : best \in visited}

Regrid(c, p, new) ==
  LET old == c.grids[p]
      bandits == [c.bandits EXCEPT ![p] = Transfer(@, old, new)]
  IN  IF new = old THEN c
      ELSE [c EXCEPT !.grids[p] = new,
                     !.bandits = IF p = "atr"
                                 THEN [bandits EXCEPT !["context"] = TransferContext(@, old, new)]
                                 ELSE bandits]

\* _check_and_trigger_adaptation: the states it can leave.
Adaptations(c) ==
  LET atr == IF c.atrUpdates < Interval THEN {c}
             ELSE {[Regrid(c, "atr", g) EXCEPT !.atrUpdates = 0] : g \in Refinements(c, "atr")}
      probs(d) == IF d.probUpdates < Interval THEN {d}
                  ELSE {[Regrid(Regrid(d, "long", g), "short", h) EXCEPT !.probUpdates = 0] :
                          g \in Refinements(d, "long"), h \in Refinements(d, "short")}
  IN  IF adaptive THEN UNION {probs(d) : d \in atr} ELSE {c}

-----------------------------------------------------------------------------
(* get_params, on the symbol thread.                                       *)

NewController ==
  [bandits |-> FreshBandits(ConfigGrid), grids |-> ConfigGrid, atrUpdates |-> 0,
   probUpdates |-> 0, losses |-> 0, lastReset |-> Absent, lastAuc |-> Absent,
   resets |-> << >>, warmstarted |-> FALSE]

Up == learner.at \notin {"merge", "load"}
Quiet == mode = "backtest" => learner.at = "loop"

Cooling == ctl.lastReset # Absent /\ clock < ctl.lastReset + ResetCooldown

\* _check_and_trigger_reset: the drawdown and the losses count whenever no reset
\* is cooling down, a low AUC once per model.
CheckReset(drawdown) ==
  /\ Up /\ Quiet /\ decider = "idle"
  /\ IF Cooling THEN ctl' = ctl /\ decider' = "sample"
     ELSE /\ ctl' = [ctl EXCEPT !.lastAuc = model.name]
          /\ decider' =
               IF drawdown \/ ctl.losses >= ResetLosses \/ (model.low /\ ctl.lastAuc # model.name)
               THEN "resetBandits" ELSE "sample"
  /\ UNCHANGED <<mode, adaptive, disk, learner, trades, taken, clock, model, starts>>

ResetBandits ==
  /\ decider = "resetBandits"
  /\ ctl' = [ctl EXCEPT !.bandits = FreshBandits(ConfigGrid)]
  /\ decider' = "resetGrids"
  /\ UNCHANGED <<mode, adaptive, disk, learner, trades, taken, clock, model, starts>>

\* resets (not in the code): the times of the resets behind this state.
ResetGrids ==
  /\ decider = "resetGrids"
  /\ ctl' = [ctl EXCEPT !.grids = ConfigGrid, !.atrUpdates = 0, !.probUpdates = 0, !.losses = 0,
                        !.lastReset = clock, !.resets = Append(@, clock)]
  /\ decider' = "sample"
  /\ UNCHANGED <<mode, adaptive, disk, learner, trades, taken, clock, model, starts>>

\* An arm of every parameter is sampled, the contextual bandit chooses for the
\* stop, and their grid values and visits are read: an index out of range raises.
\* Then the entry may become a trade.
TakeTrade(side, entered) ==
  /\ decider = "sample"
  /\ entered => taken < MaxTrades[mode]
  /\ \E a \in DOMAIN ctl.bandits["context"], l \in DOMAIN ctl.bandits["long"],
        s \in DOMAIN ctl.bandits["short"] :
       LET arms == [atr |-> a, long |-> l, short |-> s]
       IN  /\ entered => /\ \A p \in Param : arms[p] <= Len(ctl.grids[p])
                         /\ a <= Len(ctl.bandits["atr"])
           /\ trades' = IF entered THEN trades \cup {[id |-> taken, side |-> side, arms |-> arms]} ELSE trades
  /\ taken' = IF entered THEN taken + 1 ELSE taken
  /\ decider' = "idle"
  /\ UNCHANGED <<mode, adaptive, ctl, disk, learner, clock, model, starts>>

-----------------------------------------------------------------------------
(* update, on the main thread.                                             *)

Rest == [at |-> "loop", trade |-> Absent, saved |-> Absent]

\* The metrics and the contextual bandit.  A trade without a risk amount teaches
\* the bandits nothing; the contextual bandit has no check of the index, so one
\* of another grid raises and ends the update.
LearnContext(trade, won, risked) ==
  LET seen == [ctl EXCEPT !.losses = IF won THEN 0 ELSE @ + 1]
      arm == trade.arms["atr"]
  IN  /\ Up /\ learner.at = "loop" /\ trade \in trades
      /\ mode = "backtest" => decider = "idle"
      /\ trades' = trades \ {trade}
      /\ IF risked /\ arm \in DOMAIN ctl.bandits["context"]
         THEN /\ ctl' = [seen EXCEPT !.bandits["context"] = Credit(@, arm)]
              /\ learner' = [learner EXCEPT !.at = "credit", !.trade = trade]
         ELSE ctl' = seen /\ UNCHANGED learner
      /\ UNCHANGED <<mode, adaptive, disk, decider, taken, clock, model, starts>>

CreditIfArm(bandit, i) == IF i \in DOMAIN bandit THEN Credit(bandit, i) ELSE bandit

\* The visit on the plain stop bandit, the threshold bandit of the side that was
\* traded, the counters, and the adaptation.
LearnRest ==
  LET trade == learner.trade
      visited == [ctl.bandits EXCEPT !["atr"] = CreditIfArm(@, trade.arms["atr"]),
                                     ![trade.side] = CreditIfArm(@, trade.arms[trade.side])]
      credited == [ctl EXCEPT !.bandits = visited, !.atrUpdates = @ + 1, !.probUpdates = @ + 1]
  IN  /\ learner.at = "credit"
      /\ ctl' \in Adaptations(credited)
      /\ learner' = Rest
      /\ UNCHANGED <<mode, adaptive, disk, decider, trades, taken, clock, model, starts>>

-----------------------------------------------------------------------------
(* The state file.                                                         *)

\* get_state takes the plain bandits first, the rest after them.
SaveBandits ==
  /\ mode = "live" /\ learner.at = "loop"
  /\ learner' = [learner EXCEPT !.at = "write", !.saved = ctl.bandits]
  /\ UNCHANGED <<mode, adaptive, ctl, disk, decider, trades, taken, clock, model, starts>>

WriteState ==
  /\ learner.at = "write"
  /\ disk' \in {disk, [ctl EXCEPT !.bandits = [learner.saved EXCEPT !["context"] = ctl.bandits["context"]]]}
  /\ learner' = Rest
  /\ UNCHANGED <<mode, adaptive, ctl, decider, trades, taken, clock, model, starts>>

Readable(d) == d # Absent /\ d # Damaged

Prior == [b \in Bandit |-> [i \in DOMAIN BacktestGrid[GridOf(b)] |-> [visits |-> 0, prior |-> 1]]]

ArmOf(bandit, i) == IF i \in DOMAIN bandit THEN bandit[i] ELSE [visits |-> 0, prior |-> 0]
Added(a, b) == [visits |-> a.visits + b.visits, prior |-> a.prior + b.prior]

\* _merge_bandit_states: arms are paired by index, only on equal grids.
MergedBandits(c) ==
  [b \in Bandit |-> IF c.grids[GridOf(b)] # BacktestGrid[GridOf(b)] THEN c.bandits[b]
                    ELSE [i \in DOMAIN c.bandits[b] \cup DOMAIN Prior[b] |->
                            Added(ArmOf(c.bandits[b], i), ArmOf(Prior[b], i))]]

MergedMutant(d) ==
  IF ~Readable(d) THEN [NewController EXCEPT !.bandits = Prior, !.grids = BacktestGrid]
  ELSE [d EXCEPT !.bandits = MergedBandits(d)]

\* merge_warmstart: once for every live file; a file that cannot be read counts as none.
Merged(d) ==
  CASE ~Readable(d) -> [NewController EXCEPT !.bandits = Prior, !.grids = BacktestGrid, !.warmstarted = TRUE]
    [] Readable(d) /\ d.warmstarted -> d
    [] OTHER -> [d EXCEPT !.bandits = MergedBandits(d), !.warmstarted = TRUE]

\* No backtest file, a weight of 0 or a failed save leave the file alone.
MergeWarmstart ==
  /\ learner.at = "merge"
  /\ disk' \in {disk, Merged(disk)}
  /\ learner' = [learner EXCEPT !.at = "load"]
  /\ UNCHANGED <<mode, adaptive, ctl, decider, trades, taken, clock, model, starts>>

LoadStateMutant ==
  /\ learner.at = "load"
  /\ ctl' = IF Readable(disk) THEN [disk EXCEPT !.lastReset = Absent] ELSE NewController
  /\ disk' = IF Readable(disk) THEN disk ELSE Absent
  /\ learner' = Rest
  /\ UNCHANGED <<mode, adaptive, decider, trades, taken, clock, model, starts>>

\* load_state: a damaged file is set aside and the bandits start fresh.  Files
\* are replaced as a whole, so a file that json can read is one the program wrote; a
\* load that fails in the middle of such a file, and keeps what it has read, is left out.
LoadState ==
  /\ learner.at = "load"
  /\ ctl' = IF Readable(disk) THEN disk ELSE NewController
  /\ disk' = IF Readable(disk) THEN disk ELSE Absent
  /\ learner' = Rest
  /\ UNCHANGED <<mode, adaptive, decider, trades, taken, clock, model, starts>>

\* A crash, a shutdown or a reconnect: the file stays, and may be found damaged.
RestartController ==
  /\ mode = "live" /\ starts < MaxStarts
  /\ starts' = starts + 1
  /\ ctl' = NewController
  /\ disk' \in {disk} \cup (IF disk = Absent THEN {} ELSE {Damaged})
  /\ decider' = "idle"
  /\ learner' = [Rest EXCEPT !.at = "merge"]
  /\ UNCHANGED <<mode, adaptive, trades, taken, clock, model>>

-----------------------------------------------------------------------------
NextBar ==
  /\ clock < MaxClock /\ clock' = clock + 1
  /\ UNCHANGED <<mode, adaptive, ctl, disk, decider, learner, trades, taken, model, starts>>

NewModel(low) ==
  /\ model.name < 2
  /\ model' = [name |-> model.name + 1, low |-> low]
  /\ UNCHANGED <<mode, adaptive, ctl, disk, decider, learner, trades, taken, clock, starts>>

RiskInit ==
  /\ mode \in Mode /\ adaptive \in BOOLEAN /\ (adaptive => mode = "backtest")
  /\ ctl = NewController /\ disk = Absent
  /\ decider = "idle"
  /\ learner = IF mode = "live" THEN [Rest EXCEPT !.at = "merge"] ELSE Rest
  /\ trades = {} /\ taken = 0 /\ clock = 0
  /\ model = [name |-> 1, low |-> FALSE] /\ starts = 1

RiskNext ==
  \/ \E drawdown \in BOOLEAN : CheckReset(drawdown)
  \/ ResetBandits \/ ResetGrids
  \/ \E side \in TradeSide, entered \in BOOLEAN : TakeTrade(side, entered)
  \/ \E trade \in trades, won, risked \in BOOLEAN : LearnContext(trade, won, risked)
  \/ LearnRest
  \/ SaveBandits \/ WriteState \/ MergeWarmstart \/ LoadState \/ RestartController
  \/ NextBar \/ \E low \in BOOLEAN : NewModel(low)

RiskSpec == RiskInit /\ [][RiskNext]_riskVars

-----------------------------------------------------------------------------
(* Properties.                                                             *)

AtRest == decider = "idle" /\ learner.at = "loop"

\* In a backtest the two stop bandits tell the same story: whatever is credited,
\* adapted and reset, every arm of the contextual bandit, which chooses, has
\* the evidence of the plain one, by which get_params judges whether the arm is
\* still exploratory (risk_controller.py:561-565).
TwinBandits ==
  mode = "backtest" /\ AtRest => ctl.bandits["context"] = ctl.bandits["atr"]

\* The evidence of a backtest is added at most once, over any number of starts,
\* crashes, failed saves and damaged files (bandit_warmstart.py:186-188).
PriorsCountedOnce ==
  LET once(c) == \A b \in Bandit : \A i \in DOMAIN c.bandits[b] : c.bandits[b][i].prior <= 1
  IN  mode = "live" => once(ctl) /\ (Readable(disk) => once(disk))

\* The resets behind what is known now lie a cooldown apart, also when the
\* program was restarted between them (risk_controller.py:805-813).
ResetsApart ==
  \A i \in 2..Len(ctl.resets) : ctl.resets[i] >= ctl.resets[i - 1] + ResetCooldown

-----------------------------------------------------------------------------
(* Why they hold: inductive invariants.                                    *)

\* What a SymbolRiskState always has; the grids and the evidence are no concern of it.
Shaped(c) ==
  /\ c = [bandits |-> c.bandits, grids |-> c.grids, atrUpdates |-> c.atrUpdates,
          probUpdates |-> c.probUpdates, losses |-> c.losses, lastReset |-> c.lastReset,
          lastAuc |-> c.lastAuc, resets |-> c.resets, warmstarted |-> c.warmstarted]
  /\ c.bandits = [b \in Bandit |-> c.bandits[b]]

\* Where the two threads can be.  A start finds no decision under way; in a backtest
\* nothing is saved, and a decision and an update exclude each other.
WhereInv ==
  /\ mode \in Mode /\ adaptive \in BOOLEAN /\ (adaptive => mode = "backtest")
  /\ decider \in {"idle", "resetBandits", "resetGrids", "sample"}
  /\ learner = [at |-> learner.at, trade |-> learner.trade, saved |-> learner.saved]
  /\ learner.at \in {"merge", "load", "loop", "credit", "write"}
  /\ ~Up => decider = "idle"
  /\ mode = "backtest" => /\ learner.at \in {"loop", "credit"} /\ disk = Absent
                          /\ learner.at = "credit" => decider = "idle"
  /\ \A t \in trades : t.side \in TradeSide
  /\ learner.at = "credit" => learner.trade.side \in TradeSide
  /\ learner.at = "write" => learner.saved = [b \in Bandit |-> learner.saved[b]]
  /\ Shaped(ctl) /\ (Readable(disk) => Shaped(disk))

\* The reset times of a state: none lies ahead, each a cooldown after the one before,
\* and the cooldown counts from the last.
ResetsOf(c, time) ==
  LET n == Len(c.resets)
  IN  /\ c.resets \in Seq(Int)
      /\ \A i \in 1..n : c.resets[i] <= time
      /\ c.lastReset = IF n = 0 THEN Absent ELSE c.resets[n]
      /\ \A i \in 2..n : c.resets[i] >= c.resets[i - 1] + ResetCooldown

\* Why the resets lie apart: once a reset has been decided the clock only moves away
\* from the last one, and a file knows as much as the state it was made from.
ResetInv ==
  /\ clock \in Nat
  /\ ResetsOf(ctl, clock) /\ (Readable(disk) => ResetsOf(disk, clock))
  /\ decider \in {"resetBandits", "resetGrids"} => ~Cooling

\* Between the two updates of a trade the contextual bandit is ahead by that trade.
TwinInv ==
  mode = "backtest" =>
    LET plain == ctl.bandits["atr"]
        arm == learner.trade.arms["atr"]
    IN  /\ learner.at = "loop" => ctl.bandits["context"] = plain
        /\ learner.at = "credit" => /\ arm \in DOMAIN plain
                                    /\ ctl.bandits["context"] = Credit(plain, arm)

\* Bandits with at most one prior in an arm, and none before the warm start is marked.
PriorsOf(bandits, warmstarted) ==
  \A b \in Bandit :
    /\ bandits[b] = [i \in DOMAIN bandits[b] |-> bandits[b][i]]
    /\ \A i \in DOMAIN bandits[b] :
         bandits[b][i] \in [visits : Nat, prior : IF warmstarted THEN 0..1 ELSE {0}]

\* Why a prior counts once: the mark is written with it and travels with it, through
\* the file, the half of a save that is taken first, and every reset.
PriorInv ==
  mode = "live" =>
    /\ ctl.warmstarted \in BOOLEAN /\ PriorsOf(ctl.bandits, ctl.warmstarted)
    /\ Readable(disk) => /\ disk.warmstarted \in BOOLEAN
                         /\ PriorsOf(disk.bandits, disk.warmstarted)
    /\ learner.at = "write" => PriorsOf(learner.saved, ctl.warmstarted)

\* Every bandit has an arm for each value of its grid ("The number of arms will now
\* match perfectly", risk_controller.py:206): an arm that is chosen has a value.
ArmsMatch(c) == \A b \in Bandit : DOMAIN c.bandits[b] = DOMAIN c.grids[GridOf(b)]

ArmsMatchGrids == decider # "resetGrids" => ArmsMatch(ctl)

\* The grids of the newest backtest are as long as the configured ones.
SameLengths == \A p \in Param : DOMAIN BacktestGrid[p] = DOMAIN ConfigGrid[p]

\* As long as the configuration says.
Configured(bandits) == \A b \in Bandit : DOMAIN bandits[b] = DOMAIN ConfigGrid[GridOf(b)]

\* Why arms match: a reset brings the bandits to the length of the grids it sets next;
\* in the live bot all lengths are the configured one, also that of the half of a save
\* taken before a reset.
ArmsInv ==
  /\ DOMAIN ctl.grids = Param /\ (Readable(disk) => DOMAIN disk.grids = Param)
  /\ mode = "backtest" => IF decider = "resetGrids" THEN Configured(ctl.bandits)
                                                    ELSE ArmsMatch(ctl)
  /\ mode = "live" /\ SameLengths =>
       /\ Configured(ctl.bandits) /\ ArmsMatch(ctl)
       /\ Readable(disk) => Configured(disk.bandits) /\ ArmsMatch(disk)
       /\ learner.at = "write" => Configured(learner.saved)

=============================================================================
