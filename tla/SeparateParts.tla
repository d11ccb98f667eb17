---------------------------- MODULE SeparateParts ----------------------------
(***************************************************************************)
(* The parts of the project that share no state with each other: the       *)
(* backtester (Backtest), the risk gate (RiskGate), the equity peak of the *)
(* main thread (EquityMonitor), the bandits (RiskController), the bars a   *)
(* decision is made on (BarFeed) and the models (ModelStaging).  A         *)
(* behaviour of this module is a behaviour of one of them; the gate and    *)
(* the monitor look at the same account history, each through a cursor of  *)
(* its own.                                                                *)
(***************************************************************************)
EXTENDS Backtest, RiskGate, EquityMonitor, RiskController, BarFeed, ModelStaging

VARIABLE part

historyVars == <<now, posted>>
gateOnlyVars == <<gate, cooldownUntil, check>>
monitorOnlyVars == <<monitor, file, loop, read>>

partVars == <<part, backtestVars, historyVars, gateOnlyVars, monitorOnlyVars, riskVars, feedVars,
              stagingVars>>

PartInit ==
  /\ part \in {"backtest", "gate", "monitor", "bandits", "feed", "models"}
  /\ part # "bandits" => mode = "live"
  /\ part # "feed" => saving = TRUE
  /\ part # "models" => live = NoFolder
  /\ BacktestInit /\ GateInit /\ MonitorInit /\ RiskInit /\ FeedInit /\ StagingInit

BacktestRuns ==
  /\ part = "backtest" /\ BacktestNext
  /\ UNCHANGED <<part, historyVars, gateOnlyVars, monitorOnlyVars, riskVars, feedVars, stagingVars>>

GateRuns ==
  /\ part = "gate" /\ GateNext
  /\ UNCHANGED <<part, backtestVars, monitorOnlyVars, riskVars, feedVars, stagingVars>>

MonitorRuns ==
  /\ part = "monitor" /\ MonitorNext
  /\ UNCHANGED <<part, backtestVars, gateOnlyVars, riskVars, feedVars, stagingVars>>

BanditsRun ==
  /\ part = "bandits" /\ RiskNext
  /\ UNCHANGED <<part, backtestVars, historyVars, gateOnlyVars, monitorOnlyVars, feedVars,
                 stagingVars>>

FeedRuns ==
  /\ part = "feed" /\ FeedNext
  /\ UNCHANGED <<part, backtestVars, historyVars, gateOnlyVars, monitorOnlyVars, riskVars,
                 stagingVars>>

ModelsRun ==
  /\ part = "models" /\ StagingNext
  /\ UNCHANGED <<part, backtestVars, historyVars, gateOnlyVars, monitorOnlyVars, riskVars, feedVars>>

PartNext == BacktestRuns \/ GateRuns \/ MonitorRuns \/ BanditsRun \/ FeedRuns \/ ModelsRun

PartSpec == PartInit /\ [][PartNext]_partVars

=============================================================================
