------------------------------ MODULE H1Bridge ------------------------------
(***************************************************************************)
(* The H1 strategy's two programs and the files between them: the expert   *)
(* advisor in the terminal (src/mql5/H1Bridge.mq5) exports closed bars and *)
(* executes signals, the bot (src/h1_bot.py, src/src/h1_bridge.py,         *)
(* src/src/h1_strategy.py) merges the bars into its cache and writes one   *)
(* signal per decision.  Each runs at its own pace and can be stopped and  *)
(* started again at any step.                                              *)
(*                                                                         *)
(* Bars are numbered in the order of their open time; bar b is closed as   *)
(* soon as bar b + 1 is forming, which is the bar_close of its signal.     *)
(*                                                                         *)
(* A definition whose name ends in Mutant is the one after it with a       *)
(* mistake; no action uses it.                                             *)
(***************************************************************************)
EXTENDS Integers, Sequences, FiniteSets

CONSTANTS
  Origin,         \* last bar of the history the cache is copied from
  FirstBar,       \* bound: the first bar that forms
  MaxBar,         \* bound: the last bar that forms
  Window,         \* InpExportBars
  MaxGap,         \* MAX_GAP, in bars
  Hold,           \* HORIZON and the 24 bars of ManageExit
  Warmup, TrainRows, RetrainEvery,
  MaxBridgeRestarts,   \* bound: stops of either program
  Nothing         \* no file, no bar, no models

ASSUME BridgeAssumption ==
  /\ Origin \in Nat /\ FirstBar \in Nat /\ MaxBar \in Nat
  /\ Origin < FirstBar /\ FirstBar <= MaxBar
  /\ Window \in Nat \ {0} /\ MaxGap \in Nat \ {0} /\ Hold \in Nat \ {0}
  /\ Warmup \in Nat /\ TrainRows \in Nat \ {0} /\ RetrainEvery \in Nat \ {0}
  /\ MaxBridgeRestarts \in Nat
  /\ Nothing \notin Int

VARIABLES
  bar,         \* the bar that is forming
  late,        \* InpMaxSignalAge seconds of it have passed
  \* files
  barsFile,    \* h1_bars: the last bar of the export
  cacheFile,   \* data/live: its last bar, and the bars missing before that one
  stateFile,   \* last_bar
  signalFile,
  \* the bot
  botPc, merged, fold,
  \* the expert advisor
  eaPc, tmpFile, exportedAt, lastClose, killed,
  globals,     \* its global variables of the terminal, which outlive it
  \* the account
  position,    \* the open position of InpMagic
  bridgeRestarts,
  entries      \* history: the positions opened, in this order

fileVars == <<barsFile, cacheFile, stateFile, signalFile>>
botVars == <<botPc, merged, fold>>
eaVars == <<eaPc, tmpFile, exportedAt, lastClose, killed, globals>>
clockVars == <<bar, late>>
accountVars == <<position, entries>>
bridgeVars ==
  <<clockVars, fileVars, botVars, eaVars, accountVars, bridgeRestarts>>

-----------------------------------------------------------------------------
Bar == 0..MaxBar
Side == {"enter", "none"}
History == [end : Bar, missing : SUBSET Bar]
\* history: the bars the decision was made from; models: its training rows' end.
Signal == [bar : Bar, side : Side, history : History, models : Int \cup {Nothing}]
Entry == [signal : Bar, history : History, at : Bar]

BridgeTypeOK ==
  /\ bar \in Bar /\ late \in BOOLEAN
  /\ barsFile \in Bar \cup {Nothing} /\ tmpFile \in Bar \cup {Nothing}
  /\ cacheFile \in History /\ merged \in History
  /\ stateFile \in Bar \cup {Nothing}
  /\ signalFile \in Signal \cup {Nothing}
  /\ botPc \in {"idle", "merged", "deciding", "published"}
  /\ fold \in Int \cup {Nothing}
  /\ eaPc \in {"off", "idle", "export", "moving", "manage", "signal"}
  /\ exportedAt \in Bar \cup {Nothing}
  /\ lastClose \in Bar \cup {Nothing}
  /\ killed \in BOOLEAN
  /\ globals \in [lastClose : Bar \cup {Nothing}, killed : BOOLEAN]
  /\ position \in Entry \cup {Nothing}
  /\ bridgeRestarts \in 0..MaxBridgeRestarts
  /\ entries \in Seq(Entry)

Newer(b, last) == last # Nothing => b > last

-----------------------------------------------------------------------------
(* The bot.  A poll that finds no bars file, disagreeing bars or too long a *)
(* hole changes nothing, and the loop polls again.                          *)

\* The first bar of an export that ends at last and is newer than the history.
FirstFresh(h, last) ==
  IF last - Window >= h.end THEN last - Window + 1 ELSE h.end + 1

\* merge_bars.
MergeBars(h, last) ==
  IF last <= h.end THEN h
  ELSE [end |-> last,
        missing |-> h.missing \cup ((h.end + 1)..(FirstFresh(h, last) - 1))]

GapTooWideMutant(h, last) == FALSE

\* "a longer hole in the cache means missed bars (bot was off)": it raises.
GapTooWide(h, last) == last > h.end /\ FirstFresh(h, last) - h.end > MaxGap

Poll ==
  /\ botPc = "idle" /\ barsFile # Nothing
  /\ ~GapTooWide(cacheFile, barsFile)
  /\ merged' = MergeBars(cacheFile, barsFile)
  /\ ~(merged'.end = cacheFile.end /\ stateFile = merged'.end)
  /\ botPc' = "merged"
  /\ UNCHANGED <<clockVars, fileVars, fold, eaVars, accountVars, bridgeRestarts>>

WriteCacheMutant ==
  /\ botPc = "merged"
  /\ botPc' = IF Newer(merged.end, stateFile) THEN "deciding" ELSE "idle"
  /\ UNCHANGED <<clockVars, fileVars, merged, fold, eaVars, accountVars, bridgeRestarts>>

\* The longer history is written first; then an already decided bar ends the poll.
WriteCache ==
  /\ botPc = "merged"
  /\ cacheFile' = merged
  /\ botPc' = IF Newer(merged.end, stateFile) THEN "deciding" ELSE "idle"
  /\ UNCHANGED <<clockVars, barsFile, stateFile, signalFile, merged, fold, eaVars,
                 accountVars, bridgeRestarts>>

\* The feature rows of a history: its bars without the warm-up.
LastRow(h) == h.end - Cardinality(h.missing) - Warmup

FoldStart(row) == TrainRows + RetrainEvery * ((row - TrainRows) \div RetrainEvery)

\* Rows Fold - TrainRows up to, not including, the value of this.
TrainEnd(s) == s - Hold

PublishMutant(side) ==
  LET row == LastRow(merged)
      s == IF fold = Nothing THEN FoldStart(row) ELSE fold
  IN  /\ botPc = "deciding"
      /\ row < TrainRows => side = "none"
      /\ fold' = IF row < TrainRows THEN fold ELSE s
      /\ signalFile' = [bar |-> merged.end, side |-> side, history |-> merged,
                        models |-> IF row < TrainRows THEN Nothing ELSE TrainEnd(s)]
      /\ botPc' = "published"
      /\ UNCHANGED <<clockVars, barsFile, cacheFile, stateFile, merged, eaVars,
                     accountVars, bridgeRestarts>>

\* decide on the last bar, with the models of its fold (fitted when the fold is
\* another one), then the signal file, which is replaced as a whole.
Publish(side) ==
  LET row == LastRow(merged)
      s == FoldStart(row)
  IN  /\ botPc = "deciding"
      /\ row < TrainRows => side = "none"
      /\ fold' = IF row < TrainRows THEN fold ELSE s
      /\ signalFile' = [bar |-> merged.end, side |-> side, history |-> merged,
                        models |-> IF row < TrainRows THEN Nothing ELSE TrainEnd(s)]
      /\ botPc' = "published"
      /\ UNCHANGED <<clockVars, barsFile, cacheFile, stateFile, merged, eaVars,
                     accountVars, bridgeRestarts>>

SaveProcessed ==
  /\ botPc = "published"
  /\ stateFile' = merged.end
  /\ botPc' = "idle"
  /\ UNCHANGED <<clockVars, barsFile, cacheFile, signalFile, merged, fold, eaVars,
                 accountVars, bridgeRestarts>>

\* Any write may raise (the other program has the file open): the cycle ends.
CycleFails ==
  /\ botPc # "idle"
  /\ botPc' = "idle" /\ merged' = cacheFile
  /\ UNCHANGED <<clockVars, fileVars, fold, eaVars, accountVars, bridgeRestarts>>

\* The process ends and a new one starts, without models.
BotRestarts ==
  /\ bridgeRestarts < MaxBridgeRestarts
  /\ bridgeRestarts' = bridgeRestarts + 1
  /\ botPc' = "idle" /\ merged' = cacheFile /\ fold' = Nothing
  /\ UNCHANGED <<clockVars, fileVars, eaVars, accountVars>>

BotStep ==
  \/ Poll \/ WriteCache
  \/ \E side \in Side : Publish(side)
  \/ SaveProcessed

-----------------------------------------------------------------------------
(* The expert advisor: OnTimer, one call at a time.                         *)

\* CheckKill, then the export when a new bar has opened.
OnTimer(low) ==
  /\ eaPc = "idle"
  /\ killed' = (killed \/ low)
  /\ globals' = [globals EXCEPT !.killed = @ \/ (low /\ ~killed)]
  /\ exportedAt' = bar
  /\ eaPc' = IF exportedAt = bar THEN "manage" ELSE "export"
  /\ UNCHANGED <<clockVars, fileVars, botVars, tmpFile, lastClose, accountVars,
                 bridgeRestarts>>

\* OnInit exports too and returns; the next OnTimer exports again.
AfterExport == IF exportedAt = Nothing THEN "idle" ELSE "manage"

ExportBarsMutant ==
  /\ eaPc = "export"
  /\ bar > 0
  /\ tmpFile' = bar
  /\ barsFile' = Nothing
  /\ eaPc' = "moving"
  /\ UNCHANGED <<clockVars, cacheFile, stateFile, signalFile, botVars, exportedAt,
                 lastClose, killed, globals, accountVars, bridgeRestarts>>

\* The closed bars go to the temporary file, then the old export is deleted.
ExportBars ==
  /\ eaPc = "export"
  /\ bar > 0
  /\ tmpFile' = bar - 1
  /\ barsFile' = Nothing
  /\ eaPc' = "moving"
  /\ UNCHANGED <<clockVars, cacheFile, stateFile, signalFile, botVars, exportedAt,
                 lastClose, killed, globals, accountVars, bridgeRestarts>>

\* No bars, no temporary file, or the old export cannot be deleted, as FileMove
\* does not replace: nothing is exported, and nothing until the next bar.
ExportFails ==
  /\ eaPc = "export"
  /\ eaPc' = AfterExport
  /\ UNCHANGED <<clockVars, fileVars, botVars, tmpFile, exportedAt, lastClose, killed,
                 globals, accountVars, bridgeRestarts>>

MoveExport ==
  /\ eaPc = "moving"
  /\ barsFile' = tmpFile /\ tmpFile' = Nothing
  /\ eaPc' = AfterExport
  /\ UNCHANGED <<clockVars, cacheFile, stateFile, signalFile, botVars, exportedAt,
                 lastClose, killed, globals, accountVars, bridgeRestarts>>

IsDue == position # Nothing /\ bar - position.at >= Hold

ManageExitMutant(closes) ==
  /\ eaPc = "manage"
  /\ closes => position # Nothing /\ bar - position.at = Hold
  /\ position' = IF closes THEN Nothing ELSE position
  /\ eaPc' = "signal"
  /\ UNCHANGED <<clockVars, fileVars, botVars, tmpFile, exportedAt, lastClose, killed,
                 globals, entries, bridgeRestarts>>

\* A close that fails is tried again at the next timer.
ManageExit(closes) ==
  /\ eaPc = "manage"
  /\ closes => IsDue
  /\ position' = IF closes THEN Nothing ELSE position
  /\ eaPc' = "signal"
  /\ UNCHANGED <<clockVars, fileVars, botVars, tmpFile, exportedAt, lastClose, killed,
                 globals, entries, bridgeRestarts>>

IsNew == signalFile # Nothing /\ Newer(signalFile.bar, lastClose)

IsStale(b) == bar > b + 1 \/ late

MayEnterMutant == signalFile.side = "enter" /\ position = Nothing /\ ~killed

MayEnter ==
  /\ signalFile.side = "enter"
  /\ ~IsStale(signalFile.bar)
  /\ position = Nothing
  /\ ~killed

IgnoreSignal ==
  /\ eaPc = "signal" /\ ~IsNew
  /\ eaPc' = "idle"
  /\ UNCHANGED <<clockVars, fileVars, botVars, tmpFile, exportedAt, lastClose, killed,
                 globals, accountVars, bridgeRestarts>>

HandleSignalMutant(fills) ==
  LET entry == [signal |-> signalFile.bar, history |-> signalFile.history, at |-> bar]
  IN  /\ eaPc = "signal" /\ IsNew
      /\ fills => MayEnter
      /\ lastClose' = signalFile.bar
      /\ position' = IF fills THEN entry ELSE position
      /\ entries' = IF fills THEN Append(entries, entry) ELSE entries
      /\ eaPc' = "idle"
      /\ UNCHANGED <<clockVars, fileVars, botVars, tmpFile, exportedAt, killed,
                     globals, bridgeRestarts>>

\* A newer signal is marked as acted on before anything else is looked at; the
\* order that follows may not be filled.
HandleSignal(fills) ==
  LET entry == [signal |-> signalFile.bar, history |-> signalFile.history, at |-> bar]
  IN  /\ eaPc = "signal" /\ IsNew
      /\ fills => MayEnter
      /\ lastClose' = signalFile.bar
      /\ globals' = [globals EXCEPT !.lastClose = signalFile.bar]
      /\ position' = IF fills THEN entry ELSE position
      /\ entries' = IF fills THEN Append(entries, entry) ELSE entries
      /\ eaPc' = "idle"
      /\ UNCHANGED <<clockVars, fileVars, botVars, tmpFile, exportedAt, killed,
                     bridgeRestarts>>

\* The terminal or the advisor is closed at any step, and started again: OnInit.
AdvisorStops ==
  /\ eaPc # "off"
  /\ bridgeRestarts < MaxBridgeRestarts
  /\ bridgeRestarts' = bridgeRestarts + 1
  /\ eaPc' = "off"
  /\ tmpFile' = Nothing /\ exportedAt' = Nothing
  /\ lastClose' = Nothing /\ killed' = FALSE
  /\ UNCHANGED <<clockVars, fileVars, botVars, globals, accountVars>>

OnInitMutant ==
  /\ eaPc = "off"
  /\ lastClose' = globals.lastClose
  /\ killed' = FALSE
  /\ eaPc' = "export"
  /\ UNCHANGED <<clockVars, fileVars, botVars, tmpFile, exportedAt, globals, accountVars,
                 bridgeRestarts>>

OnInit ==
  /\ eaPc = "off"
  /\ lastClose' = globals.lastClose
  /\ killed' = globals.killed
  /\ eaPc' = "export"
  /\ UNCHANGED <<clockVars, fileVars, botVars, tmpFile, exportedAt, globals, accountVars,
                 bridgeRestarts>>

AdvisorStep ==
  \/ \E b \in BOOLEAN : OnTimer(b) \/ ManageExit(b) \/ HandleSignal(b)
  \/ ExportBars \/ ExportFails \/ MoveExport
  \/ IgnoreSignal

-----------------------------------------------------------------------------
(* The market.                                                             *)

NewBar ==
  /\ bar < MaxBar
  /\ bar' = bar + 1 /\ late' = FALSE
  /\ UNCHANGED <<fileVars, botVars, eaVars, accountVars, bridgeRestarts>>

SignalsExpire ==
  /\ ~late /\ late' = TRUE
  /\ UNCHANGED <<bar, fileVars, botVars, eaVars, accountVars, bridgeRestarts>>

\* The broker-side stop.
StoppedOut ==
  /\ position # Nothing
  /\ position' = Nothing
  /\ UNCHANGED <<clockVars, fileVars, botVars, eaVars, entries, bridgeRestarts>>

\* The cache has just been copied from the history, which may be older.
BridgeInit ==
  /\ bar \in FirstBar..MaxBar /\ late = FALSE
  /\ cacheFile = [end |-> Origin, missing |-> {}] /\ merged = cacheFile
  /\ barsFile = Nothing /\ tmpFile = Nothing
  /\ stateFile = Nothing /\ signalFile = Nothing
  /\ botPc = "idle" /\ fold = Nothing
  /\ eaPc = "off" /\ exportedAt = Nothing /\ lastClose = Nothing /\ killed = FALSE
  /\ globals = [lastClose |-> Nothing, killed |-> FALSE]
  /\ position = Nothing /\ entries = <<>>
  /\ bridgeRestarts = 0

BridgeNext ==
  \/ BotStep \/ CycleFails \/ BotRestarts
  \/ AdvisorStep \/ AdvisorStops \/ OnInit
  \/ NewBar \/ SignalsExpire \/ StoppedOut

BridgeSpec == BridgeInit /\ [][BridgeNext]_bridgeVars

\* The advisor is started and its timer goes on; a close that is tried again and
\* again succeeds.
BridgeFairness ==
  /\ WF_bridgeVars(OnInit) /\ WF_bridgeVars(AdvisorStep)
  /\ SF_bridgeVars(ManageExit(TRUE))

FairBridge == BridgeSpec /\ BridgeFairness

-----------------------------------------------------------------------------
(* Properties.                                                             *)

\* "only strictly newer signals are acted on" (H1Bridge.mq5:145): the positions
\* opened belong to ever newer signals, also when the bot decides a bar again
\* after a restart and the advisor forgets what it did.
SignalsActedOnce ==
  \A i, j \in DOMAIN entries : i < j => entries[i].signal < entries[j].signal

\* A position is opened while the bar right after the decided one is forming, and
\* the decision saw that bar and none that was not closed, however long the bot
\* took and however old the export was.
EntryIsCurrent ==
  \A i \in DOMAIN entries :
    /\ entries[i].at = entries[i].signal + 1
    /\ entries[i].history.end = entries[i].signal

Holds(h, b) == b <= h.end /\ b \notin h.missing

\* The cache has closed bars only, since "the forming bar is never exported"
\* (H1Bridge.mq5:47), and no hole of MaxGap bars: no decision is ever made across
\* a longer one (h1_bridge.py:16).
CacheIsSound ==
  /\ cacheFile.end < bar
  /\ \A b \in 0..cacheFile.end :
       \E c \in b..(b + MaxGap - 1) : Holds(cacheFile, c)

\* A bar that is decided twice, because the bot was stopped before it noted the
\* first decision, is decided from the same bars by models of the same fold: what
\* the signal was made from is on disk before the signal is.
DecidedFromDisk ==
  signalFile # Nothing =>
    LET h == signalFile.history
    IN  /\ cacheFile.end >= h.end
        /\ \A b \in 0..h.end : Holds(h, b) <=> Holds(cacheFile, b)
        /\ signalFile.models # Nothing =>
             signalFile.models = TrainEnd(FoldStart(LastRow(h)))

\* No trade after a drawdown kill, whatever is restarted: "refuses to trade after
\* a drawdown kill" (H1Bridge.mq5:4).
KilledForGood == [][globals.killed => entries' = entries]_bridgeVars

\* A position that is due is closed in the end, although closes fail and the
\* advisor may be off when it falls due.
ExitHappens == IsDue ~> position = Nothing

-----------------------------------------------------------------------------
(* Why the safety properties hold: an inductive invariant.                 *)

HistoryOK(h) ==
  /\ h.end < bar
  /\ h.missing \subseteq 0..(h.end - 1)
  /\ \A b \in 0..h.end : \E c \in b..(b + MaxGap - 1) : Holds(h, c)

\* h is what the longer or equal history g was up to h's end.
PrefixOf(h, g) ==
  /\ h.end <= g.end
  /\ \A b \in 0..h.end : b \in h.missing <=> b \in g.missing

\* Nothing in a file is ahead of what it was made from: exports of closed bars,
\* a cache that only grows, signals made from the cache.
FilesInv ==
  /\ \A f \in {barsFile, tmpFile} : f # Nothing => f < bar
  /\ HistoryOK(cacheFile) /\ HistoryOK(merged)
  /\ botPc \in {"deciding", "published"} => merged = cacheFile
  /\ botPc = "merged" => PrefixOf(cacheFile, merged)
  /\ signalFile # Nothing =>
       /\ signalFile.bar = signalFile.history.end
       /\ PrefixOf(signalFile.history, cacheFile)
       /\ signalFile.models # Nothing =>
            signalFile.models = TrainEnd(FoldStart(LastRow(signalFile.history)))

\* What the advisor has acted on is in its global variables first.
AdvisorInv ==
  /\ eaPc # "off" => lastClose = globals.lastClose /\ killed = globals.killed
  /\ \A i \in DOMAIN entries :
       globals.lastClose # Nothing /\ entries[i].signal <= globals.lastClose
  /\ position # Nothing => position.at <= bar

BridgeInv ==
  /\ BridgeTypeOK /\ FilesInv /\ AdvisorInv
  /\ SignalsActedOnce /\ EntryIsCurrent

=============================================================================
