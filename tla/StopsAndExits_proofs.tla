------------------------ MODULE StopsAndExits_proofs ------------------------
(***************************************************************************)
(* The invariants of StopManagement, for every market, trade and setting,  *)
(* and the safety properties of H1Bridge, for every history, window, gap   *)
(* and number of bars and restarts; that a behaviour of StopsAndExits is   *)
(* a behaviour of both.                                                    *)
(***************************************************************************)
EXTENDS StopsAndExits, FiniteSetTheorems, TLAPS

-----------------------------------------------------------------------------
(* The stop of an open position.                                           *)

\* Every step keeps the configuration.
LEMMA Constants ==
  ASSUME StopTypeOK, [StopNext]_stopVars
  PROVE  trade' = trade /\ settings' = settings
BY DEF stopVars, StopNext, ThreadStep, MainStep, BrokerStep, CopyEntry, Decide, Leave, Modify,
       UpdateEntry, Reconcile, SaveState, Restart, brokerVars, threadVars

\* The trade is a record of prices.
LEMMA TradeType ==
  ASSUME StopTypeOK
  PROVE  /\ trade.direction \in {"long", "short"} /\ trade.price \in Int
         /\ trade.stop \in Price /\ trade.oneR \in Int
         /\ settings.breakeven \in BOOLEAN
         /\ \A d \in settings.trailing : d \in Nat
         /\ Price \subseteq Nat \ {0} /\ Stop \subseteq Nat
BY StopsAssumption DEF StopTypeOK, Price, Stop

\* What manage_open_positions decides to send loses less than its copy, and nothing
\* once breakeven is on.
LEMMA DecisionIsBetter ==
  ASSUME StopTypeOK, NEW d \in settings.trailing \cup {0}, d = 0 <=> settings.trailing = {},
         Tighter(WantedStop(d), copied), WantedStop(d) > 0
  PROVE  /\ WantedStop(d) \in Int
         /\ Loss(WantedStop(d)) <= Loss(copied)
         /\ settings.breakeven => Loss(WantedStop(d)) <= 0
<1> DEFINE w == WantedStop(d)
<1>1. copied \in Int /\ bid \in Int /\ Spread \in Int /\ d \in Int
      /\ trade.price \in Int
  BY TradeType, StopsAssumption DEF StopTypeOK, Price, Stop
<1>2. w \in Int
  BY <1>1 DEF WantedStop, Tightest, Trailed, ExitPrice
<1>3. Loss(w) <= Loss(copied)
  BY <1>1, <1>2 DEF Tighter, Loss
<1>4. ASSUME settings.breakeven PROVE Loss(w) <= 0
  <2>1. CASE StopAtEntry(copied)
    BY <1>1, <1>2, <1>3, <2>1 DEF StopAtEntry, Loss
  <2>2. CASE ~StopAtEntry(copied)
    <3>1. ReachedOneR
      BY <1>1, <2>2 DEF WantedStop, Tighter
    <3>2. w = trade.price \/ w = Tightest(Trailed(d), trade.price)
      BY <1>4, <2>2, <3>1 DEF WantedStop
    <3>3. QED
      BY <1>1, <1>2, <3>2 DEF Tightest, Tighter, Loss, Trailed, ExitPrice
  <2>3. QED
    BY <2>1, <2>2
<1>5. QED
  BY <1>2, <1>3, <1>4

\* A decision to send is not worse than the copy, so it is not past the market.
LEMMA DecisionIsAPrice ==
  ASSUME StopTypeOK, NEW d \in settings.trailing \cup {0}, d = 0 <=> settings.trailing = {},
         Tighter(WantedStop(d), copied), WantedStop(d) > 0, FarEnough(WantedStop(d))
  PROVE  WantedStop(d) \in Price
<1> DEFINE w == WantedStop(d)
<1>1. copied \in 0..MaxPrice /\ bid \in 1..MaxPrice /\ Spread \in Nat /\ w \in Int
      /\ MaxPrice \in Nat
  BY DecisionIsBetter, StopsAssumption DEF StopTypeOK, Price, Stop
<1>2. CASE Long
  BY <1>1, <1>2 DEF FarEnough, Price
<1>3. CASE ~Long
  BY <1>1, <1>3 DEF Tighter, Price
<1>4. QED
  BY <1>2, <1>3

\* The initial states.
LEMMA InitStops ==
  ASSUME StopInit
  PROVE  StopInv
<1>1. StopTypeOK
  BY StopsAssumption DEF StopInit, StopTypeOK, Price, Stop, CacheEntry, NoEntry
<1>2. trade.stop \in Int /\ trade.price \in Int
  BY <1>1, TradeType
<1>3. KnownStops /\ ThreadStops /\ BreakevenIsKept
  BY <1>1, <1>2 DEF StopInit, KnownStops, ThreadStops, BreakevenIsKept, NoEntry, Loss, Long
<1>4. QED
  BY <1>1, <1>3 DEF StopInv

\* What a reconciliation may do to the entry.
LEMMA ReconcileKeeps ==
  ASSUME StopTypeOK, Reconcile
  PROVE  /\ entry' \in CacheEntry \cup {NoEntry}
         /\ entry'.kind = "recorded" => entry.kind = "recorded" /\ entry'.stop = entry.stop
<1>0. entry \in CacheEntry \cup {NoEntry} /\ brokerStop \in Price
  BY DEF StopTypeOK
<1>1. CASE MarkWaiting
  BY <1>0, <1>1 DEF MarkWaiting, CacheEntry, NoEntry
<1>2. CASE ClearWaiting
  BY <1>0, <1>2 DEF ClearWaiting, CacheEntry, NoEntry
<1>3. CASE DropEntry
  BY <1>3 DEF DropEntry, NoEntry
<1>4. CASE Adopt
  BY <1>0, <1>4 DEF Adopt, CacheEntry
<1>5. QED
  BY <1>1, <1>2, <1>3, <1>4 DEF Reconcile

\* Type correctness of a step: only what Decide computes is not obvious.
LEMMA StepType ==
  ASSUME StopInv, [StopNext]_stopVars
  PROVE  StopTypeOK'
<1> USE DEF StopTypeOK, brokerVars, threadVars
<1>0. entry \in CacheEntry \cup {NoEntry} /\ saved \in CacheEntry \cup {NoEntry}
      /\ MaxPrice \in Nat /\ Price \subseteq Stop
  BY StopsAssumption DEF StopInv, Price, Stop
<1>1. CASE CopyEntry
  BY <1>0, <1>1 DEF StopInv, CopyEntry, CacheEntry, NoEntry
<1>2. ASSUME NEW d \in settings.trailing \cup {0}, Decide(d) PROVE StopTypeOK'
  <2>1. WantedStop(d) \in Price
    BY <1>2, DecisionIsAPrice DEF StopInv, Decide
  <2>2. QED
    BY <1>0, <1>2, <2>1 DEF StopInv, Decide
<1>3. CASE Leave
  BY <1>3 DEF StopInv, Leave
<1>4. ASSUME NEW answered \in BOOLEAN, Modify(answered) PROVE StopTypeOK'
  BY <1>4 DEF StopInv, Modify, ThreadStops
<1>5. CASE UpdateEntry
  <2>1. newStop \in Price
    BY <1>5 DEF StopInv, UpdateEntry, ThreadStops
  <2>2. entry' \in CacheEntry \cup {NoEntry}
    BY <1>0, <1>5, <2>1 DEF UpdateEntry, CacheEntry
  <2>3. QED
    BY <1>5, <2>2 DEF StopInv, UpdateEntry
<1>6. CASE Reconcile
  BY <1>6, ReconcileKeeps DEF StopInv, Reconcile
<1>7. CASE SaveState
  BY <1>7 DEF StopInv, SaveState
<1>8. CASE Restart
  BY <1>8, StopsAssumption DEF StopInv, Restart, Stop
<1>9. CASE BrokerStep
  BY <1>9 DEF StopInv, BrokerStep, MoveMarket, CloseAtBroker
<1>10. CASE UNCHANGED stopVars
  BY <1>10 DEF StopInv, stopVars
<1>11. QED
  BY <1>1, <1>2, <1>3, <1>4, <1>5, <1>6, <1>7, <1>8, <1>9, <1>10
  DEF StopNext, ThreadStep, MainStep

\* Every step preserves the invariant.
THEOREM StopsInductive == StopInv /\ [StopNext]_stopVars => StopInv'
<1> SUFFICES ASSUME StopInv, [StopNext]_stopVars PROVE StopInv'
  OBVIOUS
<1>a. StopTypeOK /\ StopTypeOK' /\ trade' = trade /\ settings' = settings
  BY StepType, Constants DEF StopInv
<1>b. /\ brokerStop \in Int /\ copied \in Int /\ newStop \in Int
      /\ trade.price \in Int /\ trade.stop \in Int
      /\ entry.stop \in Int /\ saved.stop \in Int
      /\ entry.kind \in {"recorded", "adopted", "out"}
  BY <1>a, TradeType DEF StopTypeOK, CacheEntry, NoEntry
<1>c. \A s : Loss(s)' = Loss(s')
  BY <1>a DEF Loss, Long
<1> DEFINE Stops == KnownStops /\ ThreadStops /\ BreakevenIsKept
<1> SUFFICES Stops'
  BY <1>a DEF StopInv
<1> USE DEF KnownStops, ThreadStops, BreakevenIsKept, Loss, Long, brokerVars, threadVars
<1>1. CASE CopyEntry
  BY <1>a, <1>b, <1>1 DEF StopInv, CopyEntry
<1>2. ASSUME NEW d \in settings.trailing \cup {0}, Decide(d) PROVE Stops'
  <2>1. /\ WantedStop(d) \in Price /\ Loss(WantedStop(d)) <= Loss(copied)
        /\ settings.breakeven => Loss(WantedStop(d)) <= 0
    BY <1>a, <1>2, DecisionIsAPrice, DecisionIsBetter DEF Decide
  <2>2. QED
    BY <1>a, <1>b, <1>2, <2>1 DEF StopInv, Decide
<1>3. CASE Leave
  BY <1>a, <1>b, <1>3 DEF StopInv, Leave
<1>4. ASSUME NEW answered \in BOOLEAN, Modify(answered) PROVE Stops'
  BY <1>a, <1>b, <1>4 DEF StopInv, Modify
<1>5. CASE UpdateEntry
  <2>1. /\ entry'.kind = entry.kind
        /\ entry.kind = "recorded" => entry'.stop = newStop
    BY <1>a, <1>5 DEF UpdateEntry, StopTypeOK, CacheEntry, NoEntry
  <2>2. QED
    BY <1>a, <1>b, <1>5, <2>1 DEF StopInv, UpdateEntry
<1>6. CASE Reconcile
  BY <1>a, <1>b, <1>6, ReconcileKeeps DEF StopInv, Reconcile
<1>7. CASE SaveState
  BY <1>a, <1>b, <1>7 DEF StopInv, SaveState
<1>8. CASE Restart
  BY <1>a, <1>b, <1>8 DEF StopInv, Restart
<1>9. CASE BrokerStep
  BY <1>a, <1>b, <1>9 DEF StopInv, BrokerStep, MoveMarket, CloseAtBroker
<1>10. CASE UNCHANGED stopVars
  BY <1>a, <1>b, <1>10 DEF StopInv, stopVars
<1>11. QED
  BY <1>1, <1>2, <1>3, <1>4, <1>5, <1>6, <1>7, <1>8, <1>9, <1>10
  DEF StopNext, ThreadStep, MainStep

\* The invariant holds in every reachable state.
THEOREM StopInvariant == StopSpec => []StopInv
<1>1. StopInit => StopInv
  BY InitStops
<1>2. QED
  BY <1>1, StopsInductive, PTL DEF StopSpec

\* No race, lost answer or restart lets the bot place a stop that loses more than
\* the one the portfolio cap counted (manage_open_positions, risk.py:438-554).
THEOREM RiskIsBounded == StopSpec => []RiskNeverGrows
<1>1. StopInv => RiskNeverGrows
  BY DEF StopInv, KnownStops, RiskNeverGrows
<1>2. QED
  BY <1>1, StopInvariant, PTL

\* The cache and the file never claim a tighter stop than the broker has.
THEOREM EntriesAreBehind == StopSpec => []EntryNotAhead
<1>1. StopInv => EntryNotAhead
  BY DEF StopInv, KnownStops, EntryNotAhead
<1>2. QED
  BY <1>1, StopInvariant, PTL

\* Once breakeven has moved the stop, the bot never lets it back below the entry.
THEOREM BreakevenStays == StopSpec => []BreakevenIsKept
<1>1. StopInv => BreakevenIsKept
  BY DEF StopInv
<1>2. QED
  BY <1>1, StopInvariant, PTL

-----------------------------------------------------------------------------
(* Histories.                                                              *)

\* An export of closed bars merges into a history of closed bars that grows.
LEMMA MergeType ==
  ASSUME NEW h \in History, NEW last \in Bar, MaxBar \in Nat, Window \in Nat \ {0}
  PROVE  /\ MergeBars(h, last) \in History
         /\ h.end <= MergeBars(h, last).end
         /\ MergeBars(h, last).end \in {h.end, last}
<1>1. h.end \in Bar /\ h.missing \in SUBSET Bar /\ FirstFresh(h, last) \in Int
  BY DEF History, Bar, FirstFresh
<1>2. CASE last <= h.end
  BY <1>1, <1>2 DEF MergeBars, Bar
<1>3. CASE ~(last <= h.end)
  <2>1. FirstFresh(h, last) <= last
    BY <1>1, <1>3 DEF FirstFresh, Bar
  <2>2. (h.end + 1)..(FirstFresh(h, last) - 1) \subseteq Bar
    BY <1>1, <2>1 DEF Bar
  <2>3. MergeBars(h, last) =
          [end |-> last,
           missing |-> h.missing \cup ((h.end + 1)..(FirstFresh(h, last) - 1))]
    BY <1>3 DEF MergeBars
  <2>4. QED
    BY <1>1, <1>3, <2>2, <2>3 DEF History, Bar
<1>4. QED
  BY <1>2, <1>3

\* A merge changes nothing of the bars the history already had.
LEMMA MergeKeepsPrefix ==
  ASSUME NEW h \in History, NEW last \in Bar, MaxBar \in Nat, Window \in Nat \ {0}
  PROVE  PrefixOf(h, MergeBars(h, last))
<1>1. h.end \in Nat /\ h.missing \in SUBSET Nat /\ FirstFresh(h, last) \in Int
  BY DEF History, Bar, FirstFresh
<1>2. CASE last <= h.end
  BY <1>1, <1>2 DEF MergeBars, PrefixOf
<1>3. CASE ~(last <= h.end)
  <2>1. /\ MergeBars(h, last).end = last
        /\ MergeBars(h, last).missing =
             h.missing \cup ((h.end + 1)..(FirstFresh(h, last) - 1))
    BY <1>3 DEF MergeBars
  <2>2. QED
    BY <1>1, <1>3, <2>1 DEF PrefixOf, Bar
<1>4. QED
  BY <1>2, <1>3

\* A merge that is not refused leaves no hole of MaxGap bars and ends on a bar it has.
LEMMA MergeIsSound ==
  ASSUME NEW h \in History, NEW last \in Bar, HistoryOK(h), last < bar, bar \in Nat,
         MaxBar \in Nat, Window \in Nat \ {0}, MaxGap \in Nat \ {0},
         ~GapTooWide(h, last)
  PROVE  HistoryOK(MergeBars(h, last))
<1> DEFINE g == MergeBars(h, last)
           ff == FirstFresh(h, last)
<1>1. /\ h.end \in Nat /\ h.missing \in SUBSET Nat /\ ff \in Int /\ last \in Nat
      /\ h.end < bar /\ h.missing \subseteq 0..(h.end - 1)
  BY DEF History, Bar, FirstFresh, HistoryOK
<1>2. CASE last <= h.end
  BY <1>2 DEF MergeBars
<1>3. CASE ~(last <= h.end)
  <2>1. g.end = last /\ g.missing = h.missing \cup ((h.end + 1)..(ff - 1))
    BY <1>3 DEF MergeBars
  <2>2. h.end < ff /\ ff <= last /\ ff - h.end <= MaxGap
    BY <1>1, <1>3 DEF FirstFresh, GapTooWide
  <2>3. g.end < bar /\ g.missing \subseteq 0..(g.end - 1)
    BY <1>1, <2>1, <2>2
  <2>4. ASSUME NEW b \in 0..g.end
        PROVE  \E c \in b..(b + MaxGap - 1) : Holds(g, c)
    <3>1. CASE b <= h.end
      <4>1. PICK c \in b..(b + MaxGap - 1) : Holds(h, c)
        BY <1>1, <3>1 DEF HistoryOK
      <4>2. Holds(g, c)
        BY <1>1, <2>1, <2>2, <4>1 DEF Holds
      <4>3. QED
        BY <4>2
    <3>2. CASE h.end < b /\ b < ff
      <4>1. ff \in b..(b + MaxGap - 1)
        BY <1>1, <2>2, <3>2
      <4>2. Holds(g, ff)
        BY <1>1, <2>1, <2>2 DEF Holds
      <4>3. QED
        BY <4>1, <4>2
    <3>3. CASE ff <= b
      <4>1. Holds(g, b) /\ b \in b..(b + MaxGap - 1)
        BY <1>1, <2>1, <2>2, <2>4, <3>3 DEF Holds
      <4>2. QED
        BY <4>1
    <3>4. QED
      BY <1>1, <2>1, <2>2, <3>1, <3>2, <3>3
  <2>5. QED
    BY <2>3, <2>4 DEF HistoryOK
<1>4. QED
  BY <1>2, <1>3

\* Being a prefix is transitive, and every history is one of itself.
LEMMA PrefixTransitive ==
  ASSUME NEW f \in History, NEW g \in History, NEW h \in History,
         PrefixOf(f, g), PrefixOf(g, h), MaxBar \in Nat
  PROVE  PrefixOf(f, h)
BY DEF PrefixOf, History, Bar

LEMMA PrefixReflexive ==
  ASSUME NEW h \in History, MaxBar \in Nat
  PROVE  PrefixOf(h, h)
BY DEF PrefixOf, History, Bar

\* The row of the last bar and the end of the training rows are integers.
LEMMA RowsAreIntegers ==
  ASSUME NEW h \in History, BridgeAssumption
  PROVE  LastRow(h) \in Int /\ FoldStart(LastRow(h)) \in Int
         /\ TrainEnd(FoldStart(LastRow(h))) \in Int
<1> USE BridgeAssumption DEF BridgeAssumption
<1>1. Cardinality(h.missing) \in Nat
  <2>1. IsFiniteSet(0..MaxBar)
    BY FS_Interval, 0 \in Int, MaxBar \in Int
  <2>2. h.missing \subseteq 0..MaxBar
    BY DEF History, Bar
  <2>3. QED
    BY <2>1, <2>2, FS_Subset, FS_CardinalityType
<1>2. LastRow(h) \in Int
  BY <1>1 DEF LastRow, History, Bar
<1>3. (LastRow(h) - TrainRows) \div RetrainEvery \in Int
  BY <1>2
<1>4. FoldStart(LastRow(h)) \in Int
  BY <1>3 DEF FoldStart
<1>5. QED
  BY <1>2, <1>4 DEF TrainEnd

-----------------------------------------------------------------------------
(* Types.                                                                  *)

\* The bot's steps keep the types.
LEMMA BotTypes ==
  ASSUME BridgeAssumption, BridgeTypeOK, BotStep \/ CycleFails \/ BotRestarts
  PROVE  BridgeTypeOK'
<1> USE DEF BridgeTypeOK
<1>1. CASE Poll
  <2>1. merged' \in History
    BY <1>1, MergeType DEF Poll, BridgeAssumption
  <2>2. QED
    BY <1>1, <2>1 DEF Poll, clockVars, fileVars, eaVars, accountVars
<1>2. CASE WriteCache
  BY <1>2 DEF WriteCache, clockVars, eaVars, accountVars
<1>3. ASSUME NEW side \in Side, Publish(side) PROVE BridgeTypeOK'
  <2>1. /\ LastRow(merged) \in Int /\ FoldStart(LastRow(merged)) \in Int
        /\ TrainEnd(FoldStart(LastRow(merged))) \in Int
    BY RowsAreIntegers
  <2>2. merged \in History /\ merged.end \in Bar
    BY DEF History
  <2>3. signalFile' \in Signal /\ fold' \in Int \cup {Nothing}
    BY <1>3, <2>1, <2>2 DEF Publish, Signal
  <2>4. QED
    BY <1>3, <2>3 DEF Publish, clockVars, eaVars, accountVars
<1>4. CASE SaveProcessed
  BY <1>4 DEF SaveProcessed, History, clockVars, eaVars, accountVars
<1>5. CASE CycleFails
  BY <1>5 DEF CycleFails, clockVars, fileVars, eaVars, accountVars
<1>6. CASE BotRestarts
  BY <1>6 DEF BotRestarts, BridgeAssumption, clockVars, fileVars, eaVars, accountVars
<1>7. QED
  BY <1>1, <1>2, <1>3, <1>4, <1>5, <1>6 DEF BotStep

\* So do the advisor's.
LEMMA AdvisorTypes ==
  ASSUME BridgeAssumption, BridgeTypeOK, AdvisorStep \/ AdvisorStops \/ OnInit
  PROVE  BridgeTypeOK'
<1> USE DEF BridgeTypeOK
<1>1. ASSUME NEW low \in BOOLEAN, OnTimer(low) PROVE BridgeTypeOK'
  <2>1. killed' \in BOOLEAN /\ globals'.killed \in BOOLEAN
    BY <1>1 DEF OnTimer
  <2>2. globals' \in [lastClose : Bar \cup {Nothing}, killed : BOOLEAN]
    BY <1>1, <2>1 DEF OnTimer
  <2>3. exportedAt' \in Bar /\ eaPc' \in {"manage", "export"}
    BY <1>1 DEF OnTimer
  <2>4. QED
    BY <1>1, <2>1, <2>2, <2>3 DEF OnTimer, clockVars, fileVars, botVars, accountVars
<1>2. ASSUME NEW closes \in BOOLEAN, ManageExit(closes) PROVE BridgeTypeOK'
  BY <1>2 DEF ManageExit, clockVars, fileVars, botVars
<1>3. ASSUME NEW fills \in BOOLEAN, HandleSignal(fills) PROVE BridgeTypeOK'
  <2>1. signalFile \in Signal
    BY <1>3 DEF HandleSignal, IsNew
  <2>2. [signal |-> signalFile.bar, history |-> signalFile.history, at |-> bar] \in Entry
    BY <2>1 DEF Signal, Entry
  <2>3. position' \in Entry \cup {Nothing} /\ entries' \in Seq(Entry)
    BY <1>3, <2>2 DEF HandleSignal
  <2>4. /\ lastClose' \in Bar \cup {Nothing}
        /\ globals' \in [lastClose : Bar \cup {Nothing}, killed : BOOLEAN]
    BY <1>3, <2>1 DEF HandleSignal, Signal
  <2>5. eaPc' = "idle" /\ UNCHANGED <<tmpFile, exportedAt, killed, bridgeRestarts>>
    BY <1>3 DEF HandleSignal
  <2>6. QED
    BY <1>3, <2>3, <2>4, <2>5 DEF HandleSignal, clockVars, fileVars, botVars
<1>4. CASE ExportBars
  BY <1>4 DEF ExportBars, Bar, BridgeAssumption, clockVars, botVars, accountVars
<1>5. CASE ExportFails
  BY <1>5 DEF ExportFails, AfterExport, clockVars, fileVars, botVars, accountVars
<1>6. CASE MoveExport
  BY <1>6 DEF MoveExport, AfterExport, clockVars, botVars, accountVars
<1>7. CASE IgnoreSignal
  BY <1>7 DEF IgnoreSignal, clockVars, fileVars, botVars, accountVars
<1>8. CASE AdvisorStops
  <2>1. killed' \in BOOLEAN /\ bridgeRestarts' \in 0..MaxBridgeRestarts
    <3>1. killed' = FALSE
      BY <1>8 DEF AdvisorStops
    <3>2. bridgeRestarts' \in 0..MaxBridgeRestarts
      BY <1>8 DEF AdvisorStops, BridgeAssumption
    <3>3. QED
      BY <3>1, <3>2
  <2>2. tmpFile' = Nothing /\ exportedAt' = Nothing /\ lastClose' = Nothing /\ eaPc' = "off"
        /\ UNCHANGED <<clockVars, fileVars, botVars, globals, accountVars>>
    BY <1>8 DEF AdvisorStops
  <2>3. QED
    BY <2>1, <2>2 DEF clockVars, fileVars, botVars, accountVars
<1>9. CASE OnInit
  <2>1. lastClose' \in Bar \cup {Nothing} /\ killed' \in BOOLEAN /\ eaPc' = "export"
    BY <1>9 DEF OnInit
  <2>2. UNCHANGED <<clockVars, fileVars, botVars, tmpFile, exportedAt, globals, accountVars,
                    bridgeRestarts>>
    BY <1>9 DEF OnInit
  <2>3. QED
    BY <2>1, <2>2 DEF clockVars, fileVars, botVars, accountVars
<1>10. QED
  BY <1>1, <1>2, <1>3, <1>4, <1>5, <1>6, <1>7, <1>8, <1>9 DEF AdvisorStep

\* And the market's.
LEMMA MarketTypes ==
  ASSUME BridgeAssumption, BridgeTypeOK, NewBar \/ SignalsExpire \/ StoppedOut
  PROVE  BridgeTypeOK'
<1> USE DEF BridgeTypeOK
<1>1. CASE NewBar
  <2>1. bar' \in Bar /\ late' \in BOOLEAN
    <3>1. late' = FALSE
      BY <1>1 DEF NewBar
    <3>2. bar' \in Bar
      BY <1>1 DEF NewBar, Bar, BridgeAssumption
    <3>3. QED
      BY <3>1, <3>2
  <2>2. UNCHANGED <<fileVars, botVars, eaVars, accountVars, bridgeRestarts>>
    BY <1>1 DEF NewBar
  <2>3. QED
    BY <2>1, <2>2 DEF fileVars, botVars, eaVars, accountVars
<1>2. CASE SignalsExpire
  BY <1>2 DEF SignalsExpire, fileVars, botVars, eaVars, accountVars
<1>3. CASE StoppedOut
  <2>1. position' = Nothing
        /\ UNCHANGED <<clockVars, fileVars, botVars, eaVars, entries, bridgeRestarts>>
    BY <1>3 DEF StoppedOut
  <2>2. QED
    BY <2>1 DEF clockVars, fileVars, botVars, eaVars
<1>4. QED
  BY <1>1, <1>2, <1>3

-----------------------------------------------------------------------------
(* The files.                                                              *)

\* A sound history stays sound as new bars form.
LEMMA HistoryStays ==
  ASSUME NEW h \in History, HistoryOK(h), bar \in Nat, bar' \in Nat, bar <= bar',
         MaxBar \in Nat
  PROVE  h.end < bar' /\ h.missing \subseteq 0..(h.end - 1)
         /\ \A b \in 0..h.end : \E c \in b..(b + MaxGap - 1) : Holds(h, c)
BY DEF HistoryOK, History, Bar

\* The bot's steps: what is written is what was merged, and every signal is made
\* from what the cache has.
LEMMA BotFiles ==
  ASSUME BridgeAssumption, BridgeTypeOK, FilesInv, BotStep \/ CycleFails \/ BotRestarts
  PROVE  FilesInv'
<1>0. /\ cacheFile \in History /\ merged \in History /\ bar \in Nat /\ MaxBar \in Nat
      /\ Window \in Nat \ {0} /\ MaxGap \in Nat \ {0}
      /\ (signalFile # Nothing => signalFile \in Signal /\ signalFile.history \in History)
  BY DEF BridgeTypeOK, BridgeAssumption, Bar, Signal
<1>1. CASE Poll
  <2>1. barsFile \in Bar /\ barsFile < bar
    BY <1>1 DEF Poll, BridgeTypeOK, FilesInv
  <2>2. HistoryOK(merged') /\ PrefixOf(cacheFile, merged')
    BY <1>0, <1>1, <2>1, MergeIsSound, MergeKeepsPrefix DEF Poll, FilesInv
  <2>3. QED
    BY <1>1, <2>2 DEF Poll, FilesInv, HistoryOK, Holds, clockVars, fileVars, eaVars
<1>2. CASE WriteCache
  <2>1. /\ cacheFile' = merged /\ merged' = merged /\ bar' = bar
        /\ UNCHANGED <<barsFile, tmpFile, signalFile>> /\ botPc' \in {"deciding", "idle"}
    BY <1>2 DEF WriteCache, clockVars, eaVars
  <2>2. PrefixOf(cacheFile, merged) /\ HistoryOK(merged)
    BY <1>2 DEF WriteCache, FilesInv
  <2>3. signalFile # Nothing => PrefixOf(signalFile.history, merged)
    BY <1>0, <2>2, PrefixTransitive DEF FilesInv
  <2>4. QED
    BY <2>1, <2>2, <2>3 DEF FilesInv, HistoryOK
<1>3. ASSUME NEW side \in Side, Publish(side) PROVE FilesInv'
  <2>1. merged = cacheFile
    BY <1>3 DEF Publish, FilesInv
  <2>2. PrefixOf(merged, cacheFile)
    BY <1>0, <2>1, PrefixReflexive
  <2>3. /\ signalFile'.bar = merged.end /\ signalFile'.history = merged
        /\ signalFile'.models \in {Nothing, TrainEnd(FoldStart(LastRow(merged)))}
        /\ botPc' = "published"
    BY <1>3 DEF Publish
  <2>4. UNCHANGED <<bar, barsFile, tmpFile, cacheFile, merged>>
    BY <1>3 DEF Publish, clockVars, eaVars
  <2>5. QED
    BY <2>1, <2>2, <2>3, <2>4 DEF FilesInv, HistoryOK
<1>4. CASE SaveProcessed
  <2>1. UNCHANGED <<bar, barsFile, tmpFile, cacheFile, merged, signalFile>> /\ botPc' = "idle"
    BY <1>4 DEF SaveProcessed, clockVars, eaVars
  <2>2. QED
    BY <2>1 DEF FilesInv, HistoryOK
<1>5. CASE CycleFails \/ BotRestarts
  <2>1. /\ UNCHANGED <<bar, barsFile, tmpFile, cacheFile, signalFile>>
        /\ botPc' = "idle" /\ merged' = cacheFile
    BY <1>5 DEF CycleFails, BotRestarts, clockVars, fileVars, eaVars
  <2>2. QED
    BY <2>1 DEF FilesInv, HistoryOK
<1>6. QED
  BY <1>1, <1>2, <1>3, <1>4, <1>5 DEF BotStep

\* The advisor exports closed bars only, and writes no other file.
LEMMA AdvisorFiles ==
  ASSUME BridgeAssumption, BridgeTypeOK, FilesInv, AdvisorStep \/ AdvisorStops \/ OnInit
  PROVE  FilesInv'
<1>1. /\ UNCHANGED <<bar, cacheFile, signalFile, merged, botPc>>
      /\ \A f \in {barsFile', tmpFile'} : f \in {Nothing, barsFile, tmpFile, bar - 1}
  BY DEF AdvisorStep, OnTimer, ManageExit, HandleSignal, ExportBars, ExportFails,
         MoveExport, IgnoreSignal, AdvisorStops, OnInit, clockVars, fileVars, botVars
<1>2. bar - 1 < bar
  BY DEF BridgeTypeOK, Bar
<1>3. QED
  BY <1>1, <1>2 DEF FilesInv, HistoryOK

\* A new bar puts nothing ahead of the market.
LEMMA MarketFiles ==
  ASSUME BridgeAssumption, BridgeTypeOK, FilesInv, NewBar \/ SignalsExpire \/ StoppedOut
  PROVE  FilesInv'
<1>1. /\ bar \in Nat /\ bar' \in Nat /\ bar <= bar' /\ MaxBar \in Nat
      /\ cacheFile \in History /\ merged \in History
      /\ UNCHANGED <<barsFile, tmpFile, cacheFile, signalFile, merged, botPc>>
  BY DEF NewBar, SignalsExpire, StoppedOut, clockVars, fileVars, botVars, eaVars,
         BridgeTypeOK, BridgeAssumption, Bar
<1>2. HistoryOK(cacheFile)' /\ HistoryOK(merged)'
  BY <1>1, HistoryStays DEF FilesInv, HistoryOK
<1>3. \A f \in {barsFile, tmpFile} : f # Nothing => f < bar'
  BY <1>1 DEF FilesInv, BridgeTypeOK, Bar
<1>4. QED
  BY <1>1, <1>2, <1>3 DEF FilesInv

-----------------------------------------------------------------------------
(* What the advisor has acted on.                                          *)

EntriesInv == AdvisorInv /\ SignalsActedOnce /\ EntryIsCurrent

\* The positions opened, as elements of a sequence.
LEMMA EntriesAreEntries ==
  ASSUME BridgeTypeOK, MaxBar \in Nat
  PROVE  \A i \in DOMAIN entries : entries[i] \in Entry /\ entries[i].signal \in Nat
<1>1. entries \in Seq(Entry)
  BY DEF BridgeTypeOK
<1>2. \A i \in DOMAIN entries : entries[i] \in Entry
  BY <1>1
<1>3. \A e \in Entry : e.signal \in Nat
  BY DEF Entry, Bar
<1>4. QED
  BY <1>2, <1>3

\* A step that leaves the advisor's memory and the positions alone.
LEMMA EntriesUndisturbed ==
  ASSUME BridgeTypeOK, BridgeTypeOK', EntriesInv, entries' = entries, globals' = globals,
         eaPc' # "off" => lastClose' = globals.lastClose /\ killed' = globals.killed,
         position' # Nothing => position'.at <= bar'
  PROVE  EntriesInv'
BY DEF EntriesInv, AdvisorInv, SignalsActedOnce, EntryIsCurrent

\* A signal is acted on after it is marked, when it is newer than every marked one
\* and its bar is the last closed one.
LEMMA SignalEntries ==
  ASSUME BridgeAssumption, BridgeTypeOK, BridgeTypeOK', FilesInv, EntriesInv,
         NEW fills \in BOOLEAN, HandleSignal(fills)
  PROVE  EntriesInv'
<1> DEFINE taken == [signal |-> signalFile.bar, history |-> signalFile.history, at |-> bar]
<1>1. /\ signalFile \in Signal /\ signalFile.bar \in Bar /\ bar \in Nat /\ bar' = bar
      /\ signalFile.history \in History /\ signalFile.bar = signalFile.history.end
  BY DEF HandleSignal, IsNew, BridgeTypeOK, Signal, Bar, FilesInv, clockVars
<1>2. /\ lastClose' = signalFile.bar /\ globals'.lastClose = signalFile.bar
      /\ globals'.killed = globals.killed /\ killed' = killed /\ killed = globals.killed
      /\ eaPc # "off"
  BY DEF HandleSignal, EntriesInv, AdvisorInv, BridgeTypeOK
<1>3. \A i \in DOMAIN entries : entries[i].signal < signalFile.bar
  <2>1. globals.lastClose # Nothing => signalFile.bar > globals.lastClose
    BY DEF HandleSignal, IsNew, Newer, EntriesInv, AdvisorInv
  <2>2. \A i \in DOMAIN entries : entries[i].signal \in Nat
    BY EntriesAreEntries DEF BridgeAssumption
  <2>3. QED
    BY <1>1, <2>1, <2>2 DEF EntriesInv, AdvisorInv, BridgeTypeOK, Bar
<1>4. CASE ~fills
  <2>1. UNCHANGED <<entries, position>>
    BY <1>4 DEF HandleSignal
  <2>2. \A i \in DOMAIN entries : entries[i].signal <= signalFile.bar
    BY <1>1, <1>3, EntriesAreEntries DEF Bar, BridgeAssumption
  <2>3. AdvisorInv'
    <3>1. globals'.lastClose # Nothing
      BY <1>1, <1>2 DEF BridgeAssumption, Bar
    <3>2. position' # Nothing => position'.at <= bar'
      BY <1>1, <2>1 DEF EntriesInv, AdvisorInv
    <3>3. \A i \in DOMAIN entries' : entries'[i].signal <= globals'.lastClose
      BY <1>2, <2>1, <2>2
    <3>4. QED
      BY <1>2, <3>1, <3>2, <3>3 DEF AdvisorInv
  <2>4. QED
    BY <2>1, <2>3 DEF EntriesInv, SignalsActedOnce, EntryIsCurrent
<1>5. CASE fills
  <2>1. entries' = Append(entries, taken) /\ position' = taken
    BY <1>5 DEF HandleSignal
  <2>2. entries \in Seq(Entry) /\ taken \in Entry
    BY <1>1 DEF BridgeTypeOK, Entry
  <2>3. /\ DOMAIN entries' = 1..(Len(entries) + 1)
        /\ entries'[Len(entries) + 1] = taken
        /\ \A i \in 1..Len(entries) : entries'[i] = entries[i]
        /\ DOMAIN entries = 1..Len(entries) /\ Len(entries) \in Nat
    BY <2>1, <2>2
  <2>4. bar = signalFile.bar + 1
    <3>1. bar <= signalFile.bar + 1
      BY <1>1, <1>5 DEF HandleSignal, MayEnter, IsStale, Bar
    <3>2. signalFile.history.end < bar
      <4>1. signalFile.history.end <= cacheFile.end /\ cacheFile.end < bar
        BY <1>1 DEF FilesInv, PrefixOf, HistoryOK, HandleSignal, IsNew
      <4>2. signalFile.history.end \in Nat /\ cacheFile.end \in Nat
        BY <1>1 DEF BridgeTypeOK, History, Bar
      <4>3. QED
        BY <1>1, <4>1, <4>2
    <3>3. QED
      BY <1>1, <3>1, <3>2 DEF Bar
  <2>5. SignalsActedOnce'
    BY <1>1, <1>3, <2>3 DEF SignalsActedOnce, EntriesInv, Bar
  <2>6. EntryIsCurrent'
    BY <1>1, <2>3, <2>4 DEF EntryIsCurrent, EntriesInv
  <2>7. \A i \in DOMAIN entries' : entries'[i].signal <= signalFile.bar
    <3>1. ASSUME NEW i \in 1..Len(entries) PROVE entries'[i].signal <= signalFile.bar
      BY <1>1, <1>3, <2>3, EntriesAreEntries DEF Bar, BridgeAssumption
    <3>2. entries'[Len(entries) + 1].signal <= signalFile.bar
      BY <1>1, <2>3 DEF Bar
    <3>3. QED
      BY <2>3, <3>1, <3>2
  <2>8. AdvisorInv'
    <3>1. globals'.lastClose # Nothing
      BY <1>1, <1>2 DEF BridgeAssumption, Bar
    <3>2. position'.at <= bar'
      BY <1>1, <2>1
    <3>3. \A i \in DOMAIN entries' : entries'[i].signal <= globals'.lastClose
      BY <1>2, <2>7
    <3>4. QED
      BY <1>2, <3>1, <3>2, <3>3 DEF AdvisorInv
  <2>9. QED
    BY <2>5, <2>6, <2>8 DEF EntriesInv
<1>6. QED
  BY <1>4, <1>5

-----------------------------------------------------------------------------
(* The inductive invariant and what follows from it.                       *)

\* It holds before the advisor is started.
LEMMA BridgeStarts ==
  ASSUME BridgeAssumption, BridgeInit
  PROVE  BridgeInv
<1> USE BridgeAssumption DEF BridgeAssumption, BridgeInit, Bar
<1>1. cacheFile \in History /\ merged \in History
  BY DEF History
<1>2. BridgeTypeOK
  <2>1. entries \in Seq(Entry)
    OBVIOUS
  <2>2. globals \in [lastClose : Bar \cup {Nothing}, killed : BOOLEAN]
    OBVIOUS
  <2>3. late \in BOOLEAN /\ killed \in BOOLEAN
    BY ZenonT(30)
  <2>4. bar \in Bar /\ bridgeRestarts \in 0..MaxBridgeRestarts
    OBVIOUS
  <2>5. /\ barsFile = Nothing /\ tmpFile = Nothing /\ stateFile = Nothing
        /\ signalFile = Nothing /\ fold = Nothing /\ exportedAt = Nothing
        /\ lastClose = Nothing /\ position = Nothing /\ botPc = "idle" /\ eaPc = "off"
    OBVIOUS
  <2>6. QED
    BY <1>1, <2>1, <2>2, <2>3, <2>4, <2>5 DEF BridgeTypeOK
<1>3. HistoryOK(cacheFile)
  <2>1. \A b \in 0..Origin : b \in b..(b + MaxGap - 1)
    OBVIOUS
  <2>2. QED
    BY <2>1 DEF HistoryOK, Holds
<1>4. FilesInv
  BY <1>3 DEF FilesInv
<1>5. DOMAIN entries = {} /\ position = Nothing
  OBVIOUS
<1>6. AdvisorInv /\ SignalsActedOnce /\ EntryIsCurrent
  BY <1>5 DEF AdvisorInv, SignalsActedOnce, EntryIsCurrent
<1>7. QED
  BY <1>2, <1>4, <1>6 DEF BridgeInv

\* Every step keeps it.
LEMMA BridgeSteps ==
  ASSUME BridgeAssumption, BridgeInv, [BridgeNext]_bridgeVars
  PROVE  BridgeInv'
<1> USE DEF BridgeInv
<1>1. CASE UNCHANGED bridgeVars
  <2>1. BridgeTypeOK'
    BY <1>1 DEF BridgeTypeOK, bridgeVars, clockVars, fileVars, botVars, eaVars, accountVars
  <2>2. FilesInv'
    BY <1>1 DEF FilesInv, HistoryOK, bridgeVars, clockVars, fileVars, botVars, eaVars
  <2>3. AdvisorInv' /\ SignalsActedOnce' /\ EntryIsCurrent'
    BY <1>1 DEF AdvisorInv, SignalsActedOnce, EntryIsCurrent, bridgeVars, clockVars, eaVars,
                accountVars
  <2>4. QED
    BY <2>1, <2>2, <2>3
<1>2. CASE BotStep \/ CycleFails \/ BotRestarts
  <2>1. BridgeTypeOK' /\ FilesInv'
    BY <1>2, BotTypes, BotFiles
  <2>2. UNCHANGED <<eaVars, accountVars, clockVars>>
    BY <1>2 DEF BotStep, Poll, WriteCache, Publish, SaveProcessed, CycleFails, BotRestarts
  <2>3. QED
    BY <2>1, <2>2, EntriesUndisturbed DEF EntriesInv, AdvisorInv, eaVars, accountVars,
                                          clockVars
<1>3. CASE AdvisorStep \/ AdvisorStops \/ OnInit
  <2>1. BridgeTypeOK' /\ FilesInv'
    BY <1>3, AdvisorTypes, AdvisorFiles
  <2>2. ASSUME NEW fills \in BOOLEAN, HandleSignal(fills) PROVE EntriesInv'
    BY <2>1, <2>2, SignalEntries DEF EntriesInv
  <2>3. ASSUME NEW low \in BOOLEAN, OnTimer(low) PROVE EntriesInv'
    <3>1. /\ killed' = (killed \/ low) /\ eaPc # "off"
          /\ globals' = [globals EXCEPT !.killed = @ \/ (low /\ ~killed)]
          /\ UNCHANGED <<bar, lastClose, position, entries>>
      BY <2>3 DEF OnTimer, clockVars, accountVars
    <3>2. lastClose = globals.lastClose /\ killed = globals.killed
          /\ globals.killed \in BOOLEAN /\ low \in BOOLEAN
      BY <3>1 DEF AdvisorInv, BridgeTypeOK
    <3>3. globals'.lastClose = globals.lastClose
          /\ globals'.killed = (globals.killed \/ (low /\ ~killed))
      BY <3>1 DEF BridgeTypeOK
    <3>4. killed' = globals'.killed
      BY <3>1, <3>2, <3>3
    <3>5. QED
      BY <3>1, <3>2, <3>3, <3>4 DEF EntriesInv, AdvisorInv, SignalsActedOnce, EntryIsCurrent
  <2>4. ASSUME NEW closes \in BOOLEAN, ManageExit(closes) PROVE EntriesInv'
    <3>1. /\ UNCHANGED <<bar, lastClose, killed, globals, entries>> /\ eaPc # "off"
          /\ position' \in {position, Nothing}
      BY <2>4 DEF ManageExit, clockVars
    <3>2. QED
      BY <2>1, <3>1, EntriesUndisturbed DEF EntriesInv, AdvisorInv
  <2>5. ASSUME ExportBars \/ ExportFails \/ MoveExport \/ IgnoreSignal
        PROVE  EntriesInv'
    <3>1. UNCHANGED <<bar, lastClose, killed, globals, entries, position>> /\ eaPc # "off"
      BY <2>5 DEF ExportBars, ExportFails, MoveExport, IgnoreSignal, clockVars, accountVars
    <3>2. QED
      BY <2>1, <3>1, EntriesUndisturbed DEF EntriesInv, AdvisorInv
  <2>6. ASSUME AdvisorStops PROVE EntriesInv'
    <3>1. UNCHANGED <<bar, globals, entries, position>> /\ eaPc' = "off"
      BY <2>6 DEF AdvisorStops, clockVars, accountVars
    <3>2. QED
      BY <2>1, <3>1, EntriesUndisturbed DEF EntriesInv, AdvisorInv
  <2>7. ASSUME OnInit PROVE EntriesInv'
    <3>1. /\ UNCHANGED <<bar, globals, entries, position>>
          /\ lastClose' = globals.lastClose /\ killed' = globals.killed
      BY <2>7 DEF OnInit, clockVars, accountVars
    <3>2. QED
      BY <2>1, <3>1, EntriesUndisturbed DEF EntriesInv, AdvisorInv
  <2>8. EntriesInv'
    <3>1. ASSUME NEW b \in BOOLEAN, OnTimer(b) \/ ManageExit(b) \/ HandleSignal(b)
          PROVE  EntriesInv'
      <4>1. CASE OnTimer(b)
        BY <2>3, <4>1
      <4>2. CASE ManageExit(b)
        BY <2>4, <4>2
      <4>3. CASE HandleSignal(b)
        BY <2>2, <4>3
      <4>4. QED
        BY <3>1, <4>1, <4>2, <4>3
    <3>2. CASE AdvisorStep
      BY <2>5, <3>1, <3>2 DEF AdvisorStep
    <3>3. QED
      BY <1>3, <2>6, <2>7, <3>2
  <2>9. QED
    BY <2>1, <2>8 DEF EntriesInv
<1>4. CASE NewBar \/ SignalsExpire \/ StoppedOut
  <2>1. BridgeTypeOK' /\ FilesInv'
    BY <1>4, MarketTypes, MarketFiles
  <2>2. /\ UNCHANGED <<eaVars, entries>> /\ bar \in Nat /\ bar' \in Nat /\ bar <= bar'
        /\ position' \in {position, Nothing}
    BY <1>4 DEF NewBar, SignalsExpire, StoppedOut, clockVars, accountVars, BridgeTypeOK, Bar
  <2>3. position' # Nothing => position'.at <= bar'
    BY <2>2 DEF AdvisorInv, BridgeTypeOK, Entry, Bar
  <2>4. UNCHANGED <<eaPc, lastClose, killed, globals, entries>>
    BY <2>2 DEF eaVars
  <2>5. EntriesInv /\ (eaPc' # "off" => lastClose' = globals.lastClose)
        /\ (eaPc' # "off" => killed' = globals.killed)
    BY <2>4 DEF EntriesInv, AdvisorInv
  <2>6. QED
    BY <2>1, <2>3, <2>4, <2>5, EntriesUndisturbed DEF EntriesInv
<1>5. QED
  BY <1>1, <1>2, <1>3, <1>4 DEF BridgeNext

\* The invariant of the bridge: types, files that are never ahead of what they were
\* made from, and an advisor that marks a signal before it acts on it.
THEOREM BridgeInvariant == BridgeSpec => []BridgeInv
<1>1. BridgeInit => BridgeInv
  BY BridgeAssumption, BridgeStarts
<1>2. BridgeInv /\ [BridgeNext]_bridgeVars => BridgeInv'
  BY BridgeAssumption, BridgeSteps
<1>3. QED
  BY <1>1, <1>2, PTL DEF BridgeSpec

\* No signal is acted on twice, whatever is restarted and decided again.
THEOREM ActedOnce == BridgeSpec => []SignalsActedOnce
<1>1. BridgeInv => SignalsActedOnce
  BY DEF BridgeInv
<1>2. QED
  BY <1>1, BridgeInvariant, PTL

\* A position is opened on the bar after the one that was decided.
THEOREM EntriesAreCurrent == BridgeSpec => []EntryIsCurrent
<1>1. BridgeInv => EntryIsCurrent
  BY DEF BridgeInv
<1>2. QED
  BY <1>1, BridgeInvariant, PTL

\* The cache has closed bars only and no hole of MaxGap bars.
THEOREM CacheStaysSound == BridgeSpec => []CacheIsSound
<1>1. BridgeInv => CacheIsSound
  BY DEF BridgeInv, FilesInv, HistoryOK, CacheIsSound
<1>2. QED
  BY <1>1, BridgeInvariant, PTL

\* What a signal was decided from is in the cache.
THEOREM SignalsAreOnDisk == BridgeSpec => []DecidedFromDisk
<1>1. BridgeInv => DecidedFromDisk
  <2>1. SUFFICES ASSUME BridgeInv, signalFile # Nothing
                 PROVE  LET h == signalFile.history
                        IN  /\ cacheFile.end >= h.end
                            /\ \A b \in 0..h.end : Holds(h, b) <=> Holds(cacheFile, b)
                            /\ signalFile.models # Nothing =>
                                 signalFile.models = TrainEnd(FoldStart(LastRow(h)))
    BY DEF DecidedFromDisk
  <2>2. /\ PrefixOf(signalFile.history, cacheFile)
        /\ signalFile.models # Nothing =>
             signalFile.models = TrainEnd(FoldStart(LastRow(signalFile.history)))
    BY <2>1 DEF BridgeInv, FilesInv
  <2>3. signalFile.history.end \in Nat /\ cacheFile.end \in Nat
    BY <2>1, BridgeAssumption DEF BridgeInv, BridgeTypeOK, Signal, History, Bar,
                                  BridgeAssumption
  <2>4. QED
    BY <2>2, <2>3 DEF PrefixOf, Holds
<1>2. QED
  BY <1>1, BridgeInvariant, PTL

\* After a drawdown kill no position is opened, also by an advisor that was started
\* again.
THEOREM StaysKilled == BridgeSpec => KilledForGood
<1>1. BridgeInv /\ [BridgeNext]_bridgeVars => [globals.killed => entries' = entries]_bridgeVars
  <2>1. SUFFICES ASSUME BridgeInv, BridgeNext, globals.killed PROVE entries' = entries
    OBVIOUS
  <2>2. ASSUME NEW fills \in BOOLEAN, HandleSignal(fills) PROVE entries' = entries
    <3>1. killed
      BY <2>1, <2>2 DEF BridgeInv, AdvisorInv, HandleSignal
    <3>2. ~fills
      BY <2>2, <3>1 DEF HandleSignal, MayEnter
    <3>3. QED
      BY <2>2, <3>2 DEF HandleSignal
  <2>3. QED
    BY <2>1, <2>2 DEF BridgeNext, BotStep, Poll, WriteCache, Publish, SaveProcessed,
      CycleFails, BotRestarts, AdvisorStep, OnTimer, ManageExit, ExportBars, ExportFails,
      MoveExport, IgnoreSignal, AdvisorStops, OnInit, NewBar, SignalsExpire, StoppedOut,
      accountVars
<1>2. QED
  BY <1>1, BridgeInvariant, PTL DEF BridgeSpec, KilledForGood

-----------------------------------------------------------------------------
(* The two programs side by side.                                          *)

\* A behaviour of the two programs is one of the stop management and one of the
\* bridge: what is proved of either holds where both are looked at.
THEOREM PartsKeepTheirSpecs == ManagerSpec => StopSpec /\ BridgeSpec
<1>1. ManagerInit => StopInit /\ BridgeInit
  BY DEF ManagerInit
<1>2. [ManagerNext]_managerVars => [StopNext]_stopVars
  BY DEF ManagerNext, managerVars, ByBot, ByAdvisor
<1>3. [ManagerNext]_managerVars => [BridgeNext]_bridgeVars
  BY DEF ManagerNext, managerVars, ByBot, ByAdvisor
<1> QED
  BY <1>1, <1>2, <1>3, PTL DEF ManagerSpec, StopSpec, BridgeSpec

=============================================================================
