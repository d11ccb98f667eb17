------------------------- MODULE LiveTrading_proofs -------------------------
(***************************************************************************)
(* Proofs about LiveTrading.  EntryInv is inductive; the safety properties *)
(* follow from it, for every number of symbols and tickets, every limit    *)
(* and every number of restarts.                                           *)
(*                                                                         *)
(* The actions fall into the lemmas TypeStep, TerminalStep, KnownStep,     *)
(* AttemptStep, TrackedStep and OneStep, one per conjunct of EntryInv.     *)
(***************************************************************************)
EXTENDS LiveTrading, FiniteSetTheorems, TLAPS

USE TerminalAssumption, LimitsAssumption DEF Own, TerminalAssumption, LimitsAssumption

\* The initial states, with and without positions of other programs, are typed
\* and satisfy the invariant.
LEMMA InitInv == Init => EntryInv
<1> SUFFICES ASSUME Init PROVE EntryInv
  OBVIOUS
<1>1. PICK F \in SUBSET Foreign, symbols \in [Foreign -> Symbol] :
        /\ TerminalInit(F, symbols)
        /\ cache = [t \in Ticket |-> IF t \in F THEN "recorded" ELSE "out"]
        /\ cacheRisk = riskOf
  BY DEF Init
<1>2. /\ state = [t \in Ticket |-> IF t \in F THEN "open" ELSE "none"]
      /\ symbolOf = [t \in Ticket |-> IF t \in F THEN symbols[t] ELSE None]
      /\ riskOf = [t \in Ticket |-> IF t \in F THEN 1 ELSE 0]
      /\ listed = F /\ outDeals = {}
  BY <1>1 DEF TerminalInit
<1>3. TerminalTypeOK
  BY <1>2 DEF TerminalTypeOK, TicketState, MaxAtStop
<1>4. NoAttempt \in Attempt
  BY DEF NoAttempt, Attempt
<1>5. /\ cache \in [Ticket -> EntryKind] /\ cacheRisk \in [Ticket -> 0..MaxAtStop]
      /\ unpriced \in SUBSET Ticket /\ saved \in SavedState
  BY <1>1, <1>3 DEF Init, Snapshot, SavedState, EntryKind, TerminalTypeOK
<1>6. TypeOK
  <2>1. limits \in Limits /\ pc \in [Symbol -> {"idle"} \cup EntryPoint]
    BY DEF Init
  <2>2. attempt \in [Symbol -> Attempt]
    BY <1>4 DEF Init
  <2>3. entryLock \in Symbol \cup {None} /\ stop \in BOOLEAN
    BY DEF Init
  <2>4. mpc \in MainPoint /\ booted \in BOOLEAN
    BY DEF Init, MainPoint
  <2>6. restarts \in 0..MaxRestarts
    BY DEF Init
  <2>5. /\ flagged \in SUBSET Ticket /\ learned \in SUBSET ClosedTrade
        /\ brokerList \in SUBSET Ticket /\ toCheck \in SUBSET Ticket
        /\ results \in SUBSET ClosedTrade /\ unaccounted \in SUBSET Symbol
    BY DEF Init
  <2> QED
    BY <1>3, <1>5, <2>1, <2>2, <2>3, <2>4, <2>5, <2>6 DEF TypeOK
<1>7. TerminalInv /\ KnownInv
  BY <1>1, <1>2 DEF Init, Snapshot, TerminalInv, KnownInv, Opened, Cached
<1>8. AttemptInv
  BY DEF Init, AttemptInv, AttemptOK, NoAttempt
<1>9. TrackedInv /\ OnePositionPerSymbol
  BY <1>2 DEF TrackedInv, OnePositionPerSymbol, OwnLive, IsLive
<1> QED
  BY <1>6, <1>7, <1>8, <1>9 DEF EntryInv

-----------------------------------------------------------------------------
\* Releasing entry_lock keeps the thread variables typed.
LEMMA ReleaseType ==
  ASSUME TypeOK, NEW s \in Symbol, ReleaseEntryLock(s)
  PROVE  /\ pc' \in [Symbol -> {"idle"} \cup EntryPoint]
         /\ attempt' \in [Symbol -> Attempt]
         /\ entryLock' \in Symbol \cup {None}
<1>1. NoAttempt \in Attempt
  BY DEF NoAttempt, Attempt
<1> QED
  BY <1>1 DEF TypeOK, ReleaseEntryLock

\* The updates that the actions make to the locals of an attempt.
LEMMA AttemptField ==
  ASSUME NEW a \in Attempt, NEW S \in SUBSET Ticket
  PROVE  /\ \A n \in Nat : [a EXCEPT !.openRisk = n] \in Attempt
         /\ \A r \in 0..MaxRisk : [a EXCEPT !.size = r, !.openRisk = 0] \in Attempt
         /\ \A b \in (SUBSET Ticket) \cup {None} : [a EXCEPT !.before = b] \in Attempt
         /\ \A n \in 0..MaxSends : [a EXCEPT !.orders = S, !.tries = n] \in Attempt
         /\ \A b \in BOOLEAN : [a EXCEPT !.orders = S, !.refused = b] \in Attempt
         /\ \A t \in Ticket : [a EXCEPT !.found = t] \in Attempt
         /\ [a EXCEPT !.orders = S] \in Attempt
BY DEF Attempt

\* The money of a set of positions is a natural number.
LEMMA TotalIsNat ==
  ASSUME NEW f, NEW S \in SUBSET Ticket
  PROVE  /\ IsFiniteSet({u \in S \X (1..MaxAtStop) : u[2] <= f[u[1]]})
         /\ Total(f, S) \in Nat
<1> DEFINE U == {u \in S \X (1..MaxAtStop) : u[2] <= f[u[1]]}
<1>1. IsFiniteSet(S) /\ IsFiniteSet(1..MaxAtStop)
  BY FS_Subset, FS_Interval DEF MaxAtStop
<1>2. IsFiniteSet(S \X (1..MaxAtStop))
  BY <1>1, FS_Product
<1>3. IsFiniteSet(U)
  BY <1>2, FS_Subset
<1>4. Cardinality(U) \in Nat
  BY <1>3, FS_CardinalityType
<1> QED
  BY <1>3, <1>4 DEF Total

\* A step of a symbol thread keeps every variable typed.
LEMMA ThreadType ==
  ASSUME TypeOK, TerminalInv, AttemptInv, NEW s \in Symbol, ThreadStep(s)
  PROVE  TypeOK'
<1> DEFINE Typed == /\ pc' \in [Symbol -> {"idle"} \cup EntryPoint]
                    /\ attempt' \in [Symbol -> Attempt]
                    /\ entryLock' \in Symbol \cup {None}
<1>0. attempt[s] \in Attempt /\ pc \in [Symbol -> {"idle"} \cup EntryPoint]
  BY DEF TypeOK
<1>a. ASSUME Typed, UNCHANGED <<terminalVars, stop, cacheVars, mainVars>>,
             unaccounted' \in SUBSET Symbol
      PROVE  TypeOK'
  BY <1>a DEF TypeOK, TerminalTypeOK, terminalVars, cacheVars, mainVars, reconcileVars
<1>1. CASE EnterTrade(s)
  BY <1>0, <1>1, <1>a DEF EnterTrade, EntryPoint, TypeOK
<1>2. CASE GiveUpEntry(s)
  BY <1>2, <1>a, ReleaseType DEF GiveUpEntry, TypeOK
<1>3. CASE ReadOpenRisk(s)
  <2>1. attempt' \in [Symbol -> Attempt]
    <3>1. Total(cacheRisk, Cached) \in Nat
      BY TotalIsNat DEF Cached
    <3>2. [attempt[s] EXCEPT !.openRisk = Total(cacheRisk, Cached)] \in Attempt
      BY <1>0, <3>1, AttemptField
    <3> QED
      BY <1>3, <3>2 DEF ReadOpenRisk, TypeOK
  <2> QED
    BY <1>0, <1>3, <1>a, <2>1 DEF ReadOpenRisk, EntryPoint, TypeOK
<1>4. ASSUME NEW r \in 1..MaxRisk, PositionSize(s, r) PROVE TypeOK'
  <2>1. attempt' \in [Symbol -> Attempt]
    <3>1. [attempt[s] EXCEPT !.size = r, !.openRisk = 0] \in Attempt
      BY <1>0, r \in 0..MaxRisk, AttemptField
    <3> QED
      BY <1>4, <3>1 DEF PositionSize, TypeOK
  <2> QED
    BY <1>0, <1>4, <1>a, <2>1 DEF PositionSize, EntryPoint, TypeOK
<1>5. CASE StartTrade(s)
  <2>1. CASE stop /\ ReleaseEntryLock(s)
    BY <1>5, <1>a, <2>1, ReleaseType DEF StartTrade, TypeOK
  <2>2. ASSUME NEW before \in {OwnListed(s), None},
               attempt' = [attempt EXCEPT ![s].before = before],
               pc' = [pc EXCEPT ![s] = "sending"], UNCHANGED entryLock
        PROVE  TypeOK'
    <3>1. before \in (SUBSET Ticket) \cup {None}
      BY <2>2 DEF OwnListed
    <3>2. attempt' \in [Symbol -> Attempt]
      BY <1>0, <2>2, <3>1, AttemptField DEF TypeOK
    <3> QED
      BY <1>0, <1>5, <1>a, <2>2, <3>2 DEF StartTrade, EntryPoint, TypeOK
  <2> QED
    BY <1>5, <2>1, <2>2 DEF StartTrade
<1>6. ASSUME NEW t \in Ticket, SendOrder(s, t) PROVE TypeOK'
  <2>1. /\ attempt[s].orders \cup {t} \in SUBSET Ticket
        /\ attempt[s].tries + 1 \in 0..MaxSends
        /\ attempt[s].size \in 0..MaxRisk
    BY <1>0, <1>6 DEF SendOrder, AttemptInv, AttemptOK, Attempt
  <2>2. attempt' \in [Symbol -> Attempt]
    <3>1. [attempt[s] EXCEPT !.orders = attempt[s].orders \cup {t},
                             !.tries = attempt[s].tries + 1] \in Attempt
      BY <1>0, <2>1, AttemptField
    <3> QED
      BY <1>6, <3>1 DEF SendOrder, TypeOK
  <2>3. pc' \in [Symbol -> {"idle"} \cup EntryPoint]
    BY <1>0, <1>6 DEF SendOrder, EntryPoint
  <2>4. TerminalTypeOK'
    BY <1>6, <2>1 DEF SendOrder, Place, TypeOK, TerminalTypeOK, TicketState, MaxAtStop
  <2> QED
    BY <1>6, <2>2, <2>3, <2>4 DEF SendOrder, TypeOK, cacheVars, mainVars, reconcileVars
<1>7. ASSUME NEW t \in Ticket, ReplyFilled(s, t) PROVE TypeOK'
  <2>1. attempt' \in [Symbol -> Attempt]
    <3>1. [attempt[s] EXCEPT !.found = t] \in Attempt
      BY <1>0, AttemptField
    <3> QED
      BY <1>7, <3>1 DEF ReplyFilled, TypeOK
  <2> QED
    BY <1>0, <1>7, <1>a, <2>1 DEF ReplyFilled, EntryPoint, TypeOK
<1>8. ASSUME NEW t \in Ticket, FindNewPosition(s, t) PROVE TypeOK'
  <2>1. attempt' \in [Symbol -> Attempt]
    BY <1>0, <1>8, AttemptField DEF FindNewPosition, TypeOK
  <2> QED
    BY <1>0, <1>8, <1>a, <2>1 DEF FindNewPosition, EntryPoint, TypeOK
<1>9. ASSUME NEW t \in Ticket, NEW again \in BOOLEAN, ReplyRejected(s, t, again)
      PROVE  TypeOK'
  <2>1. attempt' \in [Symbol -> Attempt]
    <3>1. attempt[s].orders \ {t} \in SUBSET Ticket
      BY <1>0 DEF Attempt
    <3>2. [attempt[s] EXCEPT !.orders = attempt[s].orders \ {t}, !.refused = ~again]
            \in Attempt
      BY <1>0, <3>1, AttemptField
    <3> QED
      BY <1>9, <3>2 DEF ReplyRejected, TypeOK
  <2>2. pc' \in [Symbol -> {"idle"} \cup EntryPoint]
    BY <1>0, <1>9 DEF ReplyRejected, EntryPoint
  <2>3. TerminalTypeOK'
    BY <1>9 DEF ReplyRejected, Discard, TypeOK, TerminalTypeOK, TicketState, MaxAtStop
  <2> QED
    BY <1>9, <2>1, <2>2, <2>3 DEF ReplyRejected, TypeOK, cacheVars, mainVars, reconcileVars
<1>10. CASE ReplyLost(s)
  BY <1>0, <1>10, <1>a DEF ReplyLost, EntryPoint, TypeOK
<1>11. ASSUME NEW readable \in BOOLEAN, NoPositionFound(s, readable) PROVE TypeOK'
  BY <1>11, <1>a, ReleaseType DEF NoPositionFound, TypeOK
<1>12. CASE RecordPosition(s)
  <2>1. attempt[s].found \in Ticket
    BY <1>12 DEF RecordPosition, AttemptInv, AttemptOK, Opened
  <2>2. /\ cache' \in [Ticket -> EntryKind]
        /\ flagged' \in SUBSET Ticket
        /\ unpriced' \in SUBSET Ticket
    BY <1>12, <2>1 DEF RecordPosition, TypeOK, EntryKind
  <2>3. cacheRisk' \in [Ticket -> 0..MaxAtStop]
    <3>1. PICK priced \in BOOLEAN : \E r \in RiskMeasured(s, priced) :
                 cacheRisk' = [cacheRisk EXCEPT ![attempt[s].found] = r]
      BY <1>12 DEF RecordPosition
    <3>2. RiskMeasured(s, priced) \subseteq 0..MaxAtStop
      BY <2>1 DEF RiskMeasured, TypeOK, TerminalTypeOK, MaxAtStop
    <3> QED
      BY <3>1, <3>2 DEF TypeOK
  <2> QED
    BY <1>12, <2>2, <2>3, ReleaseType DEF RecordPosition, TypeOK, TerminalTypeOK, terminalVars,
       mainVars, reconcileVars
<1>13. CASE RecordFails(s)
  BY <1>13, <1>a, ReleaseType DEF RecordFails, TypeOK
<1> QED
  BY <1>1, <1>2, <1>3, <1>4, <1>5, <1>6, <1>7, <1>8, <1>9, <1>10, <1>11, <1>12, <1>13
     DEF ThreadStep

\* A ticket that is a position has a symbol.
LEMMA OpenedSymbol ==
  ASSUME TypeOK, TerminalInv, NEW t \in Opened
  PROVE  t \in Ticket /\ symbolOf[t] \in Symbol
BY DEF TerminalInv, Opened

\* A step of the main thread keeps every variable typed.
LEMMA MainType ==
  ASSUME TypeOK, TerminalInv, KnownInv, MainStep
  PROVE  TypeOK'
<1> USE DEF TypeOK, MainPoint
<1>a. ASSUME UNCHANGED <<terminalVars, threadVars, stop, limits>>,
             mpc' \in MainPoint, booted' \in BOOLEAN,
             cache' \in [Ticket -> EntryKind], cacheRisk' \in [Ticket -> 0..MaxAtStop],
             unpriced' = unpriced, flagged' \in SUBSET Ticket,
             learned' \in SUBSET ClosedTrade, saved' \in SavedState,
             brokerList' \in SUBSET Ticket, toCheck' \in SUBSET Ticket,
             results' \in SUBSET ClosedTrade, restarts' = restarts,
             unaccounted' \in SUBSET Symbol
      PROVE  TypeOK'
  BY <1>a DEF TerminalTypeOK, terminalVars, threadVars
<1>1. CASE SaveState
  <2>1. saved' \in SavedState
    BY <1>1 DEF SaveState, Snapshot, SavedState
  <2> QED
    BY <1>1, <1>a, <2>1 DEF SaveState, cacheVars, reconcileVars
<1>2. CASE ReconcileSkipped
  BY <1>2, <1>a DEF ReconcileSkipped, cacheVars, reconcileVars
<1>3. CASE ReconcileList
  <2>1. /\ brokerList' \in SUBSET Ticket /\ toCheck' \in SUBSET Ticket
        /\ flagged' \in SUBSET Ticket /\ results' \in SUBSET ClosedTrade
    BY <1>3 DEF ReconcileList, TerminalTypeOK, Cached
  <2>2. cache' \in [Ticket -> EntryKind]
    BY <1>3 DEF ReconcileList, EntryKind
  <2>3. cacheRisk' \in [Ticket -> 0..MaxAtStop]
    BY <1>3 DEF ReconcileList, MaxAtStop
  <2> QED
    BY <1>3, <1>a, <2>1, <2>2, <2>3 DEF ReconcileList
<1>4. ASSUME NEW t \in Ticket, CheckClosed(t) PROVE TypeOK'
  <2>1. t \in Cached /\ toCheck' \in SUBSET Ticket
    BY <1>4 DEF CheckClosed, KnownInv
  <2>2. /\ cache' \in [Ticket -> EntryKind] /\ flagged' \in SUBSET Ticket
    BY <1>4 DEF CheckClosed, ReportClosed, DropForeign, AwaitClosingDeal,
       GiveUpClosingDeal, Drop, EntryKind
  <2>3. results' \in SUBSET ClosedTrade
    <3>1. cache[t] \in {"recorded", "adopted"}
      BY <2>1 DEF Cached, EntryKind
    <3> QED
      BY <1>4, <3>1 DEF CheckClosed, ReportClosed, DropForeign, AwaitClosingDeal,
         GiveUpClosingDeal, ClosedTrade
  <2>4. unaccounted' \in SUBSET Symbol
    <3>1. symbolOf[t] \in Symbol
      BY <2>1, OpenedSymbol DEF KnownInv
    <3> QED
      BY <1>4, <3>1 DEF CheckClosed, ReportClosed, DropForeign, AwaitClosingDeal,
         GiveUpClosingDeal
  <2>5. cacheRisk' \in [Ticket -> 0..MaxAtStop]
    BY <1>4 DEF CheckClosed, ReportClosed, DropForeign, AwaitClosingDeal,
       GiveUpClosingDeal, Drop, MaxAtStop
  <2> QED
    BY <1>4, <1>a, <2>1, <2>2, <2>3, <2>4, <2>5 DEF CheckClosed
<1>5. CASE ReconcileFails
  BY <1>5, <1>a DEF ReconcileFails, cacheVars
<1>6. CASE AdoptAndReturn
  <2>1. cache' \in [Ticket -> EntryKind]
    BY <1>6 DEF AdoptAndReturn, EntryKind
  <2>2. cacheRisk' \in [Ticket -> 0..MaxAtStop]
    BY <1>6 DEF AdoptAndReturn, TerminalTypeOK
  <2> QED
    BY <1>6, <1>a, <2>1, <2>2 DEF AdoptAndReturn
<1>7. ASSUME NEW c \in results, Learn(c) PROVE TypeOK'
  BY <1>7, <1>a DEF Learn, cacheVars
<1>8. CASE EndOfPass
  BY <1>8, <1>a DEF EndOfPass, cacheVars, reconcileVars
<1> QED
  BY <1>1, <1>2, <1>3, <1>4, <1>5, <1>6, <1>7, <1>8 DEF MainStep

\* What a file may hold is what the bot starts from.
LEMMA StartType ==
  ASSUME TypeOK, TerminalInv, NEW file \in SavedState, StartFrom(file),
         restarts < MaxRestarts
  PROVE  TypeOK'
<1>1. NoAttempt \in Attempt
  BY DEF NoAttempt, Attempt
<1>2. UnsavedSymbols(file) \in SUBSET Symbol
  BY DEF UnsavedSymbols, TerminalInv, IsLive
<1>3. TerminalTypeOK' /\ limits' \in Limits
  BY DEF StartFrom, TypeOK, TerminalTypeOK, terminalVars
<1>4. /\ pc' \in [Symbol -> {"idle"} \cup EntryPoint]
      /\ attempt' \in [Symbol -> Attempt]
      /\ entryLock' \in Symbol \cup {None} /\ stop' \in BOOLEAN
  BY <1>1 DEF StartFrom
<1>5. /\ cache' \in [Ticket -> EntryKind] /\ flagged' \in SUBSET Ticket
      /\ cacheRisk' \in [Ticket -> 0..MaxAtStop] /\ unpriced' \in SUBSET Ticket
      /\ learned' \in SUBSET ClosedTrade /\ saved' \in SavedState
  BY DEF StartFrom, SavedState, TypeOK
<1>6. restarts' \in 0..MaxRestarts
  BY DEF StartFrom, TypeOK
<1>7. /\ mpc' \in MainPoint /\ booted' \in BOOLEAN
      /\ brokerList' \in SUBSET Ticket /\ toCheck' \in SUBSET Ticket
      /\ results' \in SUBSET ClosedTrade
  BY DEF StartFrom, MainPoint
<1>8. unaccounted' \in SUBSET Symbol
  BY <1>2 DEF StartFrom, TypeOK
<1> QED
  BY <1>3, <1>4, <1>5, <1>6, <1>7, <1>8 DEF TypeOK

\* A restart keeps every variable typed.
LEMMA RestartType ==
  ASSUME TypeOK, TerminalInv, KnownInv, RestartStep
  PROVE  TypeOK'
<1>1. CASE MainLoopFails \/ Interrupt
  BY <1>1 DEF MainLoopFails, Interrupt, TypeOK, TerminalTypeOK, MainPoint, terminalVars,
     threadVars, cacheVars
<1>2. Snapshot \in SavedState /\ saved \in SavedState
  BY DEF TypeOK, Snapshot, SavedState
<1>3. CASE Reconnect \/ Crash
  BY <1>2, <1>3, StartType DEF Reconnect, Crash, KnownInv
<1>4. CASE ShutDown
  BY <1>2, <1>4, StartType DEF ShutDown, KnownInv
<1> QED
  BY <1>1, <1>3, <1>4 DEF RestartStep

\* A step of the terminal or the broker keeps every variable typed.
LEMMA BrokerType ==
  ASSUME TypeOK, TerminalInv, NEW t \in Ticket, BrokerStep(t)
  PROVE  TypeOK'
<1>1. CASE OrderVanishes(t)
  <2>1. attempt' \in [Symbol -> Attempt]
    <3>1. \A s \in Symbol : attempt[s] \in Attempt
                            /\ attempt[s].orders \ {t} \in SUBSET Ticket
      BY DEF TypeOK, Attempt
    <3>2. \A s \in Symbol :
            [attempt[s] EXCEPT !.orders = attempt[s].orders \ {t}] \in Attempt
      BY <3>1, AttemptField
    <3> QED
      BY <1>1, <3>2 DEF OrderVanishes
  <2>2. TerminalTypeOK'
    BY <1>1 DEF OrderVanishes, Discard, TypeOK, TerminalTypeOK, TicketState, MaxAtStop
  <2> QED
    BY <1>1, <2>1, <2>2 DEF OrderVanishes, TypeOK, cacheVars, mainVars, reconcileVars
<1>2. CASE UNCHANGED <<threadVars, stop, cacheVars, mainVars, unaccounted>>
           /\ TerminalTypeOK'
  BY <1>2 DEF TypeOK, threadVars, cacheVars, mainVars, reconcileVars
<1>3. ASSUME \/ Execute(t) \/ CloseAtBroker(t) \/ ListCatchesUp(t) \/ DealAppears(t)
             \/ \E s \in Symbol : ForeignOpens(t, s)
      PROVE  TerminalTypeOK'
  <2>1. CASE Execute(t)
    <3>1. riskOf[t] \in Nat /\ riskOf[t] <= MaxRisk
      BY <2>1 DEF Execute, TerminalInv, TypeOK, TerminalTypeOK
    <3>2. PICK r \in 1..(riskOf[t] + MaxSlip) : riskOf' = [riskOf EXCEPT ![t] = r]
      BY <2>1 DEF Execute
    <3>3. r \in 0..MaxAtStop
      BY <3>1, <3>2 DEF MaxAtStop
    <3>4. riskOf' \in [Ticket -> 0..MaxAtStop]
      BY <3>2, <3>3 DEF TypeOK, TerminalTypeOK
    <3> QED
      BY <2>1, <3>4 DEF Execute, TypeOK, TerminalTypeOK, TicketState
  <2>2. CASE ~Execute(t)
    BY <1>3, <2>2 DEF CloseAtBroker, ListCatchesUp, DealAppears, ForeignOpens,
       TypeOK, TerminalTypeOK, TicketState, MaxAtStop
  <2> QED
    BY <2>1, <2>2
<1> QED
  BY <1>1, <1>2, <1>3 DEF BrokerStep

\* Every step keeps every variable typed.
LEMMA TypeStep ==
  ASSUME EntryInv, [Next]_vars
  PROVE  TypeOK'
<1>1. CASE UNCHANGED vars
  BY <1>1 DEF EntryInv, TypeOK, TerminalTypeOK, vars, terminalVars, threadVars, cacheVars,
     mainVars, reconcileVars
<1> QED
  BY <1>1, ThreadType, MainType, RestartType, BrokerType DEF EntryInv, Next

-----------------------------------------------------------------------------
\* The terminal changes in a few actions only.
LEMMA TerminalMoves ==
  ASSUME [Next]_vars
  PROVE  \/ UNCHANGED terminalVars
         \/ \E s \in Symbol, t \in Ticket : SendOrder(s, t)
         \/ \E t \in Ticket : Discard(t)
         \/ \E t \in Ticket :
              \/ Execute(t) \/ CloseAtBroker(t) \/ ListCatchesUp(t) \/ DealAppears(t)
              \/ \E s \in Symbol : ForeignOpens(t, s)
<1>1. CASE UNCHANGED vars
  BY <1>1 DEF vars
<1>2. ASSUME NEW s \in Symbol, ThreadStep(s)
      PROVE  \/ UNCHANGED terminalVars
             \/ \E t \in Ticket : SendOrder(s, t)
             \/ \E t \in Ticket : Discard(t)
  BY <1>2 DEF ThreadStep, EnterTrade, GiveUpEntry, ReadOpenRisk, PositionSize, StartTrade,
     ReplyFilled, ReplyRejected, ReplyLost, FindNewPosition, NoPositionFound,
     RecordPosition, RecordFails
<1>3. CASE MainStep \/ RestartStep
  BY <1>3 DEF MainStep, SaveState, ReconcileSkipped, ReconcileList, CheckClosed,
     ReconcileFails, AdoptAndReturn, Learn, EndOfPass, RestartStep, MainLoopFails,
     Interrupt, Reconnect, ShutDown, Crash, StartFrom
<1>4. ASSUME NEW t \in Ticket, BrokerStep(t)
      PROVE  \/ Discard(t)
             \/ Execute(t) \/ CloseAtBroker(t) \/ ListCatchesUp(t) \/ DealAppears(t)
             \/ \E s \in Symbol : ForeignOpens(t, s)
  BY <1>4 DEF BrokerStep, OrderVanishes
<1> QED
  BY <1>1, <1>2, <1>3, <1>4 DEF Next

\* What any step leaves of the broker's books: a position remains one, with its
\* symbol, a closed one remains closed, and a new order of the bot is a SendOrder.
LEMMA BooksStep ==
  ASSUME TypeOK, [Next]_vars
  PROVE  /\ Opened \subseteq Opened'
         /\ \A t \in Ticket : state[t] = "closed" => state'[t] = "closed"
         /\ \A t \in Own :
              state'[t] \in {"sent", "open"} =>
                \/ /\ state[t] \in {"sent", "open"}
                   /\ symbolOf'[t] = symbolOf[t]
                \/ \E s \in Symbol : SendOrder(s, t)
<1> DEFINE Goal(t) ==
      /\ state[t] \in {"open", "closed"} => state'[t] \in {"open", "closed"}
      /\ state[t] = "closed" => state'[t] = "closed"
      /\ t \in Own /\ state'[t] \in {"sent", "open"} =>
           \/ state[t] \in {"sent", "open"} /\ symbolOf'[t] = symbolOf[t]
           \/ \E s \in Symbol : SendOrder(s, t)
<1>0. TerminalTypeOK
  BY DEF TypeOK
<1>1. ASSUME UNCHANGED terminalVars
      PROVE  \A t \in Ticket : Goal(t)
  BY <1>0, <1>1 DEF terminalVars, TerminalTypeOK, TicketState
<1>2. ASSUME NEW s \in Symbol, NEW u \in Ticket, SendOrder(s, u)
      PROVE  \A t \in Ticket : Goal(t)
  BY <1>0, <1>2 DEF SendOrder, Place, TerminalTypeOK, TicketState
<1>3. ASSUME NEW u \in Ticket, Discard(u)
      PROVE  \A t \in Ticket : Goal(t)
  BY <1>0, <1>3 DEF Discard, TerminalTypeOK, TicketState
<1>4. ASSUME NEW u \in Ticket,
             \/ Execute(u) \/ CloseAtBroker(u) \/ ListCatchesUp(u) \/ DealAppears(u)
             \/ \E s \in Symbol : ForeignOpens(u, s)
      PROVE  \A t \in Ticket : Goal(t)
  BY <1>0, <1>4 DEF Execute, CloseAtBroker, ListCatchesUp, DealAppears, ForeignOpens,
     TerminalTypeOK, TicketState
<1>5. \A t \in Ticket : Goal(t)
  <2> HIDE DEF Goal
  <2> QED
    BY <1>1, <1>2, <1>3, <1>4, TerminalMoves
<1>6. Opened \subseteq Opened'
  BY <1>5 DEF Opened
<1> QED
  BY <1>5, <1>6

\* Tickets the terminal shows keep being positions with a symbol.
LEMMA TerminalStep ==
  ASSUME EntryInv, [Next]_vars
  PROVE  TerminalInv'
<1> USE DEF TerminalInv, Opened
<1>0. TerminalTypeOK /\ TerminalInv
  BY DEF EntryInv, TypeOK
<1>1. ASSUME UNCHANGED terminalVars PROVE TerminalInv'
  BY <1>0, <1>1 DEF terminalVars
<1>2. ASSUME NEW s \in Symbol, NEW t \in Ticket, SendOrder(s, t) PROVE TerminalInv'
  <2>1. attempt[s].size <= MaxRisk
    BY DEF EntryInv, TypeOK, Attempt
  <2> QED
    BY <1>0, <1>2, <2>1 DEF SendOrder, Place, TerminalTypeOK
<1>3. ASSUME NEW t \in Ticket, Discard(t) PROVE TerminalInv'
  BY <1>0, <1>3 DEF Discard, TerminalTypeOK
<1>4. ASSUME NEW t \in Ticket,
             \/ Execute(t) \/ CloseAtBroker(t) \/ ListCatchesUp(t) \/ DealAppears(t)
             \/ \E s \in Symbol : ForeignOpens(t, s)
      PROVE  TerminalInv'
  BY <1>0, <1>4 DEF Execute, CloseAtBroker, ListCatchesUp, DealAppears, ForeignOpens,
     TerminalTypeOK
<1> HIDE DEF TerminalInv
<1> QED
  BY <1>1, <1>2, <1>3, <1>4, TerminalMoves

\* What the bot knows of keeps being positions, what it learned from closed.
LEMMA KnownStep ==
  ASSUME EntryInv, [Next]_vars
  PROVE  KnownInv'
<1> DEFINE Same == UNCHANGED <<mpc, brokerList, toCheck, results, learned, saved, restarts>>
           ClosedOwn(S) == \A c \in S : c.ticket \in Own /\ state[c.ticket] = "closed"
<1>0. /\ TypeOK /\ TerminalInv /\ KnownInv /\ AttemptInv
      /\ Opened \subseteq Opened'
      /\ \A t \in Ticket : state[t] = "closed" => state'[t] = "closed"
      /\ brokerList \subseteq Opened /\ Cached \subseteq Opened
  BY BooksStep DEF EntryInv, KnownInv
<1>1. CASE Same /\ UNCHANGED cache
  BY <1>0, <1>1 DEF KnownInv, Cached, Opened
<1>2. CASE UNCHANGED vars
  BY <1>1, <1>2 DEF vars, mainVars, cacheVars, reconcileVars
<1>3. ASSUME NEW s \in Symbol, ThreadStep(s) PROVE KnownInv'
  <2>1. CASE RecordPosition(s)
    <3>1. attempt[s].found \in Opened
      BY <1>0, <2>1 DEF RecordPosition, AttemptInv, AttemptOK
    <3>2. Cached' \subseteq Cached \cup {attempt[s].found}
      BY <1>0, <2>1 DEF RecordPosition, Cached, TypeOK
    <3>3. Same /\ mpc # "checking"
      BY <2>1 DEF RecordPosition, mainVars, reconcileVars, CacheFree
    <3> QED
      BY <1>0, <3>1, <3>2, <3>3 DEF KnownInv, Opened
  <2>2. CASE ~RecordPosition(s)
    BY <1>1, <1>3, <2>2 DEF ThreadStep, EnterTrade, GiveUpEntry, ReadOpenRisk, PositionSize,
       StartTrade, SendOrder, ReplyFilled, ReplyRejected, ReplyLost, FindNewPosition,
       NoPositionFound, RecordFails, mainVars, cacheVars, reconcileVars
  <2> QED
    BY <2>1, <2>2
<1>4. ASSUME NEW t \in Ticket, BrokerStep(t) PROVE KnownInv'
  BY <1>1, <1>4 DEF BrokerStep, OrderVanishes, mainVars, cacheVars, reconcileVars
<1>5. CASE SaveState
  BY <1>0, <1>5 DEF SaveState, Snapshot, KnownInv, Cached, Opened, cacheVars, reconcileVars
<1>6. CASE ReconcileSkipped
  BY <1>0, <1>6 DEF ReconcileSkipped, ReconcileStarts, KnownInv, Cached, Opened, cacheVars,
     reconcileVars
<1>7. CASE ReconcileList
  <2>1. Cached' = Cached \ (Foreign \cap listed)
    BY <1>7 DEF ReconcileList, Cached
  <2>2. toCheck' \subseteq Cached'
    BY <1>7, <2>1 DEF ReconcileList
  <2>3. brokerList' \subseteq Opened
    BY <1>0, <1>7 DEF ReconcileList, TerminalInv
  <2> QED
    BY <1>0, <1>7, <2>1, <2>2, <2>3 DEF ReconcileList, KnownInv, Opened
<1>8. ASSUME NEW t \in Ticket, CheckClosed(t) PROVE KnownInv'
  <2>1. /\ Cached' \in {Cached, Cached \ {t}}
        /\ toCheck' = toCheck \ {t} /\ toCheck \subseteq Cached
    BY <1>0, <1>8 DEF CheckClosed, ReportClosed, DropForeign, AwaitClosingDeal,
       GiveUpClosingDeal, Drop, Cached, KnownInv, TypeOK
  <2>2. ClosedOwn(results')
    BY <1>0, <1>8 DEF CheckClosed, ReportClosed, DropForeign, AwaitClosingDeal,
       GiveUpClosingDeal, KnownInv, TerminalInv
  <2> QED
    BY <1>0, <1>8, <2>1, <2>2 DEF CheckClosed, KnownInv, Opened, terminalVars
<1>9. CASE ReconcileFails
  BY <1>0, <1>9 DEF ReconcileFails, KnownInv, Cached, Opened, cacheVars
<1>10. CASE AdoptAndReturn
  <2>1. Cached' \subseteq Cached \cup brokerList
    BY <1>0, <1>10 DEF AdoptAndReturn, Cached
  <2> QED
    BY <1>0, <1>10, <2>1 DEF AdoptAndReturn, KnownInv, Opened
<1>11. ASSUME NEW c \in results, Learn(c) PROVE KnownInv'
  BY <1>0, <1>11 DEF Learn, KnownInv, Cached, Opened, cacheVars
<1>12. CASE EndOfPass
  BY <1>0, <1>12 DEF EndOfPass, KnownInv, Cached, Opened, cacheVars, reconcileVars
<1>13. CASE MainLoopFails \/ Interrupt
  BY <1>0, <1>13 DEF MainLoopFails, Interrupt, KnownInv, Cached, Opened, cacheVars
<1>14. ASSUME NEW file \in {saved, Snapshot}, StartFrom(file) PROVE KnownInv'
  BY <1>0, <1>14 DEF StartFrom, Snapshot, KnownInv, Cached, Opened
<1>15. CASE Reconnect \/ ShutDown \/ Crash
  BY <1>14, <1>15 DEF Reconnect, ShutDown, Crash
<1> HIDE DEF Same, ClosedOwn
<1> QED
  BY <1>2, <1>3, <1>4, <1>5, <1>6, <1>7, <1>8, <1>9, <1>10, <1>11, <1>12, <1>13, <1>15
     DEF Next, MainStep, RestartStep

\* An alert, a restart or a wrong recovery is never forgotten.
LEMMA UnaccountedGrows ==
  ASSUME [Next]_vars
  PROVE  unaccounted \subseteq unaccounted'
<1>1. CASE UNCHANGED vars
  BY <1>1 DEF vars
<1>2. ASSUME NEW s \in Symbol, ThreadStep(s) PROVE unaccounted \subseteq unaccounted'
  BY <1>2 DEF ThreadStep, EnterTrade, GiveUpEntry, ReadOpenRisk, PositionSize, StartTrade,
     SendOrder, ReplyFilled, ReplyRejected, ReplyLost, FindNewPosition, NoPositionFound,
     RecordPosition, RecordFails
<1>3. CASE MainStep
  BY <1>3 DEF MainStep, SaveState, ReconcileSkipped, ReconcileList, CheckClosed,
     ReportClosed, DropForeign, AwaitClosingDeal, GiveUpClosingDeal, ReconcileFails,
     AdoptAndReturn, Learn, EndOfPass
<1>4. CASE RestartStep
  BY <1>4 DEF RestartStep, MainLoopFails, Interrupt, Reconnect, ShutDown, Crash, StartFrom
<1>5. ASSUME NEW t \in Ticket, BrokerStep(t) PROVE unaccounted \subseteq unaccounted'
  BY <1>5 DEF BrokerStep, OrderVanishes
<1> QED
  BY <1>1, <1>2, <1>3, <1>4, <1>5 DEF Next

\* A thread keeps AttemptOK for itself, and its step leaves the others as they are.
LEMMA AttemptThread ==
  ASSUME EntryInv, NEW s \in Symbol, ThreadStep(s), Opened \subseteq Opened',
         unaccounted \subseteq unaccounted'
  PROVE  /\ AttemptOK(s)'
         /\ \A q \in Symbol \ {s} :
              /\ pc'[q] = pc[q] /\ attempt'[q] = attempt[q]
              /\ pc[q] = "idle" \/ entryLock' = entryLock
<1> DEFINE Rest == \A q \in Symbol \ {s} :
              /\ pc'[q] = pc[q] /\ attempt'[q] = attempt[q]
              /\ pc[q] = "idle" \/ entryLock' = entryLock
<1> SUFFICES AttemptOK(s)' /\ Rest
  OBVIOUS
<1>0. /\ pc \in [Symbol -> {"idle"} \cup EntryPoint]
      /\ attempt \in [Symbol -> Attempt]
      /\ attempt[s] \in Attempt
      /\ AttemptOK(s)
      /\ \A q \in Symbol : pc[q] # "idle" => entryLock = q
  BY DEF EntryInv, TypeOK, AttemptInv, AttemptOK
<1> USE <1>0 DEF AttemptOK
<1>1. CASE EnterTrade(s)
  BY <1>1 DEF EnterTrade
<1>2. ASSUME ReleaseEntryLock(s), pc[s] # "idle" PROVE AttemptOK(s)' /\ Rest
  BY <1>2 DEF ReleaseEntryLock, NoAttempt
<1>3. CASE GiveUpEntry(s)
  BY <1>2, <1>3 DEF GiveUpEntry
<1>4. CASE ReadOpenRisk(s)
  BY <1>4 DEF ReadOpenRisk, Attempt
<1>5. ASSUME NEW r \in 1..MaxRisk, PositionSize(s, r) PROVE AttemptOK(s)' /\ Rest
  BY <1>5 DEF PositionSize, Attempt
<1>6. CASE StartTrade(s)
  <2>1. CASE ReleaseEntryLock(s)
    BY <1>2, <1>6, <2>1 DEF StartTrade
  <2>2. CASE ~ReleaseEntryLock(s)
    BY <1>6, <2>2 DEF StartTrade, Attempt
  <2> QED
    BY <2>1, <2>2
<1>7. ASSUME NEW t \in Ticket, SendOrder(s, t) PROVE AttemptOK(s)' /\ Rest
  BY <1>7 DEF SendOrder, Attempt
<1>8. ASSUME NEW t \in Ticket, ReplyFilled(s, t) PROVE AttemptOK(s)' /\ Rest
  <2>1. t \in Opened'
    BY <1>8 DEF ReplyFilled, Opened
  <2> QED
    BY <1>8, <2>1 DEF ReplyFilled, Attempt
<1>9. ASSUME NEW t \in Ticket, NEW again \in BOOLEAN, ReplyRejected(s, t, again)
      PROVE  AttemptOK(s)' /\ Rest
  <2>1. /\ attempt'[s].orders = {} /\ attempt'[s].refused = ~again
        /\ attempt'[s].tries = attempt[s].tries /\ attempt'[s].found = attempt[s].found
    BY <1>9 DEF ReplyRejected, Attempt
  <2> QED
    BY <1>9, <2>1 DEF ReplyRejected, Attempt
<1>10. CASE ReplyLost(s)
  BY <1>10 DEF ReplyLost
<1>11. ASSUME NEW t \in Ticket, FindNewPosition(s, t) PROVE AttemptOK(s)' /\ Rest
  <2>1. t \in Opened'
    BY <1>11 DEF FindNewPosition, NewPositions, OwnListed, EntryInv, TerminalInv
  <2> QED
    BY <1>11, <2>1 DEF FindNewPosition, Attempt
<1>12. ASSUME NEW readable \in BOOLEAN, NoPositionFound(s, readable)
       PROVE  AttemptOK(s)' /\ Rest
  BY <1>2, <1>12 DEF NoPositionFound
<1>13. CASE RecordPosition(s) \/ RecordFails(s)
  BY <1>2, <1>13 DEF RecordPosition, RecordFails
<1> HIDE DEF AttemptOK, Rest
<1> QED
  BY <1>1, <1>3, <1>4, <1>5, <1>6, <1>7, <1>8, <1>9, <1>10, <1>11, <1>12, <1>13
     DEF ThreadStep

\* Every attempt keeps its shape.
LEMMA AttemptStep ==
  ASSUME EntryInv, [Next]_vars
  PROVE  AttemptInv'
<1>0. /\ Opened \subseteq Opened' /\ unaccounted \subseteq unaccounted'
      /\ AttemptInv /\ TypeOK
  BY BooksStep, UnaccountedGrows DEF EntryInv
<1>1. ASSUME UNCHANGED threadVars PROVE AttemptInv'
  BY <1>0, <1>1 DEF threadVars, AttemptInv, AttemptOK
<1>2. ASSUME NEW s \in Symbol, ThreadStep(s) PROVE AttemptInv'
  <2>1. /\ AttemptOK(s)'
        /\ \A q \in Symbol \ {s} :
             /\ pc'[q] = pc[q] /\ attempt'[q] = attempt[q]
             /\ pc[q] = "idle" \/ entryLock' = entryLock
    BY <1>0, <1>2, AttemptThread
  <2>2. ASSUME NEW q \in Symbol \ {s} PROVE AttemptOK(q)'
    BY <1>0, <2>1, <2>2 DEF AttemptInv, AttemptOK
  <2> QED
    BY <2>1, <2>2 DEF AttemptInv
<1>3. CASE MainStep
  BY <1>1, <1>3 DEF MainStep, SaveState, ReconcileSkipped, ReconcileList, CheckClosed,
     ReconcileFails, AdoptAndReturn, Learn, EndOfPass
<1>4. CASE MainLoopFails \/ Interrupt
  BY <1>1, <1>4 DEF MainLoopFails, Interrupt
<1>5. ASSUME NEW file, StartFrom(file) PROVE AttemptInv'
  BY <1>5 DEF StartFrom, AttemptInv, AttemptOK, NoAttempt
<1>6. ASSUME NEW t \in Ticket, OrderVanishes(t) PROVE AttemptInv'
  <2>1. ASSUME NEW s \in Symbol
        PROVE  /\ attempt'[s].orders = attempt[s].orders \ {t}
               /\ attempt'[s].tries = attempt[s].tries
               /\ attempt'[s].refused = attempt[s].refused
               /\ attempt'[s].found = attempt[s].found
    <3>1. attempt[s] \in Attempt
      BY <1>0 DEF TypeOK
    <3> QED
      BY <1>6, <3>1 DEF OrderVanishes, Attempt
  <2> QED
    BY <1>0, <1>6, <2>1 DEF OrderVanishes, AttemptInv, AttemptOK
<1>7. ASSUME NEW t \in Ticket, BrokerStep(t) PROVE AttemptInv'
  BY <1>1, <1>6, <1>7 DEF BrokerStep
<1>8. CASE UNCHANGED vars
  BY <1>1, <1>8 DEF vars
<1> QED
  BY <1>2, <1>3, <1>4, <1>5, <1>7, <1>8 DEF Next, RestartStep, Reconnect, ShutDown, Crash

-----------------------------------------------------------------------------
\* An order or position that was live before the step and is live after it, on a
\* symbol that stays accounted for, is still tracked.
TrackedAfter(s, t) ==
  /\ cache'[t] # "out" \/ t \in attempt'[s].orders
  /\ Sized(s)' => t \in attempt'[s].orders

LEMMA TrackedThread ==
  ASSUME EntryInv, NEW q \in Symbol, ThreadStep(q), [Next]_vars,
         NEW s \in Symbol \ unaccounted', NEW t \in OwnLive,
         symbolOf[t] = s, state'[t] \in {"sent", "open"}
  PROVE  TrackedAfter(s, t)
<1>0. /\ attempt[s] \in Attempt /\ attempt[q] \in Attempt
      /\ pc \in [Symbol -> {"idle"} \cup EntryPoint] /\ attempt \in [Symbol -> Attempt]
      /\ cache \in [Ticket -> EntryKind]
      /\ AttemptOK(q) /\ AttemptOK(s) /\ s \notin unaccounted
      /\ t \in Ticket /\ state \in [Ticket -> TicketState]
  BY UnaccountedGrows DEF EntryInv, TypeOK, TerminalTypeOK, AttemptInv, OwnLive
<1>1. /\ cache[t] # "out" \/ t \in attempt[s].orders
      /\ Sized(s) => t \in attempt[s].orders
  BY <1>0 DEF EntryInv, TrackedInv
<1>2. CASE q # s
  <2>1. pc'[s] = pc[s] /\ attempt'[s] = attempt[s]
    BY <1>0, <1>2, AttemptThread, BooksStep, UnaccountedGrows DEF EntryInv
  <2>2. cache[t] # "out" => cache'[t] # "out"
    BY <1>0 DEF ThreadStep, EnterTrade, GiveUpEntry, ReadOpenRisk, PositionSize, StartTrade,
       SendOrder, ReplyFilled, ReplyRejected, ReplyLost, FindNewPosition,
       NoPositionFound, RecordPosition, RecordFails, cacheVars
  <2> QED
    BY <1>1, <2>1, <2>2 DEF TrackedAfter, Sized
<1> USE <1>0, <1>1 DEF TrackedAfter, Sized
<1>3. CASE EnterTrade(s)
  BY <1>3 DEF EnterTrade, AttemptOK, cacheVars
<1>4. CASE GiveUpEntry(s)
  BY <1>4 DEF GiveUpEntry, ReleaseEntryLock, AttemptOK, cacheVars
<1>5. CASE ReadOpenRisk(s)
  BY <1>5 DEF ReadOpenRisk, AttemptOK, cacheVars
<1>6. ASSUME NEW r \in 1..MaxRisk, PositionSize(s, r) PROVE TrackedAfter(s, t)
  <2>1. t \in Cached
    BY <1>6 DEF PositionSize, AttemptOK, Cached
  <2> QED
    BY <1>6, <2>1 DEF PositionSize, SymbolIsTaken
<1>7. CASE pc[s] \in {"sized", "sending"}
  BY <1>7 DEF AttemptOK
<1>8. ASSUME NEW u \in Ticket, ReplyFilled(s, u) \/ FindNewPosition(s, u)
      PROVE  TrackedAfter(s, t)
  BY <1>8 DEF ReplyFilled, FindNewPosition, Attempt, cacheVars
<1>9. ASSUME NEW u \in Ticket, NEW again \in BOOLEAN, ReplyRejected(s, u, again)
      PROVE  FALSE
  <2>1. t = u
    BY <1>9 DEF ReplyRejected, AttemptOK
  <2> QED
    BY <1>9, <2>1 DEF ReplyRejected, Discard
<1>10. CASE ReplyLost(s)
  BY <1>10 DEF ReplyLost, cacheVars
<1>11. ASSUME NEW readable \in BOOLEAN, NoPositionFound(s, readable) PROVE FALSE
  BY <1>11 DEF NoPositionFound, AttemptOK
<1>12. CASE RecordPosition(s)
  BY <1>12 DEF RecordPosition, ReleaseEntryLock, AttemptOK
<1>13. CASE RecordFails(s)
  BY <1>13 DEF RecordFails
<1> QED
  BY <1>2, <1>3, <1>4, <1>5, <1>6, <1>7, <1>8, <1>9, <1>10, <1>11, <1>12, <1>13
     DEF ThreadStep, StartTrade, SendOrder

\* The other steps: an entry leaves the cache only for a closed position, for one of
\* another program, or with an alert; a restart keeps what the file holds.
LEMMA TrackedOthers ==
  ASSUME EntryInv, [Next]_vars, ~ \E q \in Symbol : ThreadStep(q),
         NEW s \in Symbol \ unaccounted', NEW t \in OwnLive,
         symbolOf[t] = s, state'[t] \in {"sent", "open"}
  PROVE  TrackedAfter(s, t)
<1>0. /\ TypeOK /\ t \in Ticket /\ t \in Own /\ IsLive(t) /\ s \notin unaccounted
      /\ cache \in [Ticket -> EntryKind]
      /\ cache[t] # "out" \/ t \in attempt[s].orders
      /\ Sized(s) => t \in attempt[s].orders
  BY UnaccountedGrows DEF EntryInv, TypeOK, TrackedInv, OwnLive
<1>1. ASSUME UNCHANGED threadVars, cache[t] # "out" => cache'[t] # "out"
      PROVE  TrackedAfter(s, t)
  BY <1>0, <1>1 DEF threadVars, TrackedAfter, Sized
<1>2. CASE ReconcileList
  BY <1>0, <1>1, <1>2 DEF ReconcileList, Cached
<1>3. ASSUME NEW u \in Ticket, CheckClosed(u) PROVE TrackedAfter(s, t)
  <2>1. CASE ReportClosed(u)
    <3>1. u # t
      BY <1>0, <2>1 DEF ReportClosed, EntryInv, TerminalInv, IsLive
    <3> QED
      BY <1>0, <1>1, <1>3, <2>1, <3>1 DEF CheckClosed, ReportClosed, Drop
  <2>2. CASE DropForeign(u)
    BY <1>0, <1>1, <1>3, <2>2 DEF CheckClosed, DropForeign, Drop
  <2>3. CASE AwaitClosingDeal(u)
    BY <1>1, <1>3, <2>3 DEF CheckClosed, AwaitClosingDeal
  <2>4. CASE GiveUpClosingDeal(u)
    <3>1. u # t
      BY <2>4 DEF GiveUpClosingDeal
    <3> QED
      BY <1>0, <1>1, <1>3, <2>4, <3>1 DEF CheckClosed, GiveUpClosingDeal, Drop
  <2> QED
    BY <1>3, <2>1, <2>2, <2>3, <2>4 DEF CheckClosed
<1>4. CASE AdoptAndReturn
  BY <1>0, <1>1, <1>4 DEF AdoptAndReturn
<1>5. CASE SaveState \/ ReconcileSkipped \/ ReconcileFails \/ EndOfPass \/ MainLoopFails
           \/ Interrupt \/ \E c \in results : Learn(c)
  BY <1>1, <1>5 DEF SaveState, ReconcileSkipped, ReconcileFails, EndOfPass, Learn,
     MainLoopFails, Interrupt, cacheVars
<1>6. ASSUME NEW file, StartFrom(file) PROVE TrackedAfter(s, t)
  <2>1. file.cache[t] # "out"
    BY <1>0, <1>6 DEF StartFrom, UnsavedSymbols
  <2> QED
    BY <1>6, <2>1 DEF StartFrom, TrackedAfter, Sized
<1>7. ASSUME NEW u \in Ticket, OrderVanishes(u) PROVE TrackedAfter(s, t)
  <2>1. u # t
    BY <1>0, <1>7 DEF OrderVanishes, Discard, TypeOK, TerminalTypeOK
  <2>2. attempt[s] \in Attempt
    BY <1>0 DEF TypeOK
  <2> QED
    BY <1>0, <1>7, <2>1, <2>2 DEF OrderVanishes, Attempt, TrackedAfter, Sized, cacheVars
<1>8. ASSUME NEW u \in Ticket, BrokerStep(u) PROVE TrackedAfter(s, t)
  BY <1>1, <1>7, <1>8 DEF BrokerStep, cacheVars
<1>9. CASE UNCHANGED vars
  BY <1>1, <1>9 DEF vars, cacheVars
<1> QED
  BY <1>2, <1>3, <1>4, <1>5, <1>6, <1>8, <1>9
     DEF Next, MainStep, RestartStep, Reconnect, ShutDown, Crash

\* Whatever may be live at the broker stays tracked.
LEMMA TrackedStep ==
  ASSUME EntryInv, [Next]_vars
  PROVE  TrackedInv'
<1> SUFFICES ASSUME NEW s \in Symbol \ unaccounted', NEW t \in OwnLive', symbolOf'[t] = s
             PROVE  TrackedAfter(s, t)
  BY DEF TrackedInv, TrackedAfter
<1>1. t \in Own /\ state'[t] \in {"sent", "open"}
  BY DEF OwnLive, IsLive
<1>2. CASE t \in OwnLive /\ symbolOf[t] = s
  BY <1>1, <1>2, TrackedThread, TrackedOthers
<1>3. ASSUME NEW q \in Symbol, SendOrder(q, t) PROVE TrackedAfter(s, t)
  <2>1. attempt[q] \in Attempt /\ TypeOK /\ TerminalTypeOK /\ t \in Ticket
    BY DEF EntryInv, TypeOK, OwnLive
  <2>2. q = s
    BY <1>3, <2>1 DEF SendOrder, Place, TerminalTypeOK
  <2>3. t \in attempt'[s].orders
    BY <1>3, <2>1, <2>2 DEF SendOrder, Attempt, TypeOK
  <2> QED
    BY <2>3 DEF TrackedAfter
<1> QED
  BY <1>1, <1>2, <1>3, BooksStep DEF EntryInv, OwnLive, IsLive

\* A second order on an accounted symbol would need the first one to be untracked.
LEMMA OneStep ==
  ASSUME EntryInv, [Next]_vars
  PROVE  OnePositionPerSymbol'
<1> SUFFICES ASSUME NEW t \in OwnLive', NEW u \in OwnLive',
                    symbolOf'[t] \notin unaccounted', symbolOf'[t] = symbolOf'[u]
             PROVE  t = u
  BY DEF OnePositionPerSymbol, Accounted
<1> DEFINE Kept(x) == x \in OwnLive /\ symbolOf'[x] = symbolOf[x]
<1>0. /\ TypeOK /\ TerminalTypeOK
      /\ t \in Own /\ state'[t] \in {"sent", "open"}
      /\ u \in Own /\ state'[u] \in {"sent", "open"}
      /\ symbolOf'[t] \notin unaccounted
  BY UnaccountedGrows DEF EntryInv, TypeOK, OwnLive, IsLive
<1>1. /\ Kept(t) \/ \E s \in Symbol : SendOrder(s, t)
      /\ Kept(u) \/ \E s \in Symbol : SendOrder(s, u)
  BY <1>0, BooksStep DEF OwnLive, IsLive
<1>2. CASE Kept(t) /\ Kept(u)
  BY <1>0, <1>2 DEF EntryInv, OnePositionPerSymbol, Accounted
<1>3. ASSUME NEW x \in Own, NEW y \in Own, NEW s \in Symbol, SendOrder(s, x), Kept(y),
             symbolOf'[x] = symbolOf'[y], symbolOf'[x] \notin unaccounted
      PROVE  FALSE
  <2>1. symbolOf'[x] = s
    BY <1>0, <1>3 DEF SendOrder, Place, TerminalTypeOK
  <2>2. attempt[s].orders = {} /\ Sized(s)
    BY <1>3 DEF SendOrder, EntryInv, AttemptInv, AttemptOK, Sized
  <2> QED
    BY <1>3, <2>1, <2>2 DEF EntryInv, TrackedInv
<1>4. ASSUME NEW s \in Symbol, NEW q \in Symbol, SendOrder(s, t), SendOrder(q, u)
      PROVE  t = u
  BY <1>0, <1>4 DEF SendOrder, Place, TerminalTypeOK
<1> HIDE DEF Kept
<1> QED
  BY <1>0, <1>1, <1>2, <1>3, <1>4

-----------------------------------------------------------------------------
\* The invariant is inductive.
THEOREM Inductive == EntryInv /\ [Next]_vars => EntryInv'
BY TypeStep, TerminalStep, KnownStep, AttemptStep, TrackedStep, OneStep DEF EntryInv

\* The invariant holds in every reachable state of the trading loop, whatever the
\* interleaving of threads, reconciliation, terminal and restarts.
THEOREM EntryInvariant == Spec => []EntryInv
<1>1. Init => EntryInv
  BY InitInv
<1>2. EntryInv /\ [Next]_vars => EntryInv'
  BY Inductive
<1> QED
  BY <1>1, <1>2, PTL DEF Spec

\* Every variable of threads, cache, file and terminal keeps its type.
THEOREM TypeCorrect == Spec => []TypeOK
<1>1. EntryInv => TypeOK
  BY DEF EntryInv
<1> QED
  BY <1>1, EntryInvariant, PTL

\* The bot never has two positions or orders on one symbol that no alert named and
\* no restart forgot (risk.py:131-135 with the entry lock).
THEOREM OneEach == Spec => []OnePositionPerSymbol
<1>1. EntryInv => OnePositionPerSymbol
  BY DEF EntryInv
<1> QED
  BY <1>1, EntryInvariant, PTL

\* Nothing the bot learns from is still open, and nothing is another program's.
THEOREM LearnsFromClosed == Spec => []LearnedOnlyClosed
<1>1. EntryInv => LearnedOnlyClosed
  BY DEF EntryInv, KnownInv, LearnedOnlyClosed
<1> QED
  BY <1>1, EntryInvariant, PTL

=============================================================================
