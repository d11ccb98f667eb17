---------------------------- MODULE Credit_proofs ----------------------------
(***************************************************************************)
(* More proofs about LiveTrading, on top of EntryInv: CreditInv, from      *)
(* which no reward is given twice and every file is safe to load, CapInv   *)
(* and RiskInv, from which max_positions and max_portfolio_risk hold at    *)
(* the broker, and LedgerInv, with which every step is one of TradeLedger. *)
(***************************************************************************)
EXTENDS LiveTrading_proofs, FiniteSetTheorems

USE TerminalAssumption, LimitsAssumption DEF Own, TerminalAssumption, LimitsAssumption

\* A position keeps its symbol; an order keeps it until it is discarded.
LEMMA SymbolStays ==
  ASSUME TypeOK, [Next]_vars, NEW t \in Ticket, state[t] # "none"
  PROVE  \/ state'[t] # "none" /\ symbolOf'[t] = symbolOf[t]
         \/ state[t] = "sent" /\ Discard(t)
<1> DEFINE Goal == \/ state'[t] # "none" /\ symbolOf'[t] = symbolOf[t]
                   \/ state[t] = "sent" /\ Discard(t)
<1>0. TerminalTypeOK
  BY DEF TypeOK
<1>1. ASSUME UNCHANGED terminalVars PROVE Goal
  BY <1>1 DEF terminalVars
<1>2. ASSUME NEW s \in Symbol, NEW u \in Ticket, SendOrder(s, u)
      PROVE  Goal
  BY <1>0, <1>2 DEF SendOrder, Place, TerminalTypeOK, TicketState
<1>3. ASSUME NEW u \in Ticket, Discard(u)
      PROVE  Goal
  BY <1>0, <1>3 DEF Discard, TerminalTypeOK, TicketState
<1>4. ASSUME NEW u \in Ticket,
             \/ Execute(u) \/ CloseAtBroker(u) \/ ListCatchesUp(u) \/ DealAppears(u)
             \/ \E s \in Symbol : ForeignOpens(u, s)
      PROVE  Goal
  BY <1>0, <1>4 DEF Execute, CloseAtBroker, ListCatchesUp, DealAppears, ForeignOpens,
     TerminalTypeOK, TicketState
<1> HIDE DEF Goal
<1>5. Goal
  BY <1>1, <1>2, <1>3, <1>4, TerminalMoves
<1> QED
  BY <1>5 DEF Goal

\* What is accounted for after a step was so before it, for positions.
LEMMA AccountedBefore ==
  ASSUME TypeOK, [Next]_vars, NEW t \in Opened, Accounted(t)'
  PROVE  Accounted(t) /\ symbolOf'[t] = symbolOf[t]
<1>1. t \in Ticket /\ state[t] # "none" /\ state[t] # "sent"
  BY DEF Opened
<1>2. symbolOf'[t] = symbolOf[t]
  BY <1>1, SymbolStays
<1> QED
  BY <1>2, UnaccountedGrows DEF Accounted

\* Rewards are of positions, before the step and after it.
LEMMA RewardsOpened ==
  ASSUME EntryInv
  PROVE  \A c \in results \cup learned \cup saved.learned :
           c.ticket \in Own /\ c.ticket \in Opened /\ state[c.ticket] = "closed"
BY DEF EntryInv, KnownInv, Opened

-----------------------------------------------------------------------------
\* Who discards an order: the answer to it, or the end of one nobody waits for.
LEMMA DiscardMoves ==
  ASSUME TypeOK, [Next]_vars, NEW t \in Ticket, Discard(t)
  PROVE  \/ \E s \in Symbol, again \in BOOLEAN : ReplyRejected(s, t, again)
         \/ OrderVanishes(t)
<1> DEFINE Goal == \/ \E s \in Symbol, again \in BOOLEAN : ReplyRejected(s, t, again)
                   \/ OrderVanishes(t)
<1>0. /\ TerminalTypeOK /\ state[t] = "sent" /\ state'[t] = "none"
  BY DEF TypeOK, TerminalTypeOK, Discard
<1>1. ASSUME UNCHANGED terminalVars PROVE FALSE
  BY <1>0, <1>1 DEF terminalVars
<1>2. ASSUME NEW s \in Symbol, ThreadStep(s) PROVE Goal
  <2>1. ASSUME NEW u \in Ticket, SendOrder(s, u) PROVE FALSE
    BY <1>0, <2>1 DEF SendOrder, Place, TerminalTypeOK, TicketState
  <2>2. ASSUME NEW u \in Ticket, NEW again \in BOOLEAN, ReplyRejected(s, u, again)
        PROVE  u = t
    BY <1>0, <2>2 DEF ReplyRejected, Discard, TerminalTypeOK, TicketState
  <2> QED
    BY <1>1, <1>2, <2>1, <2>2 DEF ThreadStep, EnterTrade, GiveUpEntry, ReadOpenRisk,
       PositionSize, StartTrade, ReplyFilled, ReplyLost, FindNewPosition, NoPositionFound,
       RecordPosition, RecordFails
<1>3. ASSUME MainStep PROVE Goal
  BY <1>1, <1>3 DEF MainStep, SaveState, ReconcileSkipped, ReconcileList, CheckClosed,
     ReconcileFails, AdoptAndReturn, Learn, EndOfPass
<1>4. ASSUME RestartStep PROVE Goal
  BY <1>1, <1>4 DEF RestartStep, MainLoopFails, Interrupt, Reconnect, ShutDown, Crash,
     StartFrom
<1>5. ASSUME NEW u \in Ticket, BrokerStep(u) PROVE Goal
  <2>1. ASSUME OrderVanishes(u) PROVE u = t
    BY <1>0, <2>1 DEF OrderVanishes, Discard, TerminalTypeOK, TicketState
  <2>2. ASSUME \/ Execute(u) \/ CloseAtBroker(u) \/ ListCatchesUp(u) \/ DealAppears(u)
               \/ \E s \in Symbol : ForeignOpens(u, s)
        PROVE  FALSE
    BY <1>0, <2>2 DEF Execute, CloseAtBroker, ListCatchesUp, DealAppears, ForeignOpens,
       TerminalTypeOK, TicketState
  <2> QED
    BY <1>5, <2>1, <2>2 DEF BrokerStep
<1>6. ASSUME UNCHANGED vars PROVE Goal
  BY <1>1, <1>6 DEF vars
<1> HIDE DEF Goal
<1>7. Goal
  BY <1>2, <1>3, <1>4, <1>5, <1>6 DEF Next
<1> QED
  BY <1>7 DEF Goal

\* What a step may do to the attempt of a symbol: its thread's step, a restart, the end
\* of an order, or nothing.
LEMMA AttemptMoves ==
  ASSUME EntryInv, [Next]_vars, NEW s \in Symbol
  PROVE  \/ ThreadStep(s)
         \/ pc'[s] = pc[s] /\ attempt'[s] = attempt[s]
         \/ pc'[s] = "idle" /\ attempt'[s].orders = {}
         \/ pc'[s] = pc[s] /\ \E t \in Ticket : OrderVanishes(t)
<1> DEFINE Goal == \/ ThreadStep(s)
                   \/ pc'[s] = pc[s] /\ attempt'[s] = attempt[s]
                   \/ pc'[s] = "idle" /\ attempt'[s].orders = {}
                   \/ pc'[s] = pc[s] /\ \E t \in Ticket : OrderVanishes(t)
<1>1. ASSUME UNCHANGED threadVars PROVE Goal
  BY <1>1 DEF threadVars
<1>2. ASSUME NEW q \in Symbol, ThreadStep(q) PROVE Goal
  <2>1. q # s => pc'[s] = pc[s] /\ attempt'[s] = attempt[s]
    BY <1>2, AttemptThread, BooksStep, UnaccountedGrows DEF EntryInv
  <2> QED
    BY <1>2, <2>1
<1>3. ASSUME MainStep PROVE Goal
  BY <1>1, <1>3 DEF MainStep, SaveState, ReconcileSkipped, ReconcileList, CheckClosed,
     ReconcileFails, AdoptAndReturn, Learn, EndOfPass
<1>4. ASSUME MainLoopFails \/ Interrupt PROVE Goal
  BY <1>1, <1>4 DEF MainLoopFails, Interrupt
<1>5. ASSUME NEW file, StartFrom(file) PROVE Goal
  BY <1>5 DEF StartFrom, NoAttempt
<1>6. ASSUME NEW t \in Ticket, BrokerStep(t) PROVE Goal
  BY <1>1, <1>6 DEF BrokerStep, OrderVanishes
<1>7. ASSUME UNCHANGED vars PROVE Goal
  BY <1>1, <1>7 DEF vars
<1> HIDE DEF Goal
<1>8. Goal
  BY <1>2, <1>3, <1>4, <1>5, <1>6, <1>7 DEF Next, RestartStep, Reconnect, ShutDown, Crash
<1> QED
  BY <1>8 DEF Goal

\* Only a send adds an order to an attempt.
LEMMA OrdersGrow ==
  ASSUME EntryInv, [Next]_vars, NEW s \in Symbol, NEW t \in attempt'[s].orders
  PROVE  t \in attempt[s].orders \/ SendOrder(s, t)
<1>0. /\ attempt[s] \in Attempt /\ attempt \in [Symbol -> Attempt]
  BY DEF EntryInv, TypeOK
<1>1. CASE ThreadStep(s)
  <2>1. ASSUME NEW u \in Ticket, SendOrder(s, u)
        PROVE  t \in attempt[s].orders \/ SendOrder(s, t)
    <3>1. attempt'[s].orders = attempt[s].orders \cup {u}
      BY <1>0, <2>1 DEF SendOrder, Attempt
    <3> QED
      BY <2>1, <3>1
  <2>2. ASSUME NEW u \in Ticket, NEW again \in BOOLEAN, ReplyRejected(s, u, again)
        PROVE  t \in attempt[s].orders
    BY <1>0, <2>2 DEF ReplyRejected, Attempt
  <2>3. ASSUME ReleaseEntryLock(s) PROVE FALSE
    BY <1>0, <2>3 DEF ReleaseEntryLock, NoAttempt
  <2>4. ASSUME NEW u \in Ticket, ReplyFilled(s, u) \/ FindNewPosition(s, u)
        PROVE  t \in attempt[s].orders
    BY <1>0, <2>4 DEF ReplyFilled, FindNewPosition, Attempt
  <2>5. ASSUME EnterTrade(s) \/ ReplyLost(s) PROVE t \in attempt[s].orders
    BY <2>5 DEF EnterTrade, ReplyLost
  <2>6. ASSUME ReadOpenRisk(s) PROVE t \in attempt[s].orders
    BY <1>0, <2>6 DEF ReadOpenRisk, Attempt
  <2>7. ASSUME NEW r \in 1..MaxRisk, PositionSize(s, r) PROVE t \in attempt[s].orders
    BY <1>0, <2>7 DEF PositionSize, Attempt
  <2>8. ASSUME StartTrade(s) PROVE t \in attempt[s].orders
    <3>1. PICK before \in {OwnListed(s), None} :
            attempt' = [attempt EXCEPT ![s].before = before]
      BY <2>3, <2>8 DEF StartTrade
    <3> QED
      BY <1>0, <3>1 DEF Attempt
  <2> QED
    BY <1>1, <2>1, <2>2, <2>3, <2>4, <2>5, <2>6, <2>7, <2>8 DEF ThreadStep, GiveUpEntry, NoPositionFound,
       RecordPosition, RecordFails
<1>2. CASE attempt'[s] = attempt[s] \/ attempt'[s].orders = {}
  BY <1>2
<1>3. ASSUME NEW u \in Ticket, OrderVanishes(u) PROVE t \in attempt[s].orders
  BY <1>0, <1>3 DEF OrderVanishes, Attempt
<1> QED
  BY <1>1, <1>2, <1>3, AttemptMoves

\* Orders keep their symbol, and an attempt records its own order or, with an alert,
\* another new position of its symbol.
LEMMA OrdersStep ==
  ASSUME EntryInv, OrdersInv, [Next]_vars
  PROVE  OrdersInv'
<1> SUFFICES ASSUME NEW s \in Symbol
             PROVE  /\ \A t \in attempt'[s].orders : symbolOf'[t] = s /\ state'[t] # "none"
                    /\ pc'[s] = "recording" =>
                         /\ symbolOf'[attempt'[s].found] = s
                         /\ \/ s \in unaccounted'
                            \/ attempt'[s].found \in attempt'[s].orders
  BY DEF OrdersInv
<1>0. /\ TypeOK /\ TerminalTypeOK /\ attempt \in [Symbol -> Attempt]
      /\ pc \in [Symbol -> {"idle"} \cup EntryPoint]
      /\ \A q \in Symbol : attempt[q].orders \subseteq Ticket
  BY DEF EntryInv, TypeOK, Attempt
<1>1. ASSUME NEW t \in attempt'[s].orders
      PROVE  symbolOf'[t] = s /\ state'[t] # "none"
  <2>1. CASE SendOrder(s, t)
    BY <1>0, <2>1 DEF SendOrder, Place, TerminalTypeOK
  <2>2. CASE t \in attempt[s].orders
    <3>1. t \in Ticket /\ symbolOf[t] = s /\ state[t] # "none"
      BY <1>0, <2>2 DEF OrdersInv
    <3>2. ASSUME Discard(t) PROVE FALSE
      <4>1. ASSUME OrderVanishes(t) PROVE FALSE
        BY <1>0, <1>1, <4>1 DEF OrderVanishes, Attempt
      <4>2. ASSUME NEW q \in Symbol, NEW again \in BOOLEAN, ReplyRejected(q, t, again)
            PROVE  FALSE
        <5>1. q = s
          BY <3>1, <4>2 DEF ReplyRejected, OrdersInv
        <5> QED
          BY <1>0, <1>1, <4>2, <5>1 DEF ReplyRejected, Attempt
      <4> QED
        BY <1>0, <3>1, <3>2, <4>1, <4>2, DiscardMoves
    <3> QED
      BY <1>0, <3>1, <3>2, SymbolStays
  <2> QED
    BY <2>1, <2>2, OrdersGrow
<1>2. ASSUME pc'[s] = "recording"
      PROVE  /\ symbolOf'[attempt'[s].found] = s
             /\ s \in unaccounted' \/ attempt'[s].found \in attempt'[s].orders
  <2>1. ASSUME pc[s] = "recording", attempt'[s].found = attempt[s].found,
               attempt[s].found \in attempt[s].orders =>
                 attempt[s].found \in attempt'[s].orders
        PROVE  /\ symbolOf'[attempt'[s].found] = s
               /\ s \in unaccounted' \/ attempt'[s].found \in attempt'[s].orders
    <3>1. /\ attempt[s].found \in Ticket
          /\ state[attempt[s].found] # "none" /\ state[attempt[s].found] # "sent"
      BY <2>1 DEF EntryInv, AttemptInv, AttemptOK, Opened
    <3>2. symbolOf'[attempt[s].found] = symbolOf[attempt[s].found]
      BY <1>0, <3>1, SymbolStays
    <3> QED
      BY <2>1, <3>2, UnaccountedGrows DEF OrdersInv
  <2>2. CASE ThreadStep(s)
    <3>1. ASSUME ReleaseEntryLock(s) PROVE FALSE
      BY <1>0, <1>2, <3>1 DEF ReleaseEntryLock
    <3>2. PICK t \in Ticket : ReplyFilled(s, t) \/ FindNewPosition(s, t)
      BY <1>0, <1>2, <2>2, <3>1 DEF ThreadStep, EnterTrade, GiveUpEntry, ReadOpenRisk,
         PositionSize, StartTrade, SendOrder, ReplyRejected, ReplyLost, NoPositionFound,
         RecordPosition, RecordFails
    <3>3. CASE ReplyFilled(s, t)
      <4>1. attempt'[s].found = t /\ attempt'[s].orders = attempt[s].orders
        BY <1>0, <1>2, <3>3 DEF ReplyFilled, Attempt
      <4>2. symbolOf'[t] = symbolOf[t] /\ t \in attempt[s].orders
        BY <3>3 DEF ReplyFilled, terminalVars
      <4> QED
        BY <4>1, <4>2 DEF OrdersInv
    <3>4. CASE FindNewPosition(s, t)
      <4>1. attempt'[s].found = t /\ attempt'[s].orders = attempt[s].orders
        BY <1>0, <3>4 DEF FindNewPosition, Attempt
      <4>2. /\ symbolOf'[t] = s
            /\ s \in unaccounted' \/ t \in attempt[s].orders
        BY <3>4 DEF FindNewPosition, NewPositions, OwnListed, terminalVars
      <4> QED
        BY <4>1, <4>2
    <3> QED
      BY <3>2, <3>3, <3>4
  <2>3. ASSUME NEW t \in Ticket, OrderVanishes(t), pc'[s] = pc[s]
        PROVE  /\ symbolOf'[attempt'[s].found] = s
               /\ s \in unaccounted' \/ attempt'[s].found \in attempt'[s].orders
    <3>1. /\ attempt'[s].orders = attempt[s].orders \ {t}
          /\ attempt'[s].found = attempt[s].found
      BY <1>0, <2>3 DEF OrderVanishes, Attempt
    <3>2. attempt[s].found # t
      BY <1>2, <2>3 DEF EntryInv, AttemptInv, AttemptOK, Opened, OrderVanishes, Discard
    <3> QED
      BY <1>2, <2>1, <2>3, <3>1, <3>2
  <2>4. CASE pc'[s] = pc[s] /\ attempt'[s] = attempt[s]
    BY <1>2, <2>1, <2>4
  <2> QED
    BY <1>2, <2>2, <2>3, <2>4, AttemptMoves
<1> QED
  BY <1>1, <1>2

-----------------------------------------------------------------------------
\* An attempt that sends an order gets a ticket nobody has seen.
LEMMA OrdersUnrewarded ==
  ASSUME EntryInv, CreditInv, [Next]_vars, NEW s \in Symbol \ unaccounted',
         NEW t \in attempt'[s].orders
  PROVE  cache[t] # "recorded" /\ Reward(t) \notin results \cup learned
<1>1. CASE t \in attempt[s].orders
  BY <1>1, UnaccountedGrows DEF CreditInv, RewardInv
<1>2. CASE SendOrder(s, t)
  <2>1. t \in Own /\ state[t] = "none"
    BY <1>2 DEF SendOrder, Place
  <2>2. t \notin Cached
    BY <2>1 DEF EntryInv, KnownInv, Opened
  <2>3. Reward(t) \notin results \cup learned
    BY <2>1, RewardsOpened DEF Reward
  <2> QED
    BY <2>1, <2>2, <2>3 DEF Cached
<1> QED
  BY <1>1, <1>2, OrdersGrow

\* The steps that record no position, report no trade and write no file.
LEMMA RewardFrame ==
  ASSUME EntryInv, CreditInv, [Next]_vars, UNCHANGED saved,
         \A t \in Ticket : cache'[t] = "recorded" => cache[t] = "recorded",
         results' \cup learned' \subseteq results \cup learned,
         \A c \in results' : c \in learned' => c \in results /\ c \in learned
  PROVE  RewardInv' /\ NeverCreditedTwice' /\ FileConsistent'
<1>0. TypeOK
  BY DEF EntryInv
<1>1. RewardInv'
  <2>1. ASSUME NEW s \in Symbol \ unaccounted', NEW t \in attempt'[s].orders
        PROVE  cache'[t] # "recorded" /\ Reward(t) \notin results' \cup learned'
    <3>1. t \in Ticket
      <4>1. TypeOK'
        BY Inductive DEF EntryInv
      <4> QED
        BY <4>1 DEF TypeOK, Attempt
    <3> QED
      BY <2>1, <3>1, OrdersUnrewarded
  <2>2. ASSUME NEW t \in Own, Accounted(t)', Reward(t) \in results' \cup learned'
        PROVE  cache'[t] # "recorded"
    <3>1. t \in Opened /\ Reward(t) \in results \cup learned
      BY <2>2, RewardsOpened DEF Reward
    <3>2. Accounted(t)
      BY <1>0, <2>2, <3>1, AccountedBefore
    <3> QED
      BY <3>1, <3>2 DEF CreditInv, RewardInv
  <2> QED
    BY <2>1, <2>2 DEF RewardInv, Reward
<1>2. NeverCreditedTwice'
  <2> SUFFICES ASSUME NEW c \in results', Accounted(c.ticket)', c.kind = "recorded",
                      c \in learned'
               PROVE  FALSE
    BY DEF NeverCreditedTwice
  <2>1. c \in results /\ c \in learned /\ c.ticket \in Opened
    BY RewardsOpened
  <2> QED
    BY <1>0, <2>1, AccountedBefore DEF CreditInv, NeverCreditedTwice
<1>3. FileConsistent'
  <2> SUFFICES ASSUME NEW c \in saved.learned, Accounted(c.ticket)', c.kind = "recorded"
               PROVE  saved.cache[c.ticket] # "recorded"
    BY DEF FileConsistent
  <2>1. c.ticket \in Opened
    BY RewardsOpened
  <2> QED
    BY <1>0, <2>1, AccountedBefore DEF CreditInv, FileConsistent
<1> QED
  BY <1>1, <1>2, <1>3

\* A position is recorded that no hand but the attempt held.
LEMMA RewardRecord ==
  ASSUME EntryInv, CreditInv, [Next]_vars, NEW s \in Symbol, RecordPosition(s)
  PROVE  RewardInv' /\ NeverCreditedTwice' /\ FileConsistent'
<1> DEFINE u == attempt[s].found
<1>0. /\ TypeOK /\ TypeOK' /\ pc[s] = "recording" /\ u \in Opened /\ u \in Ticket
      /\ cache \in [Ticket -> EntryKind] /\ cache' = [cache EXCEPT ![u] = "recorded"]
      /\ results' = results /\ learned' = learned /\ saved' = saved
      /\ attempt'[s].orders = {}
      /\ \A q \in Symbol \ {s} : attempt'[q] = attempt[q]
      /\ \A t \in Ticket : symbolOf'[t] = symbolOf[t]
  <2>1. TypeOK /\ TypeOK'
    BY Inductive DEF EntryInv
  <2>2. pc[s] = "recording" /\ u \in Opened
    BY DEF RecordPosition, EntryInv, AttemptInv, AttemptOK
  <2>3. \A q \in Symbol \ {s} : attempt'[q] = attempt[q]
    BY <2>1 DEF RecordPosition, ReleaseEntryLock, TypeOK
  <2>4. attempt'[s].orders = {}
    BY <2>1 DEF RecordPosition, ReleaseEntryLock, NoAttempt, TypeOK
  <2> QED
    BY <2>1, <2>2, <2>3, <2>4 DEF RecordPosition, TypeOK, mainVars, reconcileVars,
       terminalVars, Opened
<1>1. symbolOf[u] = s /\ (s \in unaccounted \/ u \in attempt[s].orders)
  BY <1>0 DEF CreditInv, OrdersInv
<1>2. s \in unaccounted \/ Reward(u) \notin results \cup learned
  BY <1>1 DEF CreditInv, RewardInv
<1> HIDE DEF u
<1>3. RewardInv'
  <2>1. ASSUME NEW q \in Symbol \ unaccounted', NEW t \in attempt'[q].orders
        PROVE  cache'[t] # "recorded" /\ Reward(t) \notin results' \cup learned'
    <3>1. q # s /\ t \in attempt[q].orders /\ t \in Ticket
      BY <1>0 DEF TypeOK, Attempt
    <3>2. t # u
      BY <1>1, <3>1 DEF CreditInv, OrdersInv
    <3> QED
      BY <1>0, <3>1, <3>2, OrdersUnrewarded
  <2>2. ASSUME NEW t \in Own, Accounted(t)', Reward(t) \in results' \cup learned'
        PROVE  cache'[t] # "recorded"
    <3>1. Accounted(t)
      BY <1>0, <2>2, UnaccountedGrows DEF Accounted
    <3>2. t # u
      BY <1>0, <1>1, <1>2, <2>2, <3>1 DEF Accounted
    <3> QED
      BY <1>0, <2>2, <3>1, <3>2 DEF CreditInv, RewardInv
  <2> QED
    BY <2>1, <2>2 DEF RewardInv, Reward
<1>4. NeverCreditedTwice' /\ FileConsistent'
  <2>1. \A t \in Own : Accounted(t)' => Accounted(t)
    BY <1>0, UnaccountedGrows DEF Accounted
  <2>2. \A c \in results \cup learned \cup saved.learned : c.ticket \in Own
    BY RewardsOpened
  <2> QED
    BY <1>0, <2>1, <2>2 DEF CreditInv, NeverCreditedTwice, FileConsistent
<1> QED
  BY <1>3, <1>4

\* A recorded trade is reported when its entry leaves the cache, so that no other hand
\* has it.
LEMMA RewardReport ==
  ASSUME EntryInv, CreditInv, [Next]_vars, NEW u \in Ticket, CheckClosed(u),
         ReportClosed(u)
  PROVE  RewardInv' /\ NeverCreditedTwice' /\ FileConsistent'
<1> DEFINE r == [ticket |-> u, kind |-> cache[u]]
<1>0. /\ cache \in [Ticket -> EntryKind] /\ cache' = [cache EXCEPT ![u] = "out"]
      /\ results' = results \cup {r} /\ u \in Own
      /\ learned' = learned /\ saved' = saved /\ attempt' = attempt
      /\ unaccounted' = unaccounted /\ symbolOf' = symbolOf
  BY DEF CheckClosed, ReportClosed, Drop, EntryInv, TypeOK, threadVars, terminalVars
<1>1. r.kind = "recorded" => cache[u] = "recorded" /\ r = Reward(u)
  BY DEF Reward
<1>2. r.ticket = u
  OBVIOUS
<1> HIDE DEF r
<1>3. \A t \in Own : Reward(t) = r => t = u /\ cache[u] = "recorded"
  BY <1>1, <1>2 DEF Reward
<1>4. RewardInv'
  <2>1. ASSUME NEW q \in Symbol \ unaccounted', NEW t \in attempt'[q].orders
        PROVE  cache'[t] # "recorded" /\ Reward(t) \notin results' \cup learned'
    <3>1. cache[t] # "recorded" /\ Reward(t) \notin results \cup learned
      BY <2>1, OrdersUnrewarded
    <3>2. Reward(t) = r => t = u /\ cache[u] = "recorded"
      BY <1>1, <1>2 DEF Reward
    <3>3. t \in Ticket
      BY <1>0 DEF EntryInv, TypeOK, Attempt
    <3> QED
      BY <1>0, <3>1, <3>2, <3>3
  <2>2. ASSUME NEW t \in Own, Accounted(t)', Reward(t) \in results' \cup learned'
        PROVE  cache'[t] # "recorded"
    BY <1>0, <1>3, <2>2 DEF Accounted, CreditInv, RewardInv
  <2> QED
    BY <2>1, <2>2 DEF RewardInv, Reward
<1>5. NeverCreditedTwice'
  <2> SUFFICES ASSUME NEW c \in results', Accounted(c.ticket)', c.kind = "recorded",
                      c \in learned'
               PROVE  FALSE
    BY DEF NeverCreditedTwice
  <2>1. Accounted(c.ticket) /\ c \in learned
    BY <1>0 DEF Accounted
  <2>2. CASE c = r
    BY <1>0, <1>1, <1>2, <2>1, <2>2 DEF CreditInv, RewardInv
  <2>3. CASE c \in results
    BY <2>1, <2>3 DEF CreditInv, NeverCreditedTwice
  <2> QED
    BY <1>0, <2>2, <2>3
<1>6. FileConsistent'
  BY <1>0 DEF CreditInv, FileConsistent, Accounted
<1> QED
  BY <1>4, <1>5, <1>6

\* The cache and what was learned are consistent with each other, so that the file that
\* holds both is.
LEMMA SnapshotConsistent ==
  ASSUME EntryInv, CreditInv, NEW c \in learned, Accounted(c.ticket), c.kind = "recorded"
  PROVE  cache[c.ticket] # "recorded"
<1>1. c \in ClosedTrade /\ c.ticket \in Own
  BY RewardsOpened DEF EntryInv, TypeOK
<1>2. c = Reward(c.ticket)
  BY <1>1 DEF ClosedTrade, Reward
<1> QED
  BY <1>1, <1>2 DEF CreditInv, RewardInv

\* A save writes either the consistent memory or keeps the old file.
LEMMA RewardSave ==
  ASSUME EntryInv, CreditInv, SaveState
  PROVE  RewardInv' /\ NeverCreditedTwice' /\ FileConsistent'
<1>1. /\ cache' = cache /\ results' = results /\ learned' = learned
      /\ attempt' = attempt /\ unaccounted' = unaccounted /\ symbolOf' = symbolOf
  BY DEF SaveState, cacheVars, threadVars, terminalVars, reconcileVars
<1>2. RewardInv' /\ NeverCreditedTwice'
  BY <1>1 DEF CreditInv, RewardInv, NeverCreditedTwice, Accounted, Reward
<1>3. FileConsistent'
  BY <1>1, SnapshotConsistent DEF SaveState, Snapshot, CreditInv, FileConsistent, Accounted
<1> QED
  BY <1>2, <1>3

\* What a start loads is what a save wrote.
LEMMA RewardStart ==
  ASSUME EntryInv, CreditInv, NEW file \in {saved, Snapshot}, StartFrom(file)
  PROVE  RewardInv' /\ NeverCreditedTwice' /\ FileConsistent'
<1>1. /\ cache' = file.cache /\ results' = {} /\ learned' = file.learned
      /\ saved' = file /\ symbolOf' = symbolOf /\ unaccounted \subseteq unaccounted'
      /\ \A s \in Symbol : attempt'[s].orders = {}
  BY DEF StartFrom, NoAttempt, terminalVars
<1>2. ASSUME NEW c \in file.learned, Accounted(c.ticket)', c.kind = "recorded"
      PROVE  file.cache[c.ticket] # "recorded"
  <2>1. Accounted(c.ticket)
    BY <1>1, <1>2 DEF Accounted
  <2> QED
    BY <1>2, <2>1, SnapshotConsistent DEF Snapshot, CreditInv, FileConsistent
<1>3. FileConsistent' /\ NeverCreditedTwice'
  BY <1>1, <1>2 DEF FileConsistent, NeverCreditedTwice
<1>4. ASSUME NEW t \in Own, Accounted(t)', Reward(t) \in results' \cup learned'
      PROVE  cache'[t] # "recorded"
  <2>1. Reward(t).ticket = t /\ Reward(t).kind = "recorded"
    BY DEF Reward
  <2> QED
    BY <1>1, <1>2, <1>4, <2>1
<1>5. RewardInv'
  BY <1>1, <1>4 DEF RewardInv, Reward
<1> QED
  BY <1>3, <1>5

\* Every step keeps the rewards apart.
LEMMA CreditStep ==
  ASSUME EntryInv, CreditInv, [Next]_vars
  PROVE  CreditInv'
<1> DEFINE Goal == RewardInv' /\ NeverCreditedTwice' /\ FileConsistent'
<1>1. ASSUME UNCHANGED <<cache, results, learned, saved>> PROVE Goal
  BY <1>1, RewardFrame DEF CreditInv, NeverCreditedTwice
<1>2. ASSUME NEW s \in Symbol, ThreadStep(s) PROVE Goal
  <2>1. RecordPosition(s) \/ UNCHANGED <<cache, results, learned, saved>>
    BY <1>2 DEF ThreadStep, EnterTrade, GiveUpEntry, ReadOpenRisk, PositionSize,
       StartTrade, SendOrder, ReplyFilled, ReplyRejected, ReplyLost, FindNewPosition,
       NoPositionFound, RecordFails, cacheVars, mainVars, reconcileVars
  <2> QED
    BY <1>1, <2>1, RewardRecord
<1>3. ASSUME NEW u \in Ticket, CheckClosed(u) PROVE Goal
  <2>1. CASE ReportClosed(u)
    BY <1>3, <2>1, RewardReport
  <2>2. CASE DropForeign(u) \/ AwaitClosingDeal(u) \/ GiveUpClosingDeal(u)
    <3>1. /\ \A t \in Ticket : cache'[t] = "recorded" => cache[t] = "recorded"
          /\ UNCHANGED <<results, learned, saved>>
      BY <1>3, <2>2 DEF CheckClosed, DropForeign, AwaitClosingDeal, GiveUpClosingDeal,
         Drop, EntryInv, TypeOK
    <3> QED
      BY <3>1, RewardFrame
  <2> QED
    BY <1>3, <2>1, <2>2 DEF CheckClosed
<1>4. ASSUME ReconcileList \/ ReconcileFails \/ AdoptAndReturn PROVE Goal
  <2>1. /\ \A t \in Ticket : cache'[t] = "recorded" => cache[t] = "recorded"
        /\ results' \subseteq results /\ UNCHANGED <<learned, saved>>
    BY <1>4 DEF ReconcileList, ReconcileFails, AdoptAndReturn, cacheVars
  <2> QED
    BY <2>1, RewardFrame
<1>5. ASSUME NEW c \in results, Learn(c) PROVE Goal
  BY <1>5, RewardFrame DEF Learn, cacheVars
<1>6. ASSUME MainLoopFails \/ Interrupt PROVE Goal
  <2>1. results' = {} /\ UNCHANGED <<cache, learned, saved>>
    BY <1>6 DEF MainLoopFails, Interrupt, cacheVars
  <2> QED
    BY <2>1, RewardFrame
<1>7. ASSUME SaveState \/ Reconnect \/ ShutDown \/ Crash PROVE Goal
  BY <1>7, RewardSave, RewardStart DEF Reconnect, ShutDown, Crash
<1>8. ASSUME ReconcileSkipped \/ EndOfPass \/ UNCHANGED vars PROVE Goal
  BY <1>1, <1>8 DEF ReconcileSkipped, EndOfPass, vars, cacheVars, reconcileVars, mainVars
<1>9. ASSUME NEW t \in Ticket, BrokerStep(t) PROVE Goal
  BY <1>1, <1>9 DEF BrokerStep, OrderVanishes, cacheVars, mainVars, reconcileVars
<1> HIDE DEF Goal
<1>10. Goal
  BY <1>2, <1>3, <1>4, <1>5, <1>6, <1>7, <1>8, <1>9 DEF Next, MainStep, RestartStep
<1> QED
  BY <1>10, OrdersStep DEF Goal, CreditInv

\* At the start nothing is on its way to the bandits.
LEMMA CreditInit == Init => CreditInv
BY DEF Init, CreditInv, OrdersInv, RewardInv, NeverCreditedTwice, FileConsistent, NoAttempt,
   Snapshot

\* Recorded trades are in one hand, in every reachable state, over any number of
\* restarts.
THEOREM CreditInvariant == Spec => []CreditInv
<1>1. EntryInv /\ CreditInv /\ [Next]_vars => CreditInv'
  BY CreditStep
<1> QED
  BY <1>1, CreditInit, EntryInvariant, PTL DEF Spec

\* The bandits get the reward of a recorded trade at most once (main.py:69), whatever is
\* adopted, overwritten, reported or loaded in between.
THEOREM CreditedOnce == Spec => []NeverCreditedTwice
<1>1. CreditInv => NeverCreditedTwice
  BY DEF CreditInv
<1> QED
  BY <1>1, CreditInvariant, PTL

\* Loading a state file never makes a learned trade learnable again (main.py:264).
THEOREM FilesAreConsistent == Spec => []FileConsistent
<1>1. CreditInv => FileConsistent
  BY DEF CreditInv
<1> QED
  BY <1>1, CreditInvariant, PTL

\* One call of trade leaves at most one order at the broker (execution.py:313).
THEOREM OneOrder == Spec => []OneOrderPerEntry
<1>1. EntryInv => OneOrderPerEntry
  <2> SUFFICES ASSUME EntryInv, NEW s \in Symbol
               PROVE  Cardinality(attempt[s].orders) <= 1
    BY DEF OneOrderPerEntry
  <2>1. \A t, u \in attempt[s].orders : t = u
    BY DEF EntryInv, AttemptInv, AttemptOK
  <2>2. CASE attempt[s].orders = {}
    <3>1. Cardinality(attempt[s].orders) = 0
      BY <2>2, FS_EmptySet
    <3> QED
      BY <3>1
  <2>3. ASSUME NEW t \in attempt[s].orders PROVE Cardinality(attempt[s].orders) <= 1
    <3>1. attempt[s].orders = {t}
      BY <2>1, <2>3
    <3>2. Cardinality(attempt[s].orders) = 1
      BY <3>1, FS_Singleton
    <3> QED
      BY <3>2
  <2> QED
    BY <2>2, <2>3
<1> QED
  BY <1>1, EntryInvariant, PTL

-----------------------------------------------------------------------------
\* The configuration is read once.
LEMMA LimitsStay ==
  ASSUME [Next]_vars
  PROVE  limits' = limits
<1>1. ASSUME NEW s \in Symbol, ThreadStep(s) PROVE limits' = limits
  BY <1>1 DEF ThreadStep, EnterTrade, GiveUpEntry, ReadOpenRisk, PositionSize, StartTrade,
     SendOrder, ReplyFilled, ReplyRejected, ReplyLost, FindNewPosition, NoPositionFound,
     RecordPosition, RecordFails, mainVars
<1>2. CASE MainStep
  BY <1>2 DEF MainStep, SaveState, ReconcileSkipped, ReconcileList, CheckClosed,
     ReconcileFails, AdoptAndReturn, Learn, EndOfPass
<1>3. CASE RestartStep
  BY <1>3 DEF RestartStep, MainLoopFails, Interrupt, Reconnect, ShutDown, Crash, StartFrom
<1>4. ASSUME NEW t \in Ticket, BrokerStep(t) PROVE limits' = limits
  BY <1>4 DEF BrokerStep, OrderVanishes, mainVars
<1>5. CASE UNCHANGED vars
  BY <1>5 DEF vars, mainVars
<1> QED
  BY <1>1, <1>2, <1>3, <1>4, <1>5 DEF Next

\* What max_positions counts: the bot's positions and pending orders on symbols that
\* are accounted for.
Counted == {t \in OwnLive : Accounted(t)}

\* Only a send adds to it.
LEMMA CountedGrows ==
  ASSUME EntryInv, [Next]_vars, NEW t \in Counted'
  PROVE  t \in Counted \/ \E s \in Symbol : SendOrder(s, t)
<1>1. t \in Own /\ state'[t] \in {"sent", "open"} /\ symbolOf'[t] \notin unaccounted'
  BY DEF Counted, OwnLive, IsLive, Accounted
<1> QED
  BY <1>1, BooksStep, UnaccountedGrows DEF EntryInv, Counted, OwnLive, IsLive, Accounted

\* One send at a time, by the thread that holds entry_lock.
LEMMA OneSend ==
  ASSUME EntryInv, NEW s \in Symbol, NEW t \in Ticket, SendOrder(s, t)
  PROVE  /\ \A q \in Symbol : pc[q] # "idle" => q = s
         /\ \A q \in Symbol, u \in Ticket : SendOrder(q, u) => u = t
<1>1. TerminalTypeOK
  BY DEF EntryInv, TypeOK
<1> QED
  BY <1>1 DEF SendOrder, Place, TerminalTypeOK, EntryInv, AttemptInv, AttemptOK

\* Comparing finite sets of tickets.
LEMMA CountedFinite ==
  ASSUME NEW A \in SUBSET Ticket, NEW B \in SUBSET Ticket, B \subseteq A
  PROVE  /\ IsFiniteSet(A) /\ IsFiniteSet(B)
         /\ Cardinality(A) \in Nat /\ Cardinality(B) \in Nat
         /\ Cardinality(B) <= Cardinality(A)
<1>1. IsFiniteSet(A)
  BY FS_Subset
<1>2. IsFiniteSet(B) /\ Cardinality(B) <= Cardinality(A)
  BY <1>1, FS_Subset
<1> QED
  BY <1>1, <1>2, FS_CardinalityType

\* When no attempt has an order, everything that counts is in the cache.
LEMMA CountedIsCached ==
  ASSUME EntryInv, \A s \in Symbol : attempt[s].orders = {}
  PROVE  Counted \subseteq Cached
<1> SUFFICES ASSUME NEW t \in Counted PROVE t \in Cached
  OBVIOUS
<1>1. t \in OwnLive /\ t \in Ticket /\ symbolOf[t] \in Symbol \ unaccounted
  BY DEF Counted, Accounted, OwnLive, IsLive, EntryInv, TerminalInv
<1> QED
  BY <1>1 DEF EntryInv, TrackedInv, Cached

\* The points of an attempt from the check of max_positions to the answer of its order.
BeforeAnswer == {"admitted", "sizing", "sized", "sending", "awaiting"}

\* A thread with an order to send keeps a place for it, and another thread cannot take
\* it.
LEMMA PlaceIsKept ==
  ASSUME EntryInv, CapInv, [Next]_vars, NEW s \in Symbol, pc'[s] \in BeforeAnswer
  PROVE  Cardinality(Counted' \ attempt'[s].orders) < limits.positions
<1>0. /\ TypeOK /\ TerminalTypeOK /\ attempt \in [Symbol -> Attempt]
      /\ pc \in [Symbol -> {"idle"} \cup EntryPoint]
      /\ limits.positions \in Nat /\ attempt[s] \in Attempt
      /\ Counted \in SUBSET Ticket /\ Counted' \in SUBSET Ticket
      /\ AttemptOK(s)
  BY DEF EntryInv, TypeOK, Counted, OwnLive, AttemptInv
<1>1. ASSUME pc[s] \in BeforeAnswer,
             Counted' \ attempt'[s].orders \subseteq Counted \ attempt[s].orders
      PROVE  Cardinality(Counted' \ attempt'[s].orders) < limits.positions
  <2>1. Cardinality(Counted \ attempt[s].orders) < limits.positions
    BY <1>1 DEF CapInv, BeforeAnswer, Counted
  <2> QED
    BY <1>0, <1>1, <2>1, CountedFinite
<1>2. ASSUME NEW u \in Ticket, SendOrder(s, u)
      PROVE  Cardinality(Counted' \ attempt'[s].orders) < limits.positions
  <2>1. attempt'[s].orders = {u} /\ attempt[s].orders = {} /\ pc[s] = "sending"
    BY <1>0, <1>2 DEF SendOrder, AttemptOK, Attempt
  <2>2. Counted' \subseteq Counted \cup {u}
    BY <1>0, <1>2, CountedGrows, OneSend
  <2> QED
    BY <1>1, <2>1, <2>2 DEF BeforeAnswer
<1>3. ASSUME \A u \in Ticket : ~SendOrder(s, u), pc[s] # "idle"
      PROVE  Counted' \subseteq Counted
  BY <1>0, <1>3, CountedGrows, OneSend
<1>4. CASE ThreadStep(s)
  <2>1. CASE EnterTrade(s)
    <3>1. /\ attempt'[s].orders = {} /\ Counted' = Counted
          /\ Cardinality(Cached) < limits.positions
      <4>1. attempt' = attempt /\ attempt[s].orders = {}
        BY <1>0, <2>1 DEF EnterTrade, AttemptOK
      <4>2. Counted' = Counted
        BY <2>1 DEF EnterTrade, Counted, OwnLive, IsLive, Accounted, terminalVars
      <4>3. Cardinality(Cached) \in Nat
        BY CountedFinite DEF Cached
      <4> QED
        BY <1>0, <2>1, <4>1, <4>2, <4>3 DEF EnterTrade, LimitReached
    <3>2. Counted \subseteq Cached
      BY <1>0, <2>1, CountedIsCached DEF EnterTrade, EntryInv, AttemptInv, AttemptOK
    <3>3. Cardinality(Counted) <= Cardinality(Cached) /\ Cardinality(Cached) \in Nat
          /\ Cardinality(Counted) \in Nat
      BY <1>0, <3>2, CountedFinite DEF Cached
    <3>4. Counted' \ attempt'[s].orders = Counted
      BY <3>1
    <3> QED
      BY <1>0, <3>1, <3>3, <3>4
  <2>2. ASSUME NEW u \in Ticket, NEW again \in BOOLEAN, ReplyRejected(s, u, again)
        PROVE  Cardinality(Counted' \ attempt'[s].orders) < limits.positions
    <3>1. /\ attempt[s].orders = {u} /\ pc[s] = "awaiting"
      BY <1>0, <2>2 DEF ReplyRejected, AttemptOK, Attempt
    <3>2. u \notin Counted'
      BY <1>0, <2>2 DEF ReplyRejected, Discard, Counted, OwnLive, IsLive, TerminalTypeOK
    <3>3. Counted' \subseteq Counted
      BY <2>2, <3>1, <1>3 DEF SendOrder
    <3> QED
      BY <1>1, <3>1, <3>2, <3>3 DEF BeforeAnswer
  <2>3. ASSUME ReleaseEntryLock(s) PROVE FALSE
    BY <1>0, <2>3 DEF ReleaseEntryLock, BeforeAnswer
  <2>4. ASSUME pc[s] \in BeforeAnswer, attempt'[s].orders = attempt[s].orders,
               \A u \in Ticket : ~SendOrder(s, u)
        PROVE  Cardinality(Counted' \ attempt'[s].orders) < limits.positions
    BY <1>1, <1>3, <2>4 DEF BeforeAnswer
  <2>5. CASE ReadOpenRisk(s)
    BY <1>0, <2>4, <2>5 DEF ReadOpenRisk, Attempt, BeforeAnswer, SendOrder
  <2>6. ASSUME NEW r \in 1..MaxRisk, PositionSize(s, r)
        PROVE  Cardinality(Counted' \ attempt'[s].orders) < limits.positions
    BY <1>0, <2>4, <2>6 DEF PositionSize, Attempt, BeforeAnswer, SendOrder
  <2>7. CASE StartTrade(s)
    <3>1. PICK before \in {OwnListed(s), None} :
            attempt' = [attempt EXCEPT ![s].before = before]
      BY <2>3, <2>7 DEF StartTrade
    <3>2. attempt'[s].orders = attempt[s].orders
      BY <1>0, <3>1 DEF Attempt
    <3> QED
      BY <2>4, <2>7, <3>2 DEF StartTrade, BeforeAnswer, SendOrder
  <2>8. ASSUME NEW u \in Ticket, ReplyFilled(s, u) \/ FindNewPosition(s, u) PROVE FALSE
    BY <1>0, <2>8 DEF ReplyFilled, FindNewPosition, BeforeAnswer
  <2>9. ASSUME ReplyLost(s) PROVE FALSE
    BY <1>0, <2>9 DEF ReplyLost, BeforeAnswer
  <2> QED
    BY <1>2, <1>4, <2>1, <2>2, <2>3, <2>5, <2>6, <2>7, <2>8, <2>9 DEF ThreadStep,
       GiveUpEntry, NoPositionFound, RecordPosition, RecordFails
<1>5. CASE pc'[s] = pc[s] /\ attempt'[s] = attempt[s]
  <2>1. pc[s] # "idle"
    BY <1>5 DEF BeforeAnswer
  <2>2. CASE \E u \in Ticket : SendOrder(s, u)
    BY <1>2, <2>2
  <2>3. CASE \A u \in Ticket : ~SendOrder(s, u)
    BY <1>1, <1>3, <1>5, <2>1, <2>3
  <2> QED
    BY <2>2, <2>3
<1>6. ASSUME NEW t \in Ticket, OrderVanishes(t), pc'[s] = pc[s]
      PROVE  Cardinality(Counted' \ attempt'[s].orders) < limits.positions
  <2>1. attempt'[s].orders = attempt[s].orders \ {t}
    BY <1>0, <1>6 DEF OrderVanishes, Attempt
  <2>2. t \notin Counted'
    BY <1>0, <1>6 DEF OrderVanishes, Discard, Counted, OwnLive, IsLive, TerminalTypeOK
  <2>3. Counted' \subseteq Counted
    <3>1. \A u \in Ticket : ~SendOrder(s, u)
      BY <1>0, <1>6 DEF SendOrder, OrderVanishes, BeforeAnswer
    <3> QED
      BY <1>3, <1>6, <3>1 DEF BeforeAnswer
  <2> QED
    BY <1>1, <1>6, <2>1, <2>2, <2>3
<1> QED
  BY <1>4, <1>5, <1>6, AttemptMoves DEF BeforeAnswer

\* No step takes the positions and pending orders beyond max_positions.
LEMMA CapStep ==
  ASSUME EntryInv, CapInv, [Next]_vars
  PROVE  CapInv'
<1>0. /\ limits.positions \in Nat /\ limits' = limits
      /\ Counted \in SUBSET Ticket /\ Counted' \in SUBSET Ticket
  BY LimitsStay DEF EntryInv, TypeOK, Counted, OwnLive
<1>1. Cardinality(Counted') <= limits.positions
  <2>1. ASSUME NEW s \in Symbol, NEW u \in Ticket, SendOrder(s, u)
        PROVE  Cardinality(Counted') <= limits.positions
    <3>1. Counted' \subseteq Counted \cup {u} /\ Counted \cup {u} \in SUBSET Ticket
      BY <1>0, <2>1, CountedGrows, OneSend DEF Counted, OwnLive
    <3>2. Cardinality(Counted) < limits.positions
      <4>1. attempt[s].orders = {} /\ pc[s] = "sending"
        BY <2>1 DEF SendOrder, EntryInv, AttemptInv, AttemptOK
      <4>2. Counted \ attempt[s].orders = Counted
        BY <4>1
      <4> QED
        BY <4>1, <4>2 DEF CapInv, Counted
    <3>3. IsFiniteSet(Counted) /\ Cardinality(Counted) \in Nat
      BY <1>0, CountedFinite
    <3>4. Cardinality(Counted \cup {u}) <= Cardinality(Counted) + 1
      <4>1. Cardinality(Counted \cup {u}) =
              IF u \in Counted THEN Cardinality(Counted) ELSE Cardinality(Counted) + 1
        BY <3>3, FS_AddElement, Zenon
      <4> HIDE DEF Counted
      <4> QED
        BY <3>3, <4>1
    <3>5. /\ Cardinality(Counted') <= Cardinality(Counted \cup {u})
          /\ Cardinality(Counted') \in Nat /\ Cardinality(Counted \cup {u}) \in Nat
      BY <1>0, <3>1, CountedFinite
    <3> QED
      BY <1>0, <3>2, <3>3, <3>4, <3>5
  <2>2. ASSUME \A s \in Symbol, u \in Ticket : ~SendOrder(s, u)
        PROVE  Cardinality(Counted') <= limits.positions
    <3>1. Counted' \subseteq Counted
      BY <1>0, <2>2, CountedGrows
    <3>2. Cardinality(Counted) <= limits.positions
      BY DEF CapInv, PositionCap, Counted
    <3> QED
      BY <1>0, <3>1, <3>2, CountedFinite
  <2> QED
    BY <2>1, <2>2
<1>2. \A s \in Symbol : pc'[s] \in BeforeAnswer =>
        Cardinality(Counted' \ attempt'[s].orders) < limits.positions
  BY PlaceIsKept
<1> QED
  BY <1>0, <1>1, <1>2 DEF CapInv, PositionCap, Counted, BeforeAnswer

\* At the start the bot has no position and no attempt.
LEMMA CapInit == Init => CapInv
<1> SUFFICES ASSUME Init PROVE CapInv
  OBVIOUS
<1>1. Counted = {}
  BY DEF Init, TerminalInit, Counted, OwnLive, IsLive
<1>2. Cardinality(Counted) = 0 /\ limits.positions \in Nat
  BY <1>1, FS_EmptySet DEF Init
<1>3. \A s \in Symbol : pc[s] = "idle"
  BY DEF Init
<1> QED
  BY <1>2, <1>3 DEF CapInv, PositionCap, Counted

\* "max_positions" holds at the broker (risk.py:335), for any number of symbols and
\* whatever the threads interleave with.
THEOREM CapHolds == Spec => []PositionCap
<1>1. EntryInv /\ CapInv /\ [Next]_vars => CapInv'
  BY CapStep
<1>2. CapInv => PositionCap
  BY DEF CapInv
<1> QED
  BY <1>1, <1>2, CapInit, EntryInvariant, PTL DEF Spec

-----------------------------------------------------------------------------
(* The money at the stops.                                                  *)

\* The units of money f at the stops of S.
Units(S, f) == {u \in S \X (1..MaxAtStop) : u[2] <= f[u[1]]}

\* They can be counted.
LEMMA UnitsFinite ==
  ASSUME NEW S \in SUBSET Ticket, NEW f
  PROVE  IsFiniteSet(Units(S, f)) /\ Total(f, S) = Cardinality(Units(S, f)) /\ Total(f, S) \in Nat
BY TotalIsNat DEF Units, Total

\* Fewer positions with no more money at their stops have no more in total.
LEMMA LessMoney ==
  ASSUME NEW T \in SUBSET Ticket, NEW S \in SUBSET T, NEW f, NEW now,
         \A t \in S : f[t] \in Nat /\ now[t] \in Nat /\ now[t] <= f[t]
  PROVE  Total(now, S) <= Total(f, T)
<1>1. Units(S, now) \subseteq Units(T, f)
  BY DEF Units
<1> QED
  BY <1>1, UnitsFinite, FS_Subset

\* One more position adds at most n.
LEMMA MoreMoney ==
  ASSUME NEW S \in SUBSET Ticket, NEW T \in SUBSET Ticket, NEW t \in Ticket,
         T \subseteq S \cup {t}, NEW n \in Nat,
         NEW f, NEW now, now[t] \in Nat, now[t] <= n,
         \A u \in T \ {t} : f[u] \in Nat /\ now[u] \in Nat /\ now[u] <= f[u]
  PROVE  Total(now, T) <= Total(f, S) + n
<1> DEFINE New == {t} \X (1..n)
<1>1. /\ IsFiniteSet({t}) /\ IsFiniteSet(1..n)
      /\ Cardinality({t}) = 1 /\ Cardinality(1..n) = n
  <2>1. IsFiniteSet({t}) /\ Cardinality({t}) = 1
    BY FS_Singleton
  <2>2. IsFiniteSet(1..n) /\ Cardinality(1..n) = n
    <3>1. 1 \in Int /\ n \in Int
      OBVIOUS
    <3>2. /\ IsFiniteSet(1..n)
          /\ Cardinality(1..n) = IF 1 > n THEN 0 ELSE n - 1 + 1
      BY <3>1, FS_Interval
    <3> QED
      BY <3>2
  <2> QED
    BY <2>1, <2>2
<1>2. IsFiniteSet(New) /\ Cardinality(New) = n
  <2>1. IsFiniteSet(New) /\ Cardinality(New) = Cardinality({t}) * Cardinality(1..n)
    BY <1>1, FS_Product
  <2> QED
    BY <1>1, <2>1
<1>3. Units(T, now) \subseteq Units(S, f) \cup New
  BY DEF Units
<1> HIDE DEF New
<1>4. IsFiniteSet(Units(S, f)) /\ Cardinality(Units(S, f)) \in Nat
  BY UnitsFinite
<1>5. /\ IsFiniteSet(Units(S, f) \cup New)
      /\ Cardinality(Units(S, f) \cup New) =
           Cardinality(Units(S, f)) + Cardinality(New) - Cardinality(Units(S, f) \cap New)
  BY <1>2, <1>4, FS_Union
<1>6. Cardinality(Units(S, f) \cap New) \in Nat
  BY <1>2, <1>4, FS_Intersection, FS_CardinalityType
<1>7. /\ Cardinality(Units(T, now)) <= Cardinality(Units(S, f) \cup New)
      /\ Cardinality(Units(T, now)) \in Nat
  BY <1>3, <1>5, FS_Subset, UnitsFinite
<1> QED
  BY <1>2, <1>4, <1>5, <1>6, <1>7, UnitsFinite

\* What the bot can know of a position's money is at most that money.
LEMMA KnownIsMoney ==
  ASSUME TypeOK, TypeOK', NEW t \in Ticket
  PROVE  /\ riskOf[t] \in 0..MaxAtStop /\ riskOf'[t] \in 0..MaxAtStop
         /\ KnownRisk[t] \in Nat /\ KnownRisk'[t] \in Nat
         /\ KnownRisk[t] <= riskOf[t] /\ KnownRisk'[t] <= riskOf'[t]
<1>1. riskOf[t] \in 0..MaxAtStop /\ riskOf'[t] \in 0..MaxAtStop
  BY DEF TypeOK, TerminalTypeOK
<1>2. KnownRisk[t] \in Nat /\ KnownRisk[t] <= riskOf[t]
  BY <1>1 DEF KnownRisk, MaxAtStop
<1>3. KnownRisk'[t] \in Nat /\ KnownRisk'[t] <= riskOf'[t]
  BY <1>1 DEF KnownRisk, MaxAtStop
<1> QED
  BY <1>1, <1>2, <1>3

\* Only a fill changes the money at the stop of a position of the bot.
LEMMA RiskStays ==
  ASSUME TypeOK, [Next]_vars, NEW t \in Ticket, state[t] # "none", state'[t] # "none"
  PROVE  riskOf'[t] = riskOf[t] \/ Execute(t)
<1> DEFINE Goal == riskOf'[t] = riskOf[t] \/ Execute(t)
<1>0. TerminalTypeOK
  BY DEF TypeOK
<1>1. ASSUME UNCHANGED terminalVars PROVE Goal
  BY <1>1 DEF terminalVars
<1>2. ASSUME NEW s \in Symbol, NEW u \in Ticket, SendOrder(s, u)
      PROVE  Goal
  BY <1>0, <1>2 DEF SendOrder, Place, TerminalTypeOK, TicketState
<1>3. ASSUME NEW u \in Ticket, Discard(u)
      PROVE  Goal
  BY <1>0, <1>3 DEF Discard, TerminalTypeOK, TicketState
<1>4. ASSUME NEW u \in Ticket, Execute(u)
      PROVE  Goal
  BY <1>0, <1>4 DEF Execute, TerminalTypeOK, TicketState
<1>5. ASSUME NEW u \in Ticket,
             \/ CloseAtBroker(u) \/ ListCatchesUp(u) \/ DealAppears(u)
             \/ \E s \in Symbol : ForeignOpens(u, s)
      PROVE  Goal
  BY <1>0, <1>5 DEF CloseAtBroker, ListCatchesUp, DealAppears, ForeignOpens,
     TerminalTypeOK, TicketState
<1> HIDE DEF Goal
<1>6. Goal
  BY <1>1, <1>2, <1>3, <1>4, <1>5, TerminalMoves
<1> QED
  BY <1>6 DEF Goal

\* A position that was recorded without its price stays known as such.
LEMMA UnpricedGrows ==
  ASSUME [Next]_vars
  PROVE  unpriced \subseteq unpriced'
<1> DEFINE Goal == unpriced \subseteq unpriced'
<1>1. ASSUME NEW s \in Symbol, ThreadStep(s) PROVE Goal
  <2>1. CASE RecordPosition(s)
    BY <2>1 DEF RecordPosition
  <2>2. CASE ~RecordPosition(s)
    BY <1>1, <2>2 DEF ThreadStep, EnterTrade, GiveUpEntry, ReadOpenRisk, PositionSize,
       StartTrade, SendOrder, ReplyFilled, ReplyRejected, ReplyLost, FindNewPosition,
       NoPositionFound, RecordFails, cacheVars
  <2> QED
    BY <2>1, <2>2
<1>2. ASSUME MainStep PROVE Goal
  BY <1>2 DEF MainStep, SaveState, ReconcileSkipped, ReconcileList, CheckClosed,
     ReconcileFails, AdoptAndReturn, Learn, EndOfPass, cacheVars
<1>3. ASSUME RestartStep PROVE Goal
  BY <1>3 DEF RestartStep, MainLoopFails, Interrupt, Reconnect, ShutDown, Crash, StartFrom,
     cacheVars
<1>4. ASSUME NEW t \in Ticket, BrokerStep(t) PROVE Goal
  BY <1>4 DEF BrokerStep, OrderVanishes, cacheVars
<1>5. ASSUME UNCHANGED vars PROVE Goal
  BY <1>5 DEF vars, cacheVars
<1> HIDE DEF Goal
<1>6. Goal
  BY <1>1, <1>2, <1>3, <1>4, <1>5 DEF Next
<1> QED
  BY <1>6 DEF Goal

\* So what the bot can know of a position that counts grows with its fill only.
LEMMA KnownStays ==
  ASSUME EntryInv, [Next]_vars, TypeOK', NEW t \in Counted, t \in Counted', ~Execute(t)
  PROVE  /\ KnownRisk[t] \in Nat /\ KnownRisk'[t] \in Nat
         /\ KnownRisk'[t] <= KnownRisk[t]
<1>1. t \in Own /\ t \in Ticket /\ state[t] # "none" /\ state'[t] # "none"
  BY DEF Counted, OwnLive, IsLive
<1>2. riskOf'[t] = riskOf[t] /\ riskOf[t] \in Nat
  BY <1>1, RiskStays, KnownIsMoney DEF EntryInv, MaxAtStop
<1>3. KnownRisk[t] = IF t \notin unpriced THEN riskOf[t]
                     ELSE IF riskOf[t] > MaxSlip THEN riskOf[t] - MaxSlip ELSE 0
  BY <1>1 DEF KnownRisk
<1>4. KnownRisk'[t] = IF t \notin unpriced' THEN riskOf'[t]
                      ELSE IF riskOf'[t] > MaxSlip THEN riskOf'[t] - MaxSlip ELSE 0
  BY <1>1 DEF KnownRisk
<1> QED
  BY <1>2, <1>3, <1>4, UnpricedGrows

\* A pending order that counts is the one its thread waits for or looks for.
LEMMA SentIsOrdered ==
  ASSUME EntryInv, NEW t \in Counted, state[t] = "sent"
  PROVE  /\ symbolOf[t] \in Symbol \ unaccounted
         /\ attempt[symbolOf[t]].orders = {t}
         /\ pc[symbolOf[t]] \in {"awaiting", "finding"}
         /\ \A s \in Symbol : pc[s] # "idle" => s = symbolOf[t]
<1>1. /\ t \in OwnLive /\ t \in Ticket /\ t \in Own
      /\ symbolOf[t] \in Symbol \ unaccounted
  BY DEF Counted, Accounted, OwnLive, IsLive, EntryInv, TerminalInv
<1>2. t \notin Opened /\ t \notin Cached
  BY DEF Opened, EntryInv, KnownInv
<1>3. t \in attempt[symbolOf[t]].orders
  BY <1>1, <1>2 DEF EntryInv, TrackedInv, Cached
<1>4. AttemptOK(symbolOf[t]) /\ pc \in [Symbol -> {"idle"} \cup EntryPoint]
  BY <1>1 DEF EntryInv, AttemptInv, TypeOK
<1>5. attempt[symbolOf[t]].orders = {t}
  BY <1>3, <1>4 DEF AttemptOK
<1>6. pc[symbolOf[t]] \in {"awaiting", "finding"}
  <2>1. pc[symbolOf[t]] \in {"awaiting", "finding", "recording"}
    BY <1>3, <1>4 DEF AttemptOK
  <2>2. pc[symbolOf[t]] # "recording"
    BY <1>1, <1>2, <1>3, <1>4 DEF AttemptOK
  <2> QED
    BY <2>1, <2>2
<1>7. \A s \in Symbol : pc[s] # "idle" => s = symbolOf[t]
  BY <1>1, <1>6 DEF EntryInv, AttemptInv, AttemptOK
<1> QED
  BY <1>1, <1>5, <1>6, <1>7

\* Without a new position and without a fill among them the total does not grow.
LEMMA TotalStays ==
  ASSUME EntryInv, [Next]_vars, TypeOK', NEW S \in SUBSET Counted', NEW T \in SUBSET Counted,
         S \subseteq T, \A t \in S : ~Execute(t)
  PROVE  /\ Total(KnownRisk', S) <= Total(KnownRisk, T)
         /\ Total(KnownRisk', S) \in Nat /\ Total(KnownRisk, T) \in Nat
<1>1. T \in SUBSET Ticket /\ S \in SUBSET Ticket
  BY DEF Counted, OwnLive
<1>2. \A t \in S : /\ KnownRisk[t] \in Nat /\ KnownRisk'[t] \in Nat
                   /\ KnownRisk'[t] <= KnownRisk[t]
  BY KnownStays
<1>3. Total(KnownRisk', S) <= Total(KnownRisk, T)
  BY <1>1, <1>2, LessMoney
<1> QED
  BY <1>1, <1>3, UnitsFinite

\* The points of an attempt that has its size and may have a pending order.
Measured == {"sized", "sending", "awaiting", "finding"}

\* The money at the stops, and what an attempt leaves to itself.
Room(s) == Total(KnownRisk, Counted \ attempt[s].orders) + attempt[s].size <= limits.risk

\* An entry, and the one in the file, hold what the bot can know of a position's money.
Covered(t) ==
  /\ cache[t] # "out" => KnownRisk[t] <= cacheRisk[t]
  /\ saved.cache[t] # "out" => KnownRisk[t] <= saved.risk[t]

Sizes(s) == \A t \in attempt[s].orders : state[t] = "sent" => riskOf[t] <= attempt[s].size

\* RiskInv in these words.
LEMMA RiskWords ==
  /\ RiskInv <=>
       /\ Total(KnownRisk, Counted) <= limits.risk + MaxSlip
       /\ \A t \in Counted : Covered(t)
       /\ \A s \in Symbol \ unaccounted :
            /\ pc[s] = "sizing" => Total(KnownRisk, Counted) <= attempt[s].openRisk
            /\ pc[s] \in Measured => Room(s)
            /\ Sizes(s)
  /\ RiskInv' <=>
       /\ Total(KnownRisk', Counted') <= limits'.risk + MaxSlip
       /\ \A t \in Counted' : Covered(t)'
       /\ \A s \in Symbol \ unaccounted' :
            /\ pc'[s] = "sizing" => Total(KnownRisk', Counted') <= attempt'[s].openRisk
            /\ pc'[s] \in Measured => Room(s)'
            /\ Sizes(s)'
BY DEF RiskInv, RiskCapWithSlip, Counted, Measured, Room, Covered, Sizes

\* How an entry comes to be or stays: kept, made by a thread or from the list, or loaded.
LEMMA EntryMoves ==
  ASSUME EntryInv, [Next]_vars, NEW t \in Ticket, cache'[t] # "out"
  PROVE  \/ cache[t] # "out" /\ cacheRisk'[t] = cacheRisk[t]
         \/ riskOf' = riskOf /\ cacheRisk'[t] = riskOf[t]
         \/ \E s \in Symbol : RecordPosition(s) /\ t = attempt[s].found
         \/ saved.cache[t] # "out" /\ cacheRisk'[t] = saved.risk[t]
<1> DEFINE Goal == \/ cache[t] # "out" /\ cacheRisk'[t] = cacheRisk[t]
                   \/ riskOf' = riskOf /\ cacheRisk'[t] = riskOf[t]
                   \/ \E s \in Symbol : RecordPosition(s) /\ t = attempt[s].found
                   \/ saved.cache[t] # "out" /\ cacheRisk'[t] = saved.risk[t]
<1>0. cache \in [Ticket -> EntryKind] /\ cacheRisk \in [Ticket -> 0..MaxAtStop]
  BY DEF EntryInv, TypeOK
<1>1. ASSUME UNCHANGED <<cache, cacheRisk>> PROVE Goal
  BY <1>1
<1>2. ASSUME NEW s \in Symbol, RecordPosition(s) PROVE Goal
  <2>1. CASE t = attempt[s].found
    BY <1>2, <2>1
  <2>2. CASE t # attempt[s].found
    BY <1>0, <1>2, <2>2 DEF RecordPosition
  <2> QED
    BY <2>1, <2>2
<1>3. ASSUME NEW s \in Symbol, ThreadStep(s) PROVE Goal
  BY <1>1, <1>2, <1>3 DEF ThreadStep, EnterTrade, GiveUpEntry, ReadOpenRisk, PositionSize,
     StartTrade, SendOrder, ReplyFilled, ReplyRejected, ReplyLost, FindNewPosition,
     NoPositionFound, RecordFails, cacheVars
<1>4. ASSUME NEW u \in Ticket, CheckClosed(u) PROVE Goal
  <2>1. CASE AwaitClosingDeal(u)
    BY <1>1, <2>1 DEF AwaitClosingDeal
  <2>2. CASE Drop(u)
    BY <1>0, <2>2 DEF Drop
  <2> QED
    BY <1>4, <2>1, <2>2 DEF CheckClosed, ReportClosed, DropForeign, GiveUpClosingDeal
<1>5. CASE ReconcileList
  BY <1>5 DEF ReconcileList, Cached
<1>6. CASE AdoptAndReturn
  <2>1. CASE t \in brokerList \cap Own /\ cache[t] = "out"
    BY <1>6, <2>1 DEF AdoptAndReturn, terminalVars
  <2>2. CASE ~ (t \in brokerList \cap Own /\ cache[t] = "out")
    BY <1>6, <2>2 DEF AdoptAndReturn
  <2> QED
    BY <2>1, <2>2
<1>7. ASSUME MainStep PROVE Goal
  BY <1>1, <1>4, <1>5, <1>6, <1>7 DEF MainStep, SaveState, ReconcileSkipped,
     ReconcileFails, Learn, EndOfPass, cacheVars
<1>8. ASSUME StartFrom(saved) PROVE Goal
  BY <1>8 DEF StartFrom
<1>9. ASSUME StartFrom(Snapshot) PROVE Goal
  BY <1>9 DEF StartFrom, Snapshot
<1>10. ASSUME RestartStep PROVE Goal
  BY <1>1, <1>8, <1>9, <1>10 DEF RestartStep, MainLoopFails, Interrupt, Reconnect,
     ShutDown, Crash, cacheVars
<1>11. ASSUME NEW u \in Ticket, BrokerStep(u) PROVE Goal
  BY <1>1, <1>11 DEF BrokerStep, OrderVanishes, cacheVars
<1>12. ASSUME UNCHANGED vars PROVE Goal
  BY <1>1, <1>12 DEF vars, cacheVars
<1> HIDE DEF Goal
<1>13. Goal
  BY <1>3, <1>7, <1>10, <1>11, <1>12 DEF Next
<1> QED
  BY <1>13 DEF Goal

\* The file stays, or holds what the cache holds.
LEMMA FileMoves ==
  ASSUME [Next]_vars
  PROVE  \/ saved' = saved
         \/ saved'.cache = cache /\ saved'.risk = cacheRisk
<1>0. Snapshot.cache = cache /\ Snapshot.risk = cacheRisk
  BY DEF Snapshot
<1>1. ASSUME NEW s \in Symbol, ThreadStep(s) PROVE saved' = saved
  BY <1>1 DEF ThreadStep, EnterTrade, GiveUpEntry, ReadOpenRisk, PositionSize, StartTrade,
     SendOrder, ReplyFilled, ReplyRejected, ReplyLost, FindNewPosition, NoPositionFound,
     RecordPosition, RecordFails, mainVars
<1>2. ASSUME MainStep PROVE saved' \in {saved, Snapshot}
  BY <1>2 DEF MainStep, SaveState, ReconcileSkipped, ReconcileList, CheckClosed,
     ReconcileFails, AdoptAndReturn, Learn, EndOfPass
<1>3. ASSUME RestartStep PROVE saved' \in {saved, Snapshot}
  BY <1>3 DEF RestartStep, MainLoopFails, Interrupt, Reconnect, ShutDown, Crash, StartFrom
<1>4. ASSUME NEW t \in Ticket, BrokerStep(t) PROVE saved' = saved
  BY <1>4 DEF BrokerStep, OrderVanishes, mainVars
<1>5. ASSUME UNCHANGED vars PROVE saved' = saved
  BY <1>5 DEF vars, mainVars
<1> QED
  BY <1>0, <1>1, <1>2, <1>3, <1>4, <1>5 DEF Next

\* Entries and file never fall behind what the bot can know, also of a position whose
\* price could not be read.
LEMMA CoveredStep ==
  ASSUME EntryInv, CreditInv, RiskInv, [Next]_vars, NEW t \in Counted'
  PROVE  Covered(t)'
<1>0. /\ TypeOK /\ TypeOK' /\ t \in Ticket /\ t \in Own
      /\ cache \in [Ticket -> EntryKind] /\ cacheRisk \in [Ticket -> 0..MaxAtStop]
      /\ \A u \in Ticket : state[u] \in {"none", "sent"} =>
           cache[u] = "out" /\ saved.cache[u] = "out"
  BY TypeStep DEF EntryInv, TypeOK, Counted, OwnLive, KnownInv, Opened, Cached
<1>1. CASE \E s \in Symbol : SendOrder(s, t)
  <2>1. state[t] = "none" /\ cache' = cache /\ saved' = saved
    BY <1>1 DEF SendOrder, Place, cacheVars, mainVars
  <2> QED
    BY <1>0, <2>1 DEF Covered
<1>2. CASE t \in Counted
  <2>1. Covered(t) /\ symbolOf[t] \in Symbol \ unaccounted
    BY <1>2, RiskWords DEF Counted, OwnLive, IsLive, Accounted, EntryInv, TerminalInv
  <2>2. ASSUME cache[t] # "out" \/ saved.cache[t] # "out"
        PROVE  /\ KnownRisk[t] \in Nat /\ KnownRisk'[t] \in Nat
               /\ KnownRisk'[t] <= KnownRisk[t]
    <3>1. ~Execute(t)
      BY <1>0, <2>2 DEF Execute
    <3> QED
      BY <1>0, <1>2, <3>1, KnownStays
  <2>3. ASSUME cache'[t] # "out" PROVE KnownRisk'[t] <= cacheRisk'[t]
    <3>1. CASE cache[t] # "out" /\ cacheRisk'[t] = cacheRisk[t]
      BY <1>0, <2>1, <2>2, <3>1 DEF Covered, MaxAtStop
    <3>2. CASE riskOf' = riskOf /\ cacheRisk'[t] = riskOf[t]
      <4>1. KnownRisk'[t] <= riskOf'[t]
        BY <1>0, KnownIsMoney
      <4> QED
        BY <3>2, <4>1
    <3>3. ASSUME NEW s \in Symbol, RecordPosition(s), t = attempt[s].found
          PROVE  KnownRisk'[t] <= cacheRisk'[t]
      <4>1. t \in attempt[s].orders
        BY <2>1, <3>3 DEF RecordPosition, CreditInv, OrdersInv
      <4>2. riskOf' = riskOf /\ riskOf[t] \in 0..MaxAtStop
        BY <1>0, <3>3, KnownIsMoney DEF RecordPosition, terminalVars
      <4>3. PICK priced \in BOOLEAN : \E r \in RiskMeasured(s, priced) :
              /\ cacheRisk' = [cacheRisk EXCEPT ![attempt[s].found] = r]
              /\ unpriced' = IF priced \/ r >= riskOf[attempt[s].found]
                             THEN unpriced ELSE unpriced \cup {attempt[s].found}
        BY <3>3 DEF RecordPosition
      <4>4. PICK r \in RiskMeasured(s, priced) :
              /\ cacheRisk' = [cacheRisk EXCEPT ![attempt[s].found] = r]
              /\ unpriced' = IF priced \/ r >= riskOf[attempt[s].found]
                             THEN unpriced ELSE unpriced \cup {attempt[s].found}
        BY <4>3
      <4>5. cacheRisk'[t] = r
        BY <1>0, <3>3, <4>4
      <4>6. CASE priced
        <5>1. r = riskOf[t]
          BY <3>3, <4>4, <4>6 DEF RiskMeasured
        <5>2. KnownRisk'[t] <= riskOf'[t]
          BY <1>0, KnownIsMoney
        <5> QED
          BY <4>2, <4>5, <5>1, <5>2
      <4>7. CASE ~priced
        <5>1. r \in 1..MaxAtStop /\ riskOf[t] <= r + MaxSlip
          BY <3>3, <4>1, <4>4, <4>7 DEF RiskMeasured
        <5>2. CASE r >= riskOf[t]
          <6>1. KnownRisk'[t] <= riskOf'[t] /\ KnownRisk'[t] \in Nat
            BY <1>0, KnownIsMoney
          <6> QED
            BY <4>2, <4>5, <5>1, <5>2, <6>1 DEF MaxAtStop
        <5>3. CASE ~ (r >= riskOf[t])
          <6>1. t \in unpriced'
            BY <3>3, <4>4, <4>7, <5>3
          <6>2. KnownRisk'[t] = IF riskOf[t] > MaxSlip THEN riskOf[t] - MaxSlip ELSE 0
            BY <1>0, <4>2, <6>1 DEF KnownRisk
          <6> QED
            BY <4>2, <4>5, <5>1, <6>2 DEF MaxAtStop
        <5> QED
          BY <5>2, <5>3
      <4> QED
        BY <4>6, <4>7
    <3>4. CASE saved.cache[t] # "out" /\ cacheRisk'[t] = saved.risk[t]
      <4>1. saved.risk[t] \in 0..MaxAtStop
        BY <1>0 DEF TypeOK, SavedState
      <4> QED
        BY <2>1, <2>2, <3>4, <4>1 DEF Covered, MaxAtStop
    <3> QED
      BY <1>0, <2>3, <3>1, <3>2, <3>3, <3>4, EntryMoves
  <2>4. ASSUME saved'.cache[t] # "out" PROVE KnownRisk'[t] <= saved'.risk[t]
    <3>1. saved.risk[t] \in 0..MaxAtStop /\ cacheRisk[t] \in 0..MaxAtStop
      BY <1>0 DEF TypeOK, SavedState
    <3>2. CASE saved' = saved
      BY <2>1, <2>2, <2>4, <3>1, <3>2 DEF Covered, MaxAtStop
    <3>3. CASE saved'.cache = cache /\ saved'.risk = cacheRisk
      BY <2>1, <2>2, <2>4, <3>1, <3>3 DEF Covered, MaxAtStop
    <3> QED
      BY <3>2, <3>3, FileMoves
  <2> QED
    BY <2>3, <2>4 DEF Covered
<1> QED
  BY <1>1, <1>2, CountedGrows

\* Between a thread's reading of the open risk and its use nothing is added to it: the
\* thread holds entry_lock, and no order is on its way.
LEMMA OpenRiskCovers ==
  ASSUME EntryInv, RiskInv, [Next]_vars, NEW s \in Symbol \ unaccounted, pc'[s] = "sizing"
  PROVE  Total(KnownRisk', Counted') <= attempt'[s].openRisk
<1>0. /\ TypeOK /\ TypeOK' /\ attempt \in [Symbol -> Attempt]
      /\ pc \in [Symbol -> {"idle"} \cup EntryPoint] /\ attempt[s] \in Attempt
      /\ attempt[s].openRisk \in Nat
  BY TypeStep DEF EntryInv, TypeOK, Attempt
<1>1. ASSUME pc[s] = "sizing", attempt'[s].openRisk = attempt[s].openRisk
      PROVE  Total(KnownRisk', Counted') <= attempt'[s].openRisk
  <2>1. Counted' \subseteq Counted
    <3>1. ASSUME NEW t \in Ticket, NEW q \in Symbol, SendOrder(q, t) PROVE FALSE
      BY <1>1, <3>1, OneSend DEF SendOrder
    <3>2. Counted' \in SUBSET Ticket
      BY DEF Counted, OwnLive
    <3> QED
      BY <3>1, <3>2, CountedGrows
  <2>2. Total(KnownRisk, Counted) <= attempt[s].openRisk
    BY <1>1, RiskWords
  <2>3. \A t \in Counted' : ~Execute(t)
    BY <1>1, <2>1, SentIsOrdered DEF Execute
  <2>4. /\ Total(KnownRisk', Counted') <= Total(KnownRisk, Counted)
        /\ Total(KnownRisk', Counted') \in Nat /\ Total(KnownRisk, Counted) \in Nat
    BY <1>0, <2>1, <2>3, TotalStays
  <2> QED
    BY <1>0, <1>1, <2>2, <2>4
<1>2. CASE ThreadStep(s)
  <2>1. ASSUME ReleaseEntryLock(s) PROVE FALSE
    BY <1>0, <2>1 DEF ReleaseEntryLock
  <2>2. CASE ReadOpenRisk(s)
    <3>1. attempt'[s].openRisk = Total(cacheRisk, Cached)
      BY <1>0, <2>2 DEF ReadOpenRisk, Attempt
    <3>2. \A q \in Symbol : attempt[q].orders = {}
      BY <1>0, <2>2 DEF ReadOpenRisk, EntryInv, AttemptInv, AttemptOK
    <3>3. Counted' = Counted /\ Counted \subseteq Cached /\ Cached \in SUBSET Ticket
      BY <2>2, <3>2, CountedIsCached DEF ReadOpenRisk, Counted, OwnLive, IsLive, Accounted,
         terminalVars, Cached
    <3>4. ASSUME NEW t \in Counted
          PROVE  cacheRisk[t] \in Nat /\ KnownRisk'[t] \in Nat /\ KnownRisk'[t] <= cacheRisk[t]
      <4>1. ~Execute(t) /\ t \in Ticket
        BY <2>2, <3>3 DEF ReadOpenRisk, terminalVars, Execute, EntryInv, KnownInv, Opened
      <4>2. /\ KnownRisk[t] \in Nat /\ KnownRisk'[t] \in Nat
            /\ KnownRisk'[t] <= KnownRisk[t]
        BY <1>0, <3>3, <4>1, KnownStays
      <4>3. KnownRisk[t] <= cacheRisk[t] /\ cacheRisk[t] \in Nat
        BY <1>0, <3>3, <3>4, <4>1, RiskWords DEF Covered, Cached, TypeOK, MaxAtStop
      <4> QED
        BY <4>2, <4>3
    <3>5. Total(KnownRisk', Counted') <= Total(cacheRisk, Cached)
      BY <3>3, <3>4, LessMoney
    <3> QED
      BY <3>1, <3>5
  <2> QED
    BY <1>0, <1>2, <2>1, <2>2 DEF ThreadStep, EnterTrade, GiveUpEntry, PositionSize,
       StartTrade, SendOrder, ReplyFilled, ReplyRejected, ReplyLost, FindNewPosition,
       NoPositionFound, RecordPosition, RecordFails
<1>3. ASSUME NEW t \in Ticket, OrderVanishes(t), pc'[s] = pc[s]
      PROVE  Total(KnownRisk', Counted') <= attempt'[s].openRisk
  <2>1. attempt'[s].openRisk = attempt[s].openRisk
    BY <1>0, <1>3 DEF OrderVanishes, Attempt
  <2> QED
    BY <1>1, <1>3, <2>1
<1> QED
  BY <1>1, <1>2, <1>3, AttemptMoves

\* From position_size until its order is executed or given up a thread keeps room for its
\* size on top of everything else.
LEMMA RoomIsKept ==
  ASSUME EntryInv, RiskInv, [Next]_vars, NEW s \in Symbol \ unaccounted, pc'[s] \in Measured
  PROVE  Room(s)'
<1>0. /\ TypeOK /\ TypeOK' /\ TerminalTypeOK /\ attempt \in [Symbol -> Attempt]
      /\ pc \in [Symbol -> {"idle"} \cup EntryPoint]
      /\ limits.risk \in Nat /\ limits' = limits
      /\ attempt[s] \in Attempt /\ attempt[s].size \in Nat
      /\ Counted \in SUBSET Ticket /\ Counted' \in SUBSET Ticket
      /\ AttemptOK(s)
  BY LimitsStay, TypeStep DEF EntryInv, TypeOK, Counted, OwnLive, AttemptInv, Attempt
<1>1. ASSUME pc[s] \in Measured, attempt'[s].size = attempt[s].size,
             Counted' \ attempt'[s].orders \subseteq Counted \ attempt[s].orders
      PROVE  Room(s)'
  <2>1. Room(s)
    BY <1>1, RiskWords
  <2>2. /\ Counted' \ attempt'[s].orders \in SUBSET Counted'
        /\ Counted \ attempt[s].orders \in SUBSET Counted
    OBVIOUS
  <2>3. \A t \in Counted' \ attempt'[s].orders : ~Execute(t)
    BY <1>1, SentIsOrdered DEF Execute, Measured
  <2>4. /\ Total(KnownRisk', Counted' \ attempt'[s].orders)
             <= Total(KnownRisk, Counted \ attempt[s].orders)
        /\ Total(KnownRisk', Counted' \ attempt'[s].orders) \in Nat
        /\ Total(KnownRisk, Counted \ attempt[s].orders) \in Nat
    BY <1>0, <1>1, <2>2, <2>3, TotalStays
  <2> QED
    BY <1>0, <1>1, <2>1, <2>4 DEF Room
<1>2. ASSUME NEW u \in Ticket, SendOrder(s, u)
      PROVE  Room(s)'
  <2>1. /\ attempt'[s].orders = {u} /\ attempt[s].orders = {} /\ pc[s] = "sending"
        /\ attempt'[s].size = attempt[s].size
    BY <1>0, <1>2 DEF SendOrder, AttemptOK, Attempt
  <2>2. Counted' \subseteq Counted \cup {u}
    BY <1>0, <1>2, CountedGrows, OneSend
  <2> QED
    BY <1>1, <2>1, <2>2 DEF Measured
<1>3. ASSUME \A u \in Ticket : ~SendOrder(s, u), pc[s] # "idle"
      PROVE  Counted' \subseteq Counted
  BY <1>0, <1>3, CountedGrows, OneSend
<1>4. CASE ThreadStep(s)
  <2>1. ASSUME NEW r \in 1..MaxRisk, PositionSize(s, r)
        PROVE  Room(s)'
    <3>1. /\ attempt'[s].size = r /\ pc[s] = "sizing" /\ Counted' = Counted
          /\ attempt[s].openRisk + r <= limits.risk /\ attempt[s].openRisk \in Nat
      BY <1>0, <2>1 DEF PositionSize, Attempt, Counted, OwnLive, IsLive, Accounted,
         terminalVars
    <3>0. \A t \in Counted' : ~Execute(t)
      BY <1>0, <2>1 DEF PositionSize, terminalVars, Execute, TerminalTypeOK
    <3>2. Total(KnownRisk, Counted) <= attempt[s].openRisk
      BY <3>1, RiskWords
    <3>3. Counted' \ attempt'[s].orders \in SUBSET Counted' /\ Counted \in SUBSET Counted
      OBVIOUS
    <3>4. /\ Total(KnownRisk', Counted' \ attempt'[s].orders) <= Total(KnownRisk, Counted)
          /\ Total(KnownRisk', Counted' \ attempt'[s].orders) \in Nat
          /\ Total(KnownRisk, Counted) \in Nat
      BY <1>0, <3>0, <3>1, <3>3, TotalStays
    <3> QED
      BY <1>0, <3>1, <3>2, <3>4 DEF Room
  <2>2. ASSUME NEW u \in Ticket, NEW again \in BOOLEAN, ReplyRejected(s, u, again)
        PROVE  Room(s)'
    <3>1. /\ attempt[s].orders = {u} /\ pc[s] = "awaiting"
          /\ attempt'[s].size = attempt[s].size
      BY <1>0, <2>2 DEF ReplyRejected, AttemptOK, Attempt
    <3>2. u \notin Counted'
      BY <1>0, <2>2 DEF ReplyRejected, Discard, Counted, OwnLive, IsLive, TerminalTypeOK
    <3>3. Counted' \subseteq Counted
      BY <2>2, <3>1, <1>3 DEF SendOrder
    <3> QED
      BY <1>1, <3>1, <3>2, <3>3 DEF Measured
  <2>3. ASSUME ReleaseEntryLock(s) PROVE FALSE
    BY <1>0, <2>3 DEF ReleaseEntryLock, Measured
  <2>4. CASE StartTrade(s)
    <3>1. PICK before \in {OwnListed(s), None} :
            attempt' = [attempt EXCEPT ![s].before = before]
      BY <2>3, <2>4 DEF StartTrade
    <3>2. attempt'[s].orders = attempt[s].orders /\ attempt'[s].size = attempt[s].size
      BY <1>0, <3>1 DEF Attempt
    <3>3. pc[s] = "sized" /\ Counted' \subseteq Counted
      BY <1>3, <2>4 DEF StartTrade, SendOrder
    <3> QED
      BY <1>1, <3>2, <3>3 DEF Measured
  <2>5. ASSUME ReplyLost(s) \/ (\E u \in Ticket : ReplyFilled(s, u)), pc'[s] = "finding"
        PROVE  Room(s)'
    <3>1. pc[s] \in {"sending", "awaiting"} /\ attempt'[s] = attempt[s]
      BY <1>0, <2>5 DEF ReplyLost, ReplyFilled
    <3>2. Counted' = Counted
      BY <2>5 DEF ReplyLost, ReplyFilled, Counted, OwnLive, IsLive, Accounted, terminalVars
    <3> QED
      BY <1>1, <3>1, <3>2 DEF Measured
  <2>6. ASSUME \/ EnterTrade(s) \/ ReadOpenRisk(s)
               \/ \E u \in Ticket : FindNewPosition(s, u)
        PROVE  FALSE
    BY <1>0, <2>6 DEF EnterTrade, ReadOpenRisk, FindNewPosition, Measured
  <2>7. ReplyLost(s) \/ (\E u \in Ticket : ReplyFilled(s, u)) => pc'[s] = "finding"
    BY <1>0 DEF ReplyLost, ReplyFilled, Measured
  <2> QED
    BY <1>2, <1>4, <2>1, <2>2, <2>3, <2>4, <2>5, <2>6, <2>7 DEF ThreadStep, GiveUpEntry,
       NoPositionFound, RecordPosition, RecordFails
<1>5. CASE pc'[s] = pc[s] /\ attempt'[s] = attempt[s]
  <2>1. pc[s] # "idle" /\ pc[s] \in Measured
    BY <1>5 DEF Measured
  <2>2. CASE \E u \in Ticket : SendOrder(s, u)
    BY <1>2, <2>2
  <2>3. CASE \A u \in Ticket : ~SendOrder(s, u)
    BY <1>1, <1>3, <1>5, <2>1, <2>3
  <2> QED
    BY <2>2, <2>3
<1>6. ASSUME NEW t \in Ticket, OrderVanishes(t), pc'[s] = pc[s]
      PROVE  Room(s)'
  <2>1. attempt'[s].orders = attempt[s].orders \ {t} /\ attempt'[s].size = attempt[s].size
    BY <1>0, <1>6 DEF OrderVanishes, Attempt
  <2>2. t \notin Counted'
    BY <1>0, <1>6 DEF OrderVanishes, Discard, Counted, OwnLive, IsLive, TerminalTypeOK
  <2>3. Counted' \subseteq Counted
    <3>1. \A u \in Ticket : ~SendOrder(s, u)
      BY <1>0, <1>6 DEF SendOrder, OrderVanishes, Measured
    <3> QED
      BY <1>3, <1>6, <3>1 DEF Measured
  <2> QED
    BY <1>1, <1>6, <2>1, <2>2, <2>3
<1> QED
  BY <1>4, <1>5, <1>6, AttemptMoves DEF Measured

\* While an attempt has an order, its size stays.
LEMMA SizeStays ==
  ASSUME EntryInv, [Next]_vars, NEW s \in Symbol, NEW t \in attempt'[s].orders
  PROVE  attempt'[s].size = attempt[s].size
<1>0. /\ attempt \in [Symbol -> Attempt] /\ attempt[s] \in Attempt /\ AttemptOK(s)
      /\ pc \in [Symbol -> {"idle"} \cup EntryPoint]
  BY DEF EntryInv, TypeOK, AttemptInv
<1>1. CASE ThreadStep(s)
  <2>1. ASSUME ReleaseEntryLock(s) PROVE FALSE
    BY <1>0, <2>1 DEF ReleaseEntryLock, NoAttempt
  <2>2. ASSUME NEW r \in 1..MaxRisk, PositionSize(s, r) PROVE FALSE
    BY <1>0, <2>2 DEF PositionSize, Attempt, AttemptOK
  <2>3. CASE StartTrade(s)
    <3>1. PICK before \in {OwnListed(s), None} :
            attempt' = [attempt EXCEPT ![s].before = before]
      BY <2>1, <2>3 DEF StartTrade
    <3> QED
      BY <1>0, <3>1 DEF Attempt
  <2>4. ASSUME NEW u \in Ticket, SendOrder(s, u) PROVE attempt'[s].size = attempt[s].size
    BY <1>0, <2>4 DEF SendOrder, Attempt
  <2>5. ASSUME NEW u \in Ticket, NEW again \in BOOLEAN, ReplyRejected(s, u, again)
        PROVE  attempt'[s].size = attempt[s].size
    BY <1>0, <2>5 DEF ReplyRejected, Attempt
  <2>6. ASSUME NEW u \in Ticket, ReplyFilled(s, u) \/ FindNewPosition(s, u)
        PROVE  attempt'[s].size = attempt[s].size
    BY <1>0, <2>6 DEF ReplyFilled, FindNewPosition, Attempt
  <2>7. ASSUME EnterTrade(s) \/ ReadOpenRisk(s) \/ ReplyLost(s)
        PROVE  attempt'[s].size = attempt[s].size
    BY <1>0, <2>7 DEF EnterTrade, ReadOpenRisk, ReplyLost, Attempt
  <2> QED
    BY <1>1, <2>1, <2>2, <2>3, <2>4, <2>5, <2>6, <2>7 DEF ThreadStep, GiveUpEntry,
       NoPositionFound, RecordPosition, RecordFails
<1>2. ASSUME NEW u \in Ticket, OrderVanishes(u) PROVE attempt'[s].size = attempt[s].size
  BY <1>0, <1>2 DEF OrderVanishes, Attempt
<1> QED
  BY <1>1, <1>2, AttemptMoves

\* An order under way risks no more than it was sized to.
LEMMA SizesStay ==
  ASSUME EntryInv, CreditInv, RiskInv, [Next]_vars, NEW s \in Symbol \ unaccounted
  PROVE  Sizes(s)'
<1> SUFFICES ASSUME NEW t \in attempt'[s].orders, state'[t] = "sent"
             PROVE  riskOf'[t] <= attempt'[s].size
  BY DEF Sizes
<1>0. /\ TerminalTypeOK /\ attempt[s] \in Attempt /\ attempt'[s].size = attempt[s].size
      /\ Opened \subseteq Opened'
  BY SizeStays, BooksStep DEF EntryInv, TypeOK
<1>1. CASE SendOrder(s, t)
  <2>1. t \in Ticket /\ riskOf'[t] = attempt[s].size
    BY <1>0, <1>1 DEF SendOrder, Place, TerminalTypeOK
  <2> QED
    BY <1>0, <2>1 DEF Attempt
<1>2. CASE t \in attempt[s].orders
  <2>1. t \in Ticket /\ state[t] # "none" /\ Sizes(s)
    BY <1>0, <1>2, RiskWords DEF CreditInv, OrdersInv, Attempt
  <2>2. state[t] = "sent"
    BY <1>0, <2>1 DEF TerminalTypeOK, TicketState, Opened
  <2>3. ~Execute(t)
    BY <1>0, <2>1 DEF Execute, TerminalTypeOK
  <2>4. riskOf'[t] = riskOf[t]
    BY <2>1, <2>3, RiskStays DEF EntryInv
  <2> QED
    BY <1>0, <1>2, <2>1, <2>2, <2>4 DEF Sizes
<1> QED
  BY <1>1, <1>2, OrdersGrow

\* A send fits into the room its thread kept; a fill exceeds it by its slippage at most.
LEMMA CapWithSlipStep ==
  ASSUME EntryInv, RiskInv, [Next]_vars
  PROVE  Total(KnownRisk', Counted') <= limits'.risk + MaxSlip
<1> DEFINE Goal == Total(KnownRisk', Counted') <= limits'.risk + MaxSlip
<1>0. /\ limits.risk \in Nat /\ limits' = limits /\ MaxSlip \in Nat
      /\ Counted \in SUBSET Ticket /\ Counted' \in SUBSET Ticket
      /\ TypeOK /\ TypeOK' /\ TerminalTypeOK
  BY LimitsStay, TypeStep DEF EntryInv, TypeOK, Counted, OwnLive
<1>1. /\ Total(KnownRisk, Counted) \in Nat /\ Total(KnownRisk', Counted') \in Nat
      /\ \A t \in Ticket : /\ KnownRisk[t] \in Nat /\ KnownRisk'[t] \in Nat
                           /\ riskOf'[t] \in Nat /\ KnownRisk'[t] <= riskOf'[t]
  BY <1>0, UnitsFinite, KnownIsMoney DEF MaxAtStop
<1>2. ASSUME Counted' \subseteq Counted, \A t \in Counted' : ~Execute(t)
      PROVE  Goal
  <2>1. Total(KnownRisk', Counted') <= Total(KnownRisk, Counted)
    BY <1>0, <1>2, TotalStays
  <2>2. Total(KnownRisk, Counted) <= limits.risk + MaxSlip
    BY RiskWords
  <2> QED
    BY <1>0, <1>1, <2>1, <2>2
<1>3. ASSUME NEW s \in Symbol, NEW u \in Ticket, SendOrder(s, u), u \in Counted'
      PROVE  Goal
  <2>1. Counted' \subseteq Counted \cup {u}
    BY <1>0, <1>3, CountedGrows, OneSend
  <2>2. /\ attempt[s].orders = {} /\ pc[s] = "sending" /\ attempt[s].size \in Nat
        /\ riskOf'[u] = attempt[s].size /\ symbolOf'[u] = s /\ state[u] = "none"
    BY <1>0, <1>3 DEF SendOrder, Place, EntryInv, AttemptInv, AttemptOK, TypeOK, Attempt,
       TerminalTypeOK
  <2>3. s \notin unaccounted
    BY <1>3, <2>2, UnaccountedGrows DEF Counted, Accounted
  <2>4. Total(KnownRisk, Counted) + attempt[s].size <= limits.risk
    <3>1. Room(s)
      BY <2>2, <2>3, RiskWords DEF Measured
    <3>2. Counted \ attempt[s].orders = Counted
      BY <2>2
    <3> QED
      BY <3>1, <3>2 DEF Room
  <2>5. ASSUME NEW t \in Counted' \ {u}
        PROVE  /\ KnownRisk[t] \in Nat /\ KnownRisk'[t] \in Nat
               /\ KnownRisk'[t] <= KnownRisk[t]
    <3>1. ~Execute(t) /\ t \in Counted
      BY <1>0, <1>3, <2>1, <2>2 DEF SendOrder, Place, Execute, TerminalTypeOK
    <3> QED
      BY <1>0, <3>1, KnownStays
  <2>6. KnownRisk'[u] \in Nat /\ KnownRisk'[u] <= attempt[s].size
    BY <1>1, <2>2
  <2>7. Total(KnownRisk', Counted') <= Total(KnownRisk, Counted) + attempt[s].size
    BY <1>0, <2>1, <2>2, <2>5, <2>6, MoreMoney
  <2> QED
    BY <1>0, <1>1, <2>2, <2>4, <2>7
<1>4. ASSUME NEW t \in Counted', Execute(t), Counted' \subseteq Counted
      PROVE  Goal
  <2> DEFINE s == symbolOf[t]
             n == attempt[s].size + MaxSlip
  <2>1. /\ t \in Counted /\ t \in Ticket /\ state[t] = "sent"
    BY <1>0, <1>4 DEF Execute
  <2>2. /\ s \in Symbol \ unaccounted /\ attempt[s].orders = {t}
        /\ pc[s] \in {"awaiting", "finding"}
    BY <2>1, SentIsOrdered
  <2>3. Total(KnownRisk, Counted \ {t}) + attempt[s].size <= limits.risk
    <3>1. Room(s)
      BY <2>2, RiskWords DEF Measured
    <3> QED
      BY <2>2, <3>1 DEF Room
  <2>4. attempt[s].size \in Nat /\ riskOf[t] \in Nat /\ riskOf[t] <= attempt[s].size
    <3>1. riskOf[t] <= attempt[s].size
      BY <2>1, <2>2, RiskWords DEF Sizes
    <3>2. riskOf[t] \in Nat
      BY <1>0, <2>1, KnownIsMoney DEF MaxAtStop
    <3> QED
      BY <2>2, <3>1, <3>2 DEF EntryInv, TypeOK, Attempt
  <2>5. KnownRisk'[t] \in Nat /\ KnownRisk'[t] <= n
    <3>1. riskOf'[t] \in 1..(riskOf[t] + MaxSlip)
      BY <1>0, <1>4, <2>1 DEF Execute, TerminalTypeOK
    <3> QED
      BY <1>0, <1>1, <2>1, <2>4, <3>1
  <2>6. ASSUME NEW u \in Counted' \ {t}
        PROVE  /\ KnownRisk[u] \in Nat /\ KnownRisk'[u] \in Nat
               /\ KnownRisk'[u] <= KnownRisk[u]
    <3>1. ~Execute(u) /\ u \in Counted
      BY <1>0, <1>4, <2>1 DEF Execute, TerminalTypeOK
    <3> QED
      BY <1>0, <3>1, KnownStays
  <2>7. Total(KnownRisk, Counted \ {t}) \in Nat /\ n \in Nat
    BY <1>0, <2>4, UnitsFinite
  <2>8. Total(KnownRisk', Counted') <= Total(KnownRisk, Counted \ {t}) + n
    <3> DEFINE Others == Counted \ {t}
    <3>1. Others \in SUBSET Ticket /\ Counted' \subseteq Others \cup {t}
      BY <1>0, <1>4
    <3> HIDE DEF n, s, Others
    <3>2. Total(KnownRisk', Counted') <= Total(KnownRisk, Others) + n
      BY <1>0, <2>1, <2>5, <2>6, <2>7, <3>1, MoreMoney
    <3> QED
      BY <3>2 DEF Others
  <2> QED
    BY <1>0, <1>1, <2>3, <2>4, <2>7, <2>8
<1>5. Counted' \subseteq Counted \/ \E s \in Symbol, u \in Counted' : SendOrder(s, u)
  BY CountedGrows
<1> HIDE DEF Goal
<1>6. Goal
  BY <1>0, <1>2, <1>3, <1>4, <1>5
<1> QED
  BY <1>6 DEF Goal

\* Every step preserves it.
LEMMA RiskStep ==
  ASSUME EntryInv, CreditInv, RiskInv, [Next]_vars
  PROVE  RiskInv'
<1>1. Total(KnownRisk', Counted') <= limits'.risk + MaxSlip
  BY CapWithSlipStep
<1>2. \A t \in Counted' : Covered(t)'
  BY CoveredStep
<1>3. ASSUME NEW s \in Symbol \ unaccounted'
      PROVE  /\ pc'[s] = "sizing" => Total(KnownRisk', Counted') <= attempt'[s].openRisk
             /\ pc'[s] \in Measured => Room(s)'
             /\ Sizes(s)'
  <2>1. s \in Symbol \ unaccounted
    BY UnaccountedGrows
  <2> QED
    BY <2>1, OpenRiskCovers, RoomIsKept, SizesStay
<1> QED
  BY <1>1, <1>2, <1>3, RiskWords

\* At the start nothing of the bot is at a stop.
LEMMA RiskInit == Init => RiskInv
<1> SUFFICES ASSUME Init PROVE RiskInv
  OBVIOUS
<1>1. Counted = {}
  BY DEF Init, TerminalInit, Counted, OwnLive, IsLive
<1>2. Units(Counted, KnownRisk) = {}
  BY <1>1 DEF Units
<1>3. Cardinality(Units(Counted, KnownRisk)) = 0 /\ limits.risk \in Nat
  BY <1>2, FS_EmptySet DEF Init
<1>4. Total(KnownRisk, Counted) <= limits.risk + MaxSlip
  BY <1>1, <1>3, UnitsFinite
<1>5. \A s \in Symbol : pc[s] = "idle" /\ attempt[s].orders = {}
  BY DEF Init, NoAttempt
<1> QED
  BY <1>1, <1>4, <1>5, RiskWords DEF Measured, Sizes

\* For any number of symbols, positions and sizes and whatever a fill may slip, the
\* money at the stops exceeds max_portfolio_risk by one fill's slippage at most: the next
\* order is sized, under entry_lock, on what the entries hold, and they are measured at
\* the price of the fill when it can be read (risk.py:148-152, execution.py:606-613).
THEOREM RiskCapHolds == Spec => []RiskCapWithSlip
<1>1. EntryInv /\ CreditInv /\ RiskInv /\ [Next]_vars => RiskInv'
  BY RiskStep
<1>2. RiskInv => RiskCapWithSlip
  BY DEF RiskInv
<1> QED
  BY <1>1, <1>2, RiskInit, EntryInvariant, CreditInvariant, PTL DEF Spec

-----------------------------------------------------------------------------
(* Live trading keeps the ledger.  Its steps are those of TradeLedger, on the *)
(* stage of every trade, or leave it alone.                                   *)

\* The stage of a trade depends on what the broker made of it, on its entry and on the
\* attempts.
LEMMA StageKept ==
  ASSUME NEW t \in Own, state'[t] = state[t], cache'[t] = cache[t], InHand(t)' <=> InHand(t)
  PROVE  StageOf(t)' = StageOf(t)
BY DEF StageOf

\* Before and after the step, a trade has a stage of the ledger.
LEMMA StageTyped ==
  ASSUME EntryInv, [Next]_vars, NEW t \in Own
  PROVE  StageOf(t) \in Ledger!Stage /\ StageOf(t)' \in Ledger!Stage
<1>0. TypeOK /\ TypeOK'
  BY TypeStep DEF EntryInv
<1>1. state[t] \in TicketState /\ state'[t] \in TicketState
  BY <1>0 DEF TypeOK, TerminalTypeOK
<1>2. StageOf(t) \in Ledger!Stage
  BY <1>1 DEF StageOf, TicketState, Ledger!Stage
<1>3. StageOf(t)' \in Ledger!Stage
  BY <1>1 DEF StageOf, TicketState, Ledger!Stage
<1> QED
  BY <1>2, <1>3

\* The books of the bot without the attempts.
booksVars == <<state, symbolOf, cache, results, learned, saved, mpc, booted, unaccounted>>

\* A step that changes nothing the ledger speaks of.
LEMMA LedgerStays ==
  ASSUME \A t \in Own : StageOf(t)' = StageOf(t) /\ symbolOf'[t] = symbolOf[t],
         TradesReported' = TradesReported, TradesCredited' = TradesCredited,
         UNCHANGED <<saved, unaccounted>>, HandedOver' = HandedOver
  PROVE  UNCHANGED Ledger!ledgerVars
<1>1. TradeStage' = TradeStage /\ TradeOwner' = TradeOwner /\ TradeFile' = TradeFile
  BY DEF TradeStage, TradeOwner, TradeFile
<1> QED
  BY <1>1 DEF Ledger!ledgerVars

\* Neither the books nor the orders of the attempts change.
LEMMA BooksStay ==
  ASSUME UNCHANGED booksVars, \A s \in Symbol : attempt'[s].orders = attempt[s].orders
  PROVE  UNCHANGED Ledger!ledgerVars
<1>1. \A t \in Own : InHand(t)' <=> InHand(t)
  BY DEF InHand, booksVars
<1>2. \A t \in Own : StageOf(t)' = StageOf(t)
  BY <1>1, StageKept DEF booksVars
<1>3. HandedOver' = HandedOver
  BY DEF booksVars, HandedOver
<1>4. TradesReported' = TradesReported /\ TradesCredited' = TradesCredited
  BY DEF booksVars, TradesReported, TradesCredited
<1> QED
  BY <1>2, <1>3, <1>4, LedgerStays DEF booksVars

\* An alert, an adoption, a hand-over, or reports that are lost before it.
LEMMA LedgerAmends ==
  ASSUME EntryInv, [Next]_vars, UNCHANGED <<symbolOf, learned, saved>>,
         NEW S \in SUBSET Symbol, unaccounted' = unaccounted \cup S,
         \/ HandedOver' = HandedOver /\ TradesReported' = TradesReported
         \/ ~HandedOver /\ TradesReported' \in {TradesReported, {}}
         \/ TradesReported = {} /\ TradesReported' = {} /\ ~HandedOver',
         \A t \in Own :
           \/ StageOf(t)' = StageOf(t)
           \/ /\ StageOf(t) \in {"closed", "adopted", "settled"}
              /\ StageOf(t)' \in {"closed", "adopted", "settled"}
              /\ \/ symbolOf[t] \in unaccounted'
                 \/ StageOf(t) # "closed" /\ StageOf(t)' # "closed"
  PROVE  Ledger!Next
<1>1. TradeOwner' = TradeOwner /\ TradesCredited' = TradesCredited /\ TradeFile' = TradeFile
  BY DEF TradeOwner, TradesCredited, TradeFile
<1>2. \A t \in Own : /\ TradeStage[t] = StageOf(t) /\ TradeStage'[t] = StageOf(t)'
                     /\ TradeOwner[t] = symbolOf[t]
  BY DEF TradeStage, TradeOwner
<1>3. TradeStage' \in [Own -> Ledger!Stage]
  BY StageTyped DEF TradeStage
<1>4. \A t \in Own : TradeStage'[t] = TradeStage[t] \/ Ledger!Loose(t)
  BY <1>2 DEF Ledger!Loose
<1>5. HandedOver \in BOOLEAN /\ HandedOver' \in BOOLEAN
  BY DEF HandedOver
<1>6. \/ UNCHANGED <<TradesReported, HandedOver>>
      \/ ~HandedOver /\ HandedOver' \in BOOLEAN /\ TradesReported' \in {TradesReported, {}}
      \/ TradesReported = {} /\ TradesReported' = {} /\ HandedOver' = FALSE
  BY <1>5
<1>7. Ledger!Amend(S)
  BY <1>1, <1>3, <1>4, <1>6 DEF Ledger!Amend
<1> QED
  BY <1>7 DEF Ledger!Next

\* The end of a startup or of a pass, or an alert, that leaves the trades alone.
LEMMA LedgerSame ==
  ASSUME UNCHANGED <<state, cache>>, \A s \in Symbol : attempt'[s].orders = attempt[s].orders
  PROVE  \A t \in Own : StageOf(t)' = StageOf(t)
<1>1. \A t \in Own : InHand(t)' <=> InHand(t)
  BY DEF InHand
<1> QED
  BY <1>1, StageKept

\* The steps of a symbol thread that send, lose or record an order; the others change
\* nothing the ledger speaks of.
LEMMA LedgerSend ==
  ASSUME EntryInv, CreditInv, LedgerInv, [Next]_vars,
         NEW s \in Symbol, NEW t \in Ticket, SendOrder(s, t)
  PROVE  Ledger!Next
<1>0. /\ TypeOK /\ state \in [Ticket -> TicketState] /\ symbolOf \in [Ticket -> Symbol \cup {None}]
      /\ attempt \in [Symbol -> Attempt] /\ attempt[s] \in Attempt /\ t \in Own
      /\ pc[s] = "sending" /\ attempt[s].orders = {} /\ Sized(s)
  BY DEF EntryInv, TypeOK, TerminalTypeOK, SendOrder, AttemptInv, AttemptOK, Sized
<1>1. /\ state[t] = "none" /\ state' = [state EXCEPT ![t] = "sent"]
      /\ symbolOf' = [symbolOf EXCEPT ![t] = s]
      /\ UNCHANGED <<cache, results, learned, saved, mpc, booted, unaccounted>>
  BY DEF SendOrder, Place, cacheVars, mainVars, reconcileVars
<1>2. \A q \in Symbol : attempt'[q].orders \ {t} = attempt[q].orders \ {t}
  BY <1>0 DEF SendOrder, Attempt
<1>3. TradeStage' = [TradeStage EXCEPT ![t] = "ordered"]
  <2>1. \A u \in Own \ {t} : StageOf(u)' = StageOf(u)
    <3>1. \A u \in Own \ {t} : InHand(u)' <=> InHand(u)
      BY <1>1, <1>2 DEF InHand
    <3> QED
      BY <1>0, <1>1, <3>1, StageKept
  <2>2. StageOf(t)' = "ordered"
    BY <1>0, <1>1 DEF StageOf
  <2> QED
    BY <1>0, <2>1, <2>2 DEF TradeStage
<1>4. TradeOwner' = [TradeOwner EXCEPT ![t] = s]
  BY <1>0, <1>1 DEF TradeOwner
<1>5. TradeStage[t] = "free"
  BY <1>0, <1>1 DEF TradeStage, StageOf
<1>6. s \in unaccounted \/ Ledger!Underway(s) = {}
  <2> SUFFICES ASSUME s \notin unaccounted, NEW u \in Own, symbolOf[u] = s,
                      StageOf(u) \in {"ordered", "open", "closed"}
               PROVE  FALSE
    BY DEF Ledger!Underway, TradeOwner, TradeStage
  <2>1. ~IsLive(u)
    BY <1>0 DEF EntryInv, TrackedInv, OwnLive
  <2>2. InHand(u)
    BY <1>0, <2>1 DEF StageOf, IsLive, TicketState
  <2>3. cache[u] # "recorded"
    BY <1>0 DEF LedgerInv
  <2>4. PICK q \in Symbol : u \in attempt[q].orders
    BY <2>2, <2>3 DEF InHand
  <2> QED
    BY <1>0, <2>4 DEF CreditInv, OrdersInv
<1>7. TradesReported' = TradesReported /\ TradesCredited' = TradesCredited
      /\ TradeFile' = TradeFile /\ HandedOver' = HandedOver
  BY <1>1 DEF TradesReported, TradesCredited, TradeFile, HandedOver
<1>8. Ledger!Order(t, s)
  BY <1>1, <1>3, <1>4, <1>5, <1>6, <1>7 DEF Ledger!Order, Ledger!Becomes
<1> QED
  BY <1>0, <1>8 DEF Ledger!Next

\* An order ends without an execution: the attempt forgets it.
LEMMA LedgerDiscard ==
  ASSUME EntryInv, [Next]_vars, NEW t \in Ticket, Discard(t), t \in Own,
         UNCHANGED <<cache, results, learned, saved, mpc, booted, unaccounted>>,
         \A q \in Symbol : attempt'[q].orders \ {t} = attempt[q].orders \ {t}
  PROVE  Ledger!Next
<1>0. /\ state \in [Ticket -> TicketState] /\ symbolOf \in [Ticket -> Symbol \cup {None}]
  BY DEF EntryInv, TypeOK, TerminalTypeOK
<1>1. TradeStage' = [TradeStage EXCEPT ![t] = "free"]
  <2>1. \A u \in Own \ {t} : StageOf(u)' = StageOf(u)
    <3>1. \A u \in Own \ {t} : InHand(u)' <=> InHand(u)
      BY DEF InHand
    <3> QED
      BY <1>0, <3>1, StageKept DEF Discard
  <2>2. StageOf(t)' = "free"
    BY <1>0 DEF StageOf, Discard
  <2> QED
    BY <1>0, <2>1, <2>2 DEF TradeStage
<1>2. TradeOwner' = [TradeOwner EXCEPT ![t] = None]
  BY <1>0 DEF TradeOwner, Discard
<1>3. TradeStage[t] = "ordered"
  BY DEF TradeStage, StageOf, Discard
<1>4. TradesReported' = TradesReported /\ TradesCredited' = TradesCredited
      /\ TradeFile' = TradeFile /\ HandedOver' = HandedOver
  BY DEF TradesReported, TradesCredited, TradeFile, HandedOver
<1>5. Ledger!Cancel(t)
  BY <1>1, <1>2, <1>3, <1>4 DEF Ledger!Cancel, Ledger!Becomes
<1> QED
  BY <1>5 DEF Ledger!Next

\* The thread forgets its attempt: only its own orders leave its hand.
LEMMA Released ==
  ASSUME EntryInv, NEW s \in Symbol, ReleaseEntryLock(s)
  PROVE  /\ attempt'[s].orders = {}
         /\ \A q \in Symbol \ {s} : attempt'[q] = attempt[q]
BY DEF EntryInv, TypeOK, ReleaseEntryLock, NoAttempt

\* The attempt ends without an entry in the cache, and an alert names its symbol unless
\* it has no order.
LEMMA LedgerGivesUp ==
  ASSUME EntryInv, OrdersInv, [Next]_vars, NEW s \in Symbol, ReleaseEntryLock(s),
         UNCHANGED <<state, symbolOf, cache, results, learned, saved, mpc, booted>>,
         \/ unaccounted' = unaccounted /\ attempt[s].orders = {}
         \/ unaccounted' = unaccounted \cup {s}
  PROVE  Ledger!Next
<1> DEFINE S == IF unaccounted' = unaccounted THEN {} ELSE {s}
<1>0. /\ state \in [Ticket -> TicketState] /\ attempt'[s].orders = {}
      /\ \A q \in Symbol \ {s} : attempt'[q] = attempt[q]
  BY Released DEF EntryInv, TypeOK, TerminalTypeOK
<1>1. ASSUME NEW t \in Own, ~ (InHand(t)' <=> InHand(t))
      PROVE  t \in attempt[s].orders
  BY <1>0, <1>1 DEF InHand
<1>2. ASSUME NEW t \in Own
      PROVE  \/ StageOf(t)' = StageOf(t)
             \/ /\ StageOf(t) \in {"closed", "adopted", "settled"}
                /\ StageOf(t)' \in {"closed", "adopted", "settled"}
                /\ symbolOf[t] \in unaccounted'
  <2>1. CASE InHand(t)' <=> InHand(t)
    BY <2>1, StageKept
  <2>2. CASE ~ (InHand(t)' <=> InHand(t))
    <3>1. symbolOf[t] = s /\ s \in unaccounted'
      BY <1>1, <2>2 DEF OrdersInv
    <3> QED
      BY <1>0, <3>1 DEF StageOf, TicketState
  <2> QED
    BY <2>1, <2>2
<1>3. S \in SUBSET Symbol /\ unaccounted' = unaccounted \cup S
  OBVIOUS
<1>4. TradesReported' = TradesReported /\ HandedOver' = HandedOver
  BY DEF TradesReported, HandedOver
<1> HIDE DEF S
<1> QED
  BY <1>2, <1>3, <1>4, LedgerAmends

\* A position is recorded.  Of a symbol that an alert named it may be another one than
\* the attempt's order.
LEMMA LedgerRecords ==
  ASSUME EntryInv, CreditInv, [Next]_vars, NEW s \in Symbol, RecordPosition(s)
  PROVE  Ledger!Next
<1> DEFINE u == attempt[s].found
<1>0. /\ state \in [Ticket -> TicketState] /\ attempt'[s].orders = {}
      /\ \A q \in Symbol \ {s} : attempt'[q] = attempt[q]
      /\ cache \in [Ticket -> EntryKind] /\ pc[s] = "recording" /\ u \in Opened
      /\ cache' = [cache EXCEPT ![u] = "recorded"]
      /\ UNCHANGED <<state, symbolOf, results, learned, saved, mpc, booted, unaccounted>>
  BY Released DEF EntryInv, TypeOK, TerminalTypeOK, RecordPosition, AttemptInv, AttemptOK,
     terminalVars, mainVars, reconcileVars
<1>1. /\ symbolOf[u] = s
      /\ s \in unaccounted \/ attempt[s].orders = {u}
      /\ \A t \in attempt[s].orders : symbolOf[t] = s
  BY <1>0 DEF CreditInv, OrdersInv, EntryInv, AttemptInv, AttemptOK
<1>2. u \in Ticket /\ state[u] \in {"open", "closed"}
  BY <1>0 DEF Opened
<1> HIDE DEF u
<1>3. ASSUME NEW t \in Own
      PROVE  \/ StageOf(t)' = StageOf(t)
             \/ /\ StageOf(t) \in {"closed", "adopted", "settled"}
                /\ StageOf(t)' \in {"closed", "adopted", "settled"}
                /\ symbolOf[t] \in unaccounted'
  <2>1. CASE t = u /\ s \notin unaccounted
    <3>1. InHand(t) /\ InHand(t)'
      BY <1>0, <1>1, <1>2, <2>1 DEF InHand
    <3> QED
      BY <1>0, <3>1 DEF StageOf, TicketState
  <2>2. CASE t # u /\ t \notin attempt[s].orders
    <3>1. cache'[t] = cache[t] /\ (InHand(t)' <=> InHand(t))
      BY <1>0, <2>2 DEF InHand
    <3> QED
      BY <1>0, <3>1, StageKept
  <2>3. CASE symbolOf[t] = s /\ s \in unaccounted
    <3>1. CASE state[t] = "closed"
      BY <1>0, <2>3, <3>1 DEF StageOf
    <3>2. CASE state[t] # "closed"
      BY <1>0, <3>2 DEF StageOf, TicketState
    <3> QED
      BY <3>1, <3>2
  <2> QED
    BY <1>1, <2>1, <2>2, <2>3
<1>4. TradesReported' = TradesReported /\ HandedOver' = HandedOver /\ unaccounted' = unaccounted \cup {}
  BY <1>0 DEF TradesReported, HandedOver
<1> QED
  BY <1>0, <1>3, <1>4, LedgerAmends

\* Every step of a symbol thread is one of the ledger or changes nothing in it.
LEMMA LedgerThread ==
  ASSUME EntryInv, CreditInv, LedgerInv, [Next]_vars, NEW s \in Symbol, ThreadStep(s)
  PROVE  Ledger!Next \/ UNCHANGED Ledger!ledgerVars
<1>0. /\ attempt \in [Symbol -> Attempt] /\ attempt[s] \in Attempt /\ AttemptOK(s)
      /\ OrdersInv
  BY DEF EntryInv, TypeOK, AttemptInv, CreditInv
<1>1. ASSUME UNCHANGED booksVars, \A q \in Symbol : attempt'[q].orders = attempt[q].orders
      PROVE  UNCHANGED Ledger!ledgerVars
  BY <1>1, BooksStay
<1>2. CASE EnterTrade(s) \/ ReplyLost(s)
  BY <1>1, <1>2 DEF EnterTrade, ReplyLost, booksVars, terminalVars, cacheVars, mainVars,
     reconcileVars
<1>3. ASSUME ReleaseEntryLock(s), attempt[s].orders = {}, UNCHANGED booksVars
      PROVE  UNCHANGED Ledger!ledgerVars
  BY <1>1, <1>3, Released
<1>4. CASE GiveUpEntry(s)
  BY <1>0, <1>3, <1>4 DEF GiveUpEntry, AttemptOK, booksVars, terminalVars, cacheVars,
     mainVars, reconcileVars
<1>5. CASE ReadOpenRisk(s)
  BY <1>0, <1>1, <1>5 DEF ReadOpenRisk, Attempt, booksVars, terminalVars, cacheVars,
     mainVars, reconcileVars
<1>6. ASSUME NEW r \in 1..MaxRisk, PositionSize(s, r)
      PROVE  UNCHANGED Ledger!ledgerVars
  BY <1>0, <1>1, <1>6 DEF PositionSize, Attempt, booksVars, terminalVars, cacheVars,
     mainVars, reconcileVars
<1>7. CASE StartTrade(s)
  <2>1. UNCHANGED booksVars /\ attempt[s].orders = {}
    BY <1>0, <1>7 DEF StartTrade, AttemptOK, booksVars, terminalVars, cacheVars, mainVars,
       reconcileVars
  <2>2. ASSUME NEW before \in {OwnListed(s), None},
               attempt' = [attempt EXCEPT ![s].before = before]
        PROVE  UNCHANGED Ledger!ledgerVars
    BY <1>0, <1>1, <2>1, <2>2 DEF Attempt
  <2> QED
    BY <1>3, <1>7, <2>1, <2>2 DEF StartTrade
<1>8. ASSUME NEW t \in Ticket, SendOrder(s, t) PROVE Ledger!Next
  BY <1>8, LedgerSend
<1>9. ASSUME NEW t \in Ticket, ReplyFilled(s, t) PROVE UNCHANGED Ledger!ledgerVars
  BY <1>0, <1>1, <1>9 DEF ReplyFilled, Attempt, booksVars, terminalVars, cacheVars,
     mainVars, reconcileVars
<1>10. ASSUME NEW t \in Ticket, FindNewPosition(s, t) PROVE Ledger!Next
  <2> DEFINE S == IF t \in attempt[s].orders THEN {} ELSE {s}
  <2>1. /\ \A q \in Symbol : attempt'[q].orders = attempt[q].orders
        /\ unaccounted' = unaccounted \cup S /\ S \in SUBSET Symbol
        /\ UNCHANGED <<state, symbolOf, cache, results, learned, saved, mpc, booted>>
    BY <1>0, <1>10 DEF FindNewPosition, Attempt, terminalVars, cacheVars, mainVars,
       reconcileVars
  <2> HIDE DEF S
  <2>2. TradesReported' = TradesReported /\ HandedOver' = HandedOver
    BY <2>1 DEF TradesReported, HandedOver
  <2> QED
    BY <2>1, <2>2, LedgerSame, LedgerAmends
<1>11. ASSUME NEW t \in Ticket, NEW again \in BOOLEAN, ReplyRejected(s, t, again)
       PROVE  Ledger!Next
  <2>1. /\ Discard(t) /\ UNCHANGED <<cache, results, learned, saved, mpc, booted, unaccounted>>
        /\ \A q \in Symbol : attempt'[q].orders \ {t} = attempt[q].orders \ {t}
    BY <1>0, <1>11 DEF ReplyRejected, Attempt, cacheVars, mainVars, reconcileVars
  <2>2. t \in Own
    BY <1>11 DEF ReplyRejected, LedgerInv
  <2> QED
    BY <2>1, <2>2, LedgerDiscard
<1>12. ASSUME NEW readable \in BOOLEAN, NoPositionFound(s, readable) PROVE Ledger!Next
  <2>1. /\ ReleaseEntryLock(s)
        /\ UNCHANGED <<state, symbolOf, cache, results, learned, saved, mpc, booted>>
        /\ \/ unaccounted' = unaccounted /\ attempt[s].orders = {}
           \/ unaccounted' = unaccounted \cup {s}
    BY <1>0, <1>12 DEF NoPositionFound, AttemptOK, terminalVars, cacheVars, mainVars,
       reconcileVars
  <2> QED
    BY <1>0, <2>1, LedgerGivesUp
<1>13. CASE RecordPosition(s)
  BY <1>13, LedgerRecords
<1>14. CASE RecordFails(s)
  <2>1. /\ ReleaseEntryLock(s) /\ unaccounted' = unaccounted \cup {s}
        /\ UNCHANGED <<state, symbolOf, cache, results, learned, saved, mpc, booted>>
    BY <1>14 DEF RecordFails, terminalVars, cacheVars, mainVars, reconcileVars
  <2> QED
    BY <1>0, <2>1, LedgerGivesUp
<1> QED
  BY <1>2, <1>4, <1>5, <1>6, <1>7, <1>8, <1>9, <1>10, <1>11, <1>12, <1>13, <1>14
     DEF ThreadStep

\* A file written now holds entries of trades that are not settled, and what was learned.
LEMMA FileNow ==
  ASSUME EntryInv, saved' = Snapshot
  PROVE  TradeFile' \in Ledger!Files
<1>0. cache \in [Ticket -> EntryKind] /\ Cached \subseteq Opened
  BY DEF EntryInv, TypeOK, KnownInv
<1> DEFINE Entries == {t \in Own : TradeStage[t] \in {"open", "closed", "adopted"}}
           O == {t \in Own : cache[t] = "recorded"}
           A == {t \in Own : cache[t] = "adopted"}
           File(S, U) == [own |-> S, adopted |-> U, credited |-> TradesCredited]
<1>1. TradeFile' = File(O, A)
  BY DEF TradeFile, Snapshot, TradesCredited
<1>2. O \subseteq Entries
  <2>1. ASSUME NEW t \in O PROVE StageOf(t) \in {"open", "closed", "adopted"}
    <3>1. t \in Cached /\ InHand(t)
      BY DEF Cached, InHand
    <3> QED
      BY <1>0, <3>1 DEF StageOf, Opened
  <2> QED
    BY <2>1 DEF TradeStage
<1>3. A \subseteq Entries
  <2>1. ASSUME NEW t \in A PROVE StageOf(t) \in {"open", "closed", "adopted"}
    <3>1. t \in Cached
      BY DEF Cached
    <3> QED
      BY <1>0, <3>1 DEF StageOf, Opened
  <2> QED
    BY <2>1 DEF TradeStage
<1>4. Ledger!Files = {File(S, U) : S \in SUBSET Entries, U \in SUBSET Entries}
  BY DEF Ledger!Files
<1>5. O \in SUBSET Entries /\ A \in SUBSET Entries
  BY <1>2, <1>3
<1> HIDE DEF O, A, Entries, File
<1> QED
  BY <1>1, <1>4, <1>5

\* A save writes the books of one moment, or leaves the file.
LEMMA LedgerSave ==
  ASSUME EntryInv, SaveState
  PROVE  Ledger!Next \/ UNCHANGED Ledger!ledgerVars
<1>0. /\ UNCHANGED <<state, symbolOf, cache, results, learned, booted, unaccounted>>
      /\ \A s \in Symbol : attempt'[s].orders = attempt[s].orders
      /\ HandedOver' = HandedOver
  BY DEF SaveState, terminalVars, threadVars, cacheVars, reconcileVars, HandedOver
<1>1. /\ \A t \in Own : StageOf(t)' = StageOf(t)
      /\ TradesReported' = TradesReported /\ TradesCredited' = TradesCredited
  BY <1>0, LedgerSame DEF TradesReported, TradesCredited
<1>2. CASE saved' = saved
  BY <1>0, <1>1, <1>2, LedgerStays
<1>3. CASE saved' = Snapshot
  <2>1. TradeFile' \in Ledger!Files
    BY <1>3, FileNow
  <2>2. TradeStage' = TradeStage /\ TradeOwner' = TradeOwner
    BY <1>0, <1>1 DEF TradeStage, TradeOwner
  <2>3. Ledger!Save
    BY <1>0, <1>1, <2>1, <2>2 DEF Ledger!Save
  <2> QED
    BY <2>3 DEF Ledger!Next
<1> QED
  BY <1>2, <1>3 DEF SaveState

\* Everything is loaded from the last file, or from one written on the way down.
LEMMA LedgerRestarts ==
  ASSUME EntryInv, NEW file \in {saved, Snapshot}, StartFrom(file)
  PROVE  Ledger!Next
<1>0. /\ cache' = file.cache /\ learned' = file.learned /\ saved' = file /\ results' = {}
      /\ mpc' = "loop" /\ UNCHANGED <<state, symbolOf>>
      /\ unaccounted' = unaccounted \cup UnsavedSymbols(file)
      /\ \A s \in Symbol : attempt'[s].orders = {}
      /\ state \in [Ticket -> TicketState] /\ file.cache \in [Ticket -> EntryKind]
  BY DEF StartFrom, NoAttempt, terminalVars, EntryInv, TypeOK, TerminalTypeOK, Snapshot,
     SavedState
<1>1. TradeFile' \in {TradeFile} \cup Ledger!Files
  <2>1. CASE file = saved
    BY <1>0, <2>1 DEF TradeFile
  <2>2. CASE file = Snapshot
    BY <1>0, <2>2, FileNow
  <2> QED
    BY <2>1, <2>2
<1>2. /\ TradeFile'.own = {t \in Own : file.cache[t] = "recorded"}
      /\ TradeFile'.adopted = {t \in Own : file.cache[t] = "adopted"}
      /\ TradeFile'.credited = Rewarded(file.learned)
  BY <1>0 DEF TradeFile
<1>3. TradesCredited' = TradeFile'.credited /\ TradesReported' = {} /\ HandedOver' = FALSE
  BY <1>0, <1>2 DEF TradesCredited, TradesReported, Rewarded, HandedOver
<1>4. TradeStage' =
        [t \in Own |-> IF TradeStage[t] \in {"free", "ordered", "open"} THEN TradeStage[t]
                       ELSE IF t \in TradeFile'.own THEN "closed"
                       ELSE IF t \in TradeFile'.adopted THEN "adopted" ELSE "settled"]
  <2>1. ASSUME NEW t \in Own
        PROVE  StageOf(t)' = IF StageOf(t) \in {"free", "ordered", "open"} THEN StageOf(t)
                             ELSE IF t \in TradeFile'.own THEN "closed"
                             ELSE IF t \in TradeFile'.adopted THEN "adopted" ELSE "settled"
    <3>1. InHand(t)' <=> file.cache[t] = "recorded"
      BY <1>0 DEF InHand
    <3>2. CASE state[t] # "closed"
      BY <1>0, <3>2 DEF StageOf, TicketState
    <3>3. CASE state[t] = "closed"
      <4>1. StageOf(t) \notin {"free", "ordered", "open"}
        BY <3>3 DEF StageOf
      <4>2. StageOf(t)' = IF file.cache[t] = "recorded" THEN "closed"
                          ELSE IF file.cache[t] = "adopted" THEN "adopted" ELSE "settled"
        BY <1>0, <3>1, <3>3 DEF StageOf
      <4> QED
        BY <1>2, <4>1, <4>2
    <3> QED
      BY <3>2, <3>3
  <2> QED
    BY <2>1 DEF TradeStage
<1>5. unaccounted' =
        unaccounted \cup {TradeOwner[t] : t \in {u \in Own \ (TradeFile'.own \cup TradeFile'.adopted) :
                                                    TradeStage[u] \in {"ordered", "open"}}}
  <2>1. ASSUME NEW u \in Own
        PROVE  /\ TradeStage[u] \in {"ordered", "open"} <=> IsLive(u)
               /\ u \notin TradeFile'.own \cup TradeFile'.adopted <=> file.cache[u] = "out"
               /\ TradeOwner[u] = symbolOf[u]
    BY <1>0, <1>2 DEF TradeStage, StageOf, IsLive, TicketState, EntryKind, TradeOwner
  <2> QED
    BY <1>0, <2>1 DEF UnsavedSymbols
<1>6. TradeOwner' = TradeOwner
  BY <1>0 DEF TradeOwner
<1>7. Ledger!Restart
  BY <1>1, <1>3, <1>4, <1>5, <1>6 DEF Ledger!Restart
<1> QED
  BY <1>7 DEF Ledger!Next

\* The steps of the main thread and of a restart that touch no trade, no attempt and no
\* alert.
LEMMA LedgerWaits ==
  ASSUME EntryInv, [Next]_vars, UNCHANGED <<terminalVars, threadVars, saved, unaccounted>>,
         \A t \in Own : cache'[t] = cache[t],
         learned' = learned, results' = results,
         HandedOver' = HandedOver \/ (results = {} /\ ~HandedOver')
  PROVE  Ledger!Next
<1>1. \A t \in Own : InHand(t)' <=> InHand(t)
  BY DEF InHand, threadVars
<1>2. \A t \in Own : StageOf(t)' = StageOf(t)
  BY <1>1, StageKept DEF terminalVars
<1>3. TradesReported' = TradesReported /\ (results = {} => TradesReported = {})
  BY DEF TradesReported, Rewarded
<1>4. UNCHANGED <<symbolOf, learned, saved>> /\ unaccounted' = unaccounted \cup {}
  BY DEF terminalVars
<1>5. {} \in SUBSET Symbol
  OBVIOUS
<1> QED
  BY <1>2, <1>3, <1>4, <1>5, LedgerAmends

\* Before the hand-over, entries leave the cache or are made from the list; a trade that
\* is closed stays so unless an alert names its symbol.
LEMMA LedgerEntries ==
  ASSUME EntryInv, [Next]_vars, UNCHANGED <<terminalVars, threadVars, saved, learned>>,
         NEW S \in SUBSET Symbol, unaccounted' = unaccounted \cup S,
         \A t \in Own : \/ cache'[t] = cache[t]
                        \/ symbolOf[t] \in unaccounted'
                        \/ cache[t] # "recorded" /\ cache'[t] # "recorded",
         ~HandedOver, results' \in {results, {}}
  PROVE  Ledger!Next
<1>0. state \in [Ticket -> TicketState] /\ state' = state /\ symbolOf' = symbolOf
  BY DEF EntryInv, TypeOK, TerminalTypeOK, terminalVars
<1>1. ASSUME NEW t \in Own
      PROVE  \/ StageOf(t)' = StageOf(t)
             \/ /\ StageOf(t) \in {"closed", "adopted", "settled"}
                /\ StageOf(t)' \in {"closed", "adopted", "settled"}
                /\ \/ symbolOf[t] \in unaccounted'
                   \/ StageOf(t) # "closed" /\ StageOf(t)' # "closed"
  <2>1. CASE state[t] # "closed"
    BY <1>0, <2>1 DEF StageOf, TicketState
  <2>2. CASE state[t] = "closed"
    <3>1. /\ StageOf(t) \in {"closed", "adopted", "settled"}
          /\ StageOf(t)' \in {"closed", "adopted", "settled"}
      BY <1>0, <2>2 DEF StageOf
    <3>2. CASE cache[t] # "recorded" /\ cache'[t] # "recorded"
      <4>1. InHand(t)' <=> InHand(t)
        BY <3>2 DEF InHand, threadVars
      <4> QED
        BY <1>0, <2>2, <3>1, <4>1 DEF StageOf
    <3>3. CASE cache'[t] = cache[t]
      <4>1. InHand(t)' <=> InHand(t)
        BY <3>3 DEF InHand, threadVars
      <4> QED
        BY <1>0, <3>3, <4>1, StageKept
    <3> QED
      BY <3>1, <3>2, <3>3
  <2> QED
    BY <2>1, <2>2
<1>2. TradesReported' \in {TradesReported, {}}
  BY DEF TradesReported, Rewarded
<1>3. UNCHANGED <<symbolOf, learned, saved>>
  BY <1>0
<1> QED
  BY <1>1, <1>2, <1>3, LedgerAmends

\* A closed trade that was recorded is reported; an adopted one gives no reward.
LEMMA LedgerReports ==
  ASSUME EntryInv, LedgerInv, [Next]_vars, NEW t \in Ticket, CheckClosed(t), ReportClosed(t)
  PROVE  Ledger!Next
<1> DEFINE r == [ticket |-> t, kind |-> cache[t]]
<1>0. /\ cache \in [Ticket -> EntryKind] /\ cache' = [cache EXCEPT ![t] = "out"]
      /\ results' = results \cup {r} /\ t \in Own /\ state[t] = "closed"
      /\ UNCHANGED <<terminalVars, threadVars, mpc, booted, saved, learned, unaccounted>>
      /\ cache[t] # "out" /\ mpc = "checking"
  BY DEF CheckClosed, ReportClosed, Drop, EntryInv, TypeOK, TerminalInv, KnownInv, Cached
<1>1. r.ticket = t /\ r.kind = cache[t]
  OBVIOUS
<1>2. HandedOver' = HandedOver /\ ~HandedOver
  BY <1>0 DEF HandedOver
<1>3. CASE cache[t] = "recorded"
  <2>1. r = Reward(t)
    BY <1>3 DEF Reward
  <2> HIDE DEF r
  <2>2. \A u \in Own : Reward(u) = r <=> u = t
    BY <1>1, <2>1 DEF Reward
  <2>3. TradesReported' = TradesReported \cup {t}
    BY <1>0, <2>2 DEF TradesReported, Rewarded, Reward
  <2>4. \A u \in Own \ {t} : StageOf(u)' = StageOf(u)
    <3>1. \A u \in Own \ {t} : InHand(u)' <=> InHand(u)
      BY <1>0 DEF InHand, threadVars
    <3> QED
      BY <1>0, <3>1, StageKept DEF terminalVars
  <2>5. StageOf(t) = "closed" /\ StageOf(t)' = "settled"
    <3>1. InHand(t) /\ ~InHand(t)'
      BY <1>0, <1>3 DEF InHand, LedgerInv, threadVars
    <3> QED
      BY <1>0, <3>1 DEF StageOf, terminalVars
  <2>6. /\ TradeStage[t] = "closed" /\ TradeStage' = [TradeStage EXCEPT ![t] = "settled"]
        /\ TradeOwner' = TradeOwner
    BY <1>0, <2>4, <2>5 DEF TradeStage, TradeOwner, terminalVars
  <2>7. Ledger!Report(t)
    BY <1>0, <1>2, <2>3, <2>6 DEF Ledger!Report, Ledger!Becomes, TradesCredited, TradeFile
  <2> QED
    BY <1>0, <2>7 DEF Ledger!Next
<1>4. CASE cache[t] # "recorded"
  <2> HIDE DEF r
  <2>1. \A u \in Own : Reward(u) # r
    BY <1>1, <1>4 DEF Reward
  <2>2. TradesReported' = TradesReported
    BY <1>0, <2>1 DEF TradesReported, Rewarded, Reward
  <2>3. ASSUME NEW u \in Own
        PROVE  \/ StageOf(u)' = StageOf(u)
               \/ /\ StageOf(u) \in {"closed", "adopted", "settled"}
                  /\ StageOf(u)' \in {"closed", "adopted", "settled"}
                  /\ StageOf(u) # "closed" /\ StageOf(u)' # "closed"
    <3>1. InHand(u)' <=> InHand(u)
      BY <1>0, <1>4 DEF InHand, threadVars
    <3>2. CASE u = t
      BY <1>0, <3>1, <3>2 DEF StageOf, terminalVars
    <3>3. CASE u # t
      BY <1>0, <3>1, <3>3, StageKept DEF terminalVars
    <3> QED
      BY <3>2, <3>3
  <2>4. UNCHANGED <<symbolOf, learned, saved>> /\ unaccounted' = unaccounted \cup {}
    BY <1>0 DEF terminalVars
  <2>5. {} \in SUBSET Symbol
    OBVIOUS
  <2> QED
    BY <1>2, <2>2, <2>3, <2>4, <2>5, LedgerAmends
<1> QED
  BY <1>3, <1>4

\* A trade is learned from after the hand-over, and rewarded once.
LEMMA LedgerLearns ==
  ASSUME EntryInv, CreditInv, LedgerInv, [Next]_vars, NEW c \in results, Learn(c)
  PROVE  Ledger!Next \/ UNCHANGED Ledger!ledgerVars
<1>0. /\ UNCHANGED <<terminalVars, threadVars, cache, mpc, booted, saved, unaccounted>>
      /\ results' = results \ {c} /\ learned' = learned \cup {c}
      /\ c \in ClosedTrade /\ c.ticket \in Own /\ HandedOver
  BY RewardsOpened DEF Learn, cacheVars, EntryInv, TypeOK, LedgerInv, HandedOver
<1>1. \A t \in Own : StageOf(t)' = StageOf(t)
  BY <1>0, LedgerSame DEF terminalVars, threadVars
<1>2. HandedOver' = HandedOver /\ symbolOf' = symbolOf
  BY <1>0 DEF HandedOver, terminalVars
<1>3. CASE c.kind = "recorded"
  <2> DEFINE t == c.ticket
  <2>1. c = Reward(t)
    BY <1>0, <1>3 DEF ClosedTrade, Reward
  <2>2. t \in Own
    BY <1>0
  <2>3. \A u \in Own : Reward(u) = c <=> u = t
    BY <1>0, <2>1 DEF Reward
  <2>4. t \in TradesReported
    BY <2>1, <2>2 DEF TradesReported, Rewarded, Reward
  <2>5. t \notin TradesCredited \/ TradeOwner[t] \in unaccounted
    BY <1>3, <2>1, <2>2 DEF CreditInv, NeverCreditedTwice, Accounted, TradesCredited,
       Rewarded, Reward, TradeOwner
  <2> HIDE DEF t
  <2>6. /\ TradesReported' = TradesReported \ {t}
        /\ TradesCredited' = TradesCredited \cup {t}
    BY <1>0, <2>2, <2>3 DEF TradesReported, TradesCredited, Rewarded, Reward
  <2>7. TradeStage' = TradeStage /\ TradeOwner' = TradeOwner /\ TradeFile' = TradeFile
    BY <1>0, <1>1, <1>2 DEF TradeStage, TradeOwner, TradeFile
  <2>8. Ledger!Credit(t)
    BY <1>0, <1>2, <2>4, <2>5, <2>6, <2>7 DEF Ledger!Credit
  <2> QED
    BY <2>2, <2>8 DEF Ledger!Next
<1>4. CASE c.kind # "recorded"
  <2>1. \A u \in Own : Reward(u) # c
    BY <1>4 DEF Reward
  <2>2. TradesReported' = TradesReported /\ TradesCredited' = TradesCredited
    BY <1>0, <2>1 DEF TradesReported, TradesCredited, Rewarded, Reward
  <2> QED
    BY <1>0, <1>1, <1>2, <2>2, LedgerStays
<1> QED
  BY <1>3, <1>4

\* Every step of the main thread.
LEMMA LedgerMain ==
  ASSUME EntryInv, CreditInv, LedgerInv, [Next]_vars, MainStep
  PROVE  Ledger!Next \/ UNCHANGED Ledger!ledgerVars
<1>0. /\ cache \in [Ticket -> EntryKind] /\ {} \in SUBSET Symbol
      /\ unaccounted = unaccounted \cup {}
  BY DEF EntryInv, TypeOK
<1>1. CASE SaveState
  BY <1>1, LedgerSave
<1>2. CASE ReconcileSkipped
  <2>1. HandedOver' = HandedOver
    BY <1>2 DEF ReconcileSkipped, ReconcileStarts, HandedOver
  <2> QED
    BY <1>2, <2>1, LedgerWaits DEF ReconcileSkipped, cacheVars, reconcileVars
<1>3. CASE ReconcileList
  <2>1. mpc \in {"saved", "loop"} /\ mpc' = "checking" /\ booted' = booted
    BY <1>3 DEF ReconcileList, ReconcileStarts
  <2>2. HandedOver' = HandedOver
    BY <2>1 DEF HandedOver
  <2>3. results' = results
    BY <1>3, <2>1 DEF ReconcileList, LedgerInv
  <2>4. \A t \in Own : cache'[t] = cache[t]
    BY <1>0, <1>3 DEF ReconcileList, Cached
  <2>5. UNCHANGED <<terminalVars, threadVars, saved, unaccounted>> /\ learned' = learned
    BY <1>3 DEF ReconcileList
  <2> QED
    BY <2>2, <2>3, <2>4, <2>5, LedgerWaits
<1>4. ASSUME NEW t \in Ticket, CheckClosed(t)
      PROVE  Ledger!Next
  <2>1. UNCHANGED <<terminalVars, threadVars, mpc, booted, saved, learned>>
    BY <1>4 DEF CheckClosed
  <2>2. HandedOver' = HandedOver /\ ~HandedOver
    BY <1>4, <2>1 DEF CheckClosed, HandedOver
  <2>3. CASE DropForeign(t) \/ AwaitClosingDeal(t)
    <3>1. /\ \A u \in Own : cache'[u] = cache[u]
          /\ results' = results /\ unaccounted' = unaccounted
      BY <1>0, <2>3 DEF DropForeign, AwaitClosingDeal, Drop
    <3> QED
      BY <2>1, <2>2, <3>1, LedgerWaits
  <2>4. CASE GiveUpClosingDeal(t)
    <3>1. symbolOf[t] \in Symbol
      <4>1. t \in Opened
        BY <1>4 DEF CheckClosed, EntryInv, KnownInv
      <4> QED
        BY <4>1, OpenedSymbol DEF EntryInv
    <3>2. /\ results' = results /\ unaccounted' = unaccounted \cup {symbolOf[t]}
          /\ {symbolOf[t]} \in SUBSET Symbol
          /\ \A u \in Own : cache'[u] = cache[u] \/ symbolOf[u] \in unaccounted'
      BY <1>0, <2>4, <3>1 DEF GiveUpClosingDeal, Drop
    <3> QED
      BY <2>1, <2>2, <3>2, LedgerEntries
  <2> QED
    BY <1>4, <2>3, <2>4, LedgerReports DEF CheckClosed
<1>5. CASE ReconcileFails
  <2>1. /\ unaccounted' = unaccounted \cup {} /\ results' = {} /\ ~HandedOver
        /\ UNCHANGED <<terminalVars, threadVars, saved, learned, cache>>
    BY <1>0, <1>5 DEF ReconcileFails, cacheVars, HandedOver
  <2> QED
    BY <1>0, <2>1, LedgerEntries
<1>6. CASE AdoptAndReturn
  <2>1. /\ UNCHANGED <<terminalVars, threadVars, saved, learned>>
        /\ unaccounted' = unaccounted \cup {}
        /\ \A t \in Own : cache'[t] = cache[t] \/ (cache[t] # "recorded" /\ cache'[t] # "recorded")
    BY <1>0, <1>6 DEF AdoptAndReturn
  <2>2. ~HandedOver
    BY <1>6 DEF AdoptAndReturn, HandedOver
  <2>3. results' \in {results, {}}
    BY <1>6 DEF AdoptAndReturn
  <2> QED
    BY <1>0, <2>1, <2>2, <2>3, LedgerEntries
<1>7. ASSUME NEW c \in results, Learn(c) PROVE Ledger!Next \/ UNCHANGED Ledger!ledgerVars
  BY <1>7, LedgerLearns
<1>8. CASE EndOfPass
  <2>1. results = {} /\ ~HandedOver'
    BY <1>8 DEF EndOfPass, HandedOver
  <2> QED
    BY <1>8, <2>1, LedgerWaits DEF EndOfPass, cacheVars, reconcileVars
<1> QED
  BY <1>1, <1>2, <1>3, <1>4, <1>5, <1>6, <1>7, <1>8 DEF MainStep

\* On the way down the results are lost; a start loads a file.
LEMMA LedgerRestart ==
  ASSUME EntryInv, [Next]_vars, RestartStep
  PROVE  Ledger!Next
<1>1. CASE MainLoopFails \/ Interrupt
  <2>1. /\ UNCHANGED <<terminalVars, threadVars, cache, saved, learned, unaccounted>>
        /\ results' = {} /\ mpc' \in {"stopping", "exiting"}
    BY <1>1 DEF MainLoopFails, Interrupt, cacheVars
  <2>2. \A t \in Own : StageOf(t)' = StageOf(t)
    BY <2>1, LedgerSame DEF terminalVars, threadVars
  <2>3. TradeStage' = TradeStage /\ TradeOwner' = TradeOwner /\ TradeFile' = TradeFile
    BY <2>1, <2>2 DEF TradeStage, TradeOwner, TradeFile, terminalVars
  <2>4. TradesReported' = {} /\ TradesCredited' = TradesCredited /\ HandedOver' = FALSE
    BY <2>1 DEF TradesReported, TradesCredited, Rewarded, HandedOver
  <2>5. Ledger!GoDown
    BY <2>1, <2>3, <2>4 DEF Ledger!GoDown
  <2> QED
    BY <2>5 DEF Ledger!Next
<1>2. CASE Reconnect \/ ShutDown \/ Crash
  BY <1>2, LedgerRestarts DEF Reconnect, ShutDown, Crash
<1> QED
  BY <1>1, <1>2 DEF RestartStep

\* What the broker does on its own.
LEMMA LedgerBroker ==
  ASSUME EntryInv, LedgerInv, [Next]_vars, NEW t \in Ticket, BrokerStep(t)
  PROVE  Ledger!Next \/ UNCHANGED Ledger!ledgerVars
<1>0. /\ state \in [Ticket -> TicketState] /\ symbolOf \in [Ticket -> Symbol \cup {None}]
      /\ attempt \in [Symbol -> Attempt]
      /\ UNCHANGED <<cache, results, learned, saved, mpc, booted, unaccounted>>
  BY DEF EntryInv, TypeOK, TerminalTypeOK, BrokerStep, OrderVanishes, cacheVars, mainVars,
     reconcileVars
<1>1. /\ TradesReported' = TradesReported /\ TradesCredited' = TradesCredited
      /\ TradeFile' = TradeFile /\ HandedOver' = HandedOver
  BY <1>0 DEF TradesReported, TradesCredited, TradeFile, HandedOver
<1>2. CASE OrderVanishes(t)
  <2>1. \A s \in Symbol : attempt'[s].orders = attempt[s].orders \ {t}
    BY <1>0, <1>2 DEF OrderVanishes, Attempt
  <2>2. CASE t \in Own
    BY <1>0, <1>2, <2>1, <2>2, LedgerDiscard DEF OrderVanishes
  <2>3. CASE t \notin Own
    <3>1. ASSUME NEW u \in Own
          PROVE  StageOf(u)' = StageOf(u) /\ symbolOf'[u] = symbolOf[u]
      <4>1. state'[u] = state[u] /\ symbolOf'[u] = symbolOf[u] /\ (InHand(u)' <=> InHand(u))
        BY <1>0, <1>2, <2>1, <2>3 DEF OrderVanishes, Discard, InHand
      <4> QED
        BY <1>0, <4>1, StageKept
    <3> QED
      BY <1>0, <1>1, <3>1, LedgerStays
  <2> QED
    BY <2>2, <2>3
<1>3. ASSUME attempt' = attempt PROVE \A u \in Own : InHand(u)' <=> InHand(u)
  BY <1>0, <1>3 DEF InHand
<1>4. ASSUME attempt' = attempt,
             \A u \in Own : state'[u] = state[u] /\ symbolOf'[u] = symbolOf[u]
      PROVE  UNCHANGED Ledger!ledgerVars
  BY <1>0, <1>1, <1>3, <1>4, StageKept, LedgerStays
<1>5. ASSUME ListCatchesUp(t) \/ DealAppears(t), attempt' = attempt
      PROVE  UNCHANGED Ledger!ledgerVars
  BY <1>4, <1>5 DEF ListCatchesUp, DealAppears
<1>6. ASSUME NEW s \in Symbol, ForeignOpens(t, s), attempt' = attempt
      PROVE  UNCHANGED Ledger!ledgerVars
  BY <1>0, <1>4, <1>6 DEF ForeignOpens
<1>7. ASSUME NEW next \in TicketState, state' = [state EXCEPT ![t] = next], t \in Own,
             symbolOf' = symbolOf, attempt' = attempt
      PROVE  /\ TradeStage' = [TradeStage EXCEPT ![t] = StageOf(t)']
             /\ TradeOwner' = TradeOwner /\ TradeStage[t] = StageOf(t)
  <2>1. \A u \in Own \ {t} : StageOf(u)' = StageOf(u)
    BY <1>0, <1>3, <1>7, StageKept
  <2> QED
    BY <1>7, <2>1 DEF TradeStage, TradeOwner
<1>8. ASSUME Execute(t), attempt' = attempt, t \in Own PROVE Ledger!Next
  <2>1. /\ TradeStage' = [TradeStage EXCEPT ![t] = StageOf(t)']
        /\ TradeOwner' = TradeOwner /\ TradeStage[t] = StageOf(t)
    BY <1>7, <1>8 DEF Execute, TicketState
  <2>2. StageOf(t) = "ordered" /\ StageOf(t)' = "open"
    BY <1>0, <1>8 DEF Execute, StageOf
  <2>3. Ledger!Fill(t)
    BY <1>0, <1>1, <2>1, <2>2 DEF Ledger!Fill, Ledger!Becomes
  <2> QED
    BY <1>8, <2>3 DEF Ledger!Next
<1>9. ASSUME CloseAtBroker(t), attempt' = attempt, t \in Own PROVE Ledger!Next
  <2>1. /\ TradeStage' = [TradeStage EXCEPT ![t] = StageOf(t)']
        /\ TradeOwner' = TradeOwner /\ TradeStage[t] = StageOf(t)
        /\ TradeOwner[t] = symbolOf[t]
    BY <1>7, <1>9 DEF CloseAtBroker, TicketState, TradeOwner
  <2>2. StageOf(t) = "open"
    BY <1>9 DEF CloseAtBroker, StageOf
  <2>3. StageOf(t)' \in {"closed", "adopted"} \/ (StageOf(t)' = "settled" /\ symbolOf[t] \in unaccounted)
    <3>1. state'[t] = "closed"
      BY <1>0, <1>9 DEF CloseAtBroker
    <3>2. symbolOf[t] \in unaccounted \/ cache[t] # "out" \/ InHand(t)
      <4>1. t \in OwnLive /\ symbolOf[t] \in Symbol
        BY <1>9 DEF CloseAtBroker, OwnLive, IsLive, EntryInv, TerminalInv
      <4> QED
        BY <4>1 DEF EntryInv, TrackedInv, InHand
    <3>3. InHand(t)' <=> InHand(t)
      BY <1>3, <1>9
    <3>4. StageOf(t)' = IF InHand(t) THEN "closed"
                        ELSE IF cache[t] = "adopted" THEN "adopted" ELSE "settled"
      BY <1>0, <3>1, <3>3 DEF StageOf
    <3>5. cache[t] = "recorded" => InHand(t)
      BY DEF InHand
    <3>6. cache[t] \in EntryKind
      BY DEF EntryInv, TypeOK
    <3> QED
      BY <3>2, <3>4, <3>5, <3>6 DEF EntryKind
  <2>4. Ledger!Close(t)
    BY <1>0, <1>1, <2>1, <2>2, <2>3 DEF Ledger!Close, Ledger!Becomes
  <2> QED
    BY <1>9, <2>4 DEF Ledger!Next
<1>10. ASSUME Execute(t) \/ CloseAtBroker(t), attempt' = attempt, t \notin Own
       PROVE  UNCHANGED Ledger!ledgerVars
  BY <1>0, <1>4, <1>10 DEF Execute, CloseAtBroker
<1> QED
  BY <1>2, <1>5, <1>6, <1>8, <1>9, <1>10 DEF BrokerStep, threadVars

\* Every step of live trading is one of the ledger or leaves it alone.
LEMMA LedgerStep ==
  ASSUME EntryInv, CreditInv, LedgerInv, [Next]_vars
  PROVE  [Ledger!Next]_(Ledger!ledgerVars)
<1>1. ASSUME UNCHANGED vars PROVE UNCHANGED Ledger!ledgerVars
  BY <1>1, BooksStay DEF vars, booksVars, terminalVars, threadVars, cacheVars, mainVars,
     reconcileVars
<1> QED
  BY <1>1, LedgerThread, LedgerMain, LedgerRestart, LedgerBroker DEF Next

-----------------------------------------------------------------------------
\* What a step may do to the entries of the cache: one that is made "recorded" is the
\* recording of a thread or the load of a file.
LEMMA RecordedGrows ==
  ASSUME EntryInv, [Next]_vars, NEW t \in Ticket, cache'[t] = "recorded", cache[t] # "recorded"
  PROVE  \/ \E s \in Symbol : RecordPosition(s) /\ t = attempt[s].found
         \/ \A s \in Symbol : pc'[s] = "idle" /\ attempt'[s].orders = {}
<1> DEFINE Goal == \/ \E s \in Symbol : RecordPosition(s) /\ t = attempt[s].found
                   \/ \A s \in Symbol : pc'[s] = "idle" /\ attempt'[s].orders = {}
<1>0. cache \in [Ticket -> EntryKind]
  BY DEF EntryInv, TypeOK
<1>1. ASSUME UNCHANGED cache PROVE FALSE
  BY <1>1
<1>2. ASSUME NEW s \in Symbol, RecordPosition(s) PROVE Goal
  <2>1. t = attempt[s].found
    BY <1>0, <1>2 DEF RecordPosition
  <2> QED
    BY <1>2, <2>1
<1>3. ASSUME NEW s \in Symbol, ThreadStep(s) PROVE Goal
  BY <1>1, <1>2, <1>3 DEF ThreadStep, EnterTrade, GiveUpEntry, ReadOpenRisk, PositionSize,
     StartTrade, SendOrder, ReplyFilled, ReplyRejected, ReplyLost, FindNewPosition,
     NoPositionFound, RecordFails, cacheVars
<1>4. ASSUME NEW u \in Ticket, CheckClosed(u) PROVE FALSE
  BY <1>0, <1>4 DEF CheckClosed, ReportClosed, DropForeign, AwaitClosingDeal,
     GiveUpClosingDeal, Drop
<1>5. ASSUME ReconcileList \/ AdoptAndReturn PROVE FALSE
  BY <1>5 DEF ReconcileList, AdoptAndReturn
<1>6. ASSUME MainStep PROVE Goal
  BY <1>1, <1>4, <1>5, <1>6 DEF MainStep, SaveState, ReconcileSkipped, ReconcileFails,
     Learn, EndOfPass, cacheVars
<1>7. ASSUME NEW file, StartFrom(file) PROVE Goal
  BY <1>7 DEF StartFrom, NoAttempt
<1>8. ASSUME RestartStep PROVE Goal
  BY <1>1, <1>7, <1>8 DEF RestartStep, MainLoopFails, Interrupt, Reconnect, ShutDown, Crash,
     cacheVars
<1>9. ASSUME NEW u \in Ticket, BrokerStep(u) PROVE FALSE
  BY <1>1, <1>9 DEF BrokerStep, OrderVanishes, cacheVars
<1>10. ASSUME UNCHANGED vars PROVE FALSE
  BY <1>1, <1>10 DEF vars, cacheVars
<1> HIDE DEF Goal
<1>11. Goal
  BY <1>3, <1>6, <1>8, <1>9, <1>10 DEF Next
<1> QED
  BY <1>11 DEF Goal

\* Results exist only within a pass of a program that has started.
LEMMA PassStep ==
  ASSUME EntryInv, LedgerInv, [Next]_vars
  PROVE  /\ mpc' \notin {"checking", "learning"} => results' = {}
         /\ mpc' = "learning" => booted'
<1> DEFINE Goal == /\ mpc' \notin {"checking", "learning"} => results' = {}
                   /\ mpc' = "learning" => booted'
<1>0. /\ mpc \notin {"checking", "learning"} => results = {}
      /\ mpc = "learning" => booted
  BY DEF LedgerInv
<1>1. ASSUME UNCHANGED <<mpc, booted, results>> PROVE Goal
  BY <1>0, <1>1
<1>2. ASSUME NEW s \in Symbol, ThreadStep(s) PROVE Goal
  BY <1>1, <1>2 DEF ThreadStep, EnterTrade, GiveUpEntry, ReadOpenRisk, PositionSize,
     StartTrade, SendOrder, ReplyFilled, ReplyRejected, ReplyLost, FindNewPosition,
     NoPositionFound, RecordPosition, RecordFails, mainVars, reconcileVars
<1>3. ASSUME NEW t \in Ticket, CheckClosed(t) PROVE Goal
  BY <1>0, <1>3 DEF CheckClosed
<1>4. ASSUME MainStep PROVE Goal
  BY <1>0, <1>3, <1>4 DEF MainStep, SaveState, ReconcileSkipped, ReconcileStarts,
     ReconcileList, ReconcileFails, AdoptAndReturn, Learn, EndOfPass, reconcileVars
<1>5. ASSUME RestartStep PROVE Goal
  BY <1>5 DEF RestartStep, MainLoopFails, Interrupt, Reconnect, ShutDown, Crash, StartFrom
<1>6. ASSUME NEW t \in Ticket, BrokerStep(t) PROVE Goal
  BY <1>1, <1>6 DEF BrokerStep, OrderVanishes, mainVars, reconcileVars
<1>7. ASSUME UNCHANGED vars PROVE Goal
  BY <1>1, <1>7 DEF vars, mainVars, reconcileVars
<1> HIDE DEF Goal
<1>8. Goal
  BY <1>2, <1>4, <1>5, <1>6, <1>7 DEF Next
<1> QED
  BY <1>8 DEF Goal

\* Only position_size takes a thread to where no entry of its symbol may exist.
LEMMA SizedGrows ==
  ASSUME EntryInv, [Next]_vars, NEW s \in Symbol, Sized(s)'
  PROVE  Sized(s) \/ \E r \in 1..MaxRisk : PositionSize(s, r)
<1>0. pc \in [Symbol -> {"idle"} \cup EntryPoint]
  BY DEF EntryInv, TypeOK
<1>1. ASSUME pc'[s] = pc[s] \/ pc'[s] = "idle" PROVE Sized(s)
  BY <1>1 DEF Sized
<1>2. ASSUME ReleaseEntryLock(s) PROVE FALSE
  BY <1>0, <1>2 DEF ReleaseEntryLock, Sized
<1>3. CASE ThreadStep(s)
  BY <1>0, <1>2, <1>3 DEF ThreadStep, EnterTrade, GiveUpEntry, ReadOpenRisk, StartTrade,
     SendOrder, ReplyFilled, ReplyRejected, ReplyLost, FindNewPosition, NoPositionFound,
     RecordPosition, RecordFails, Sized
<1> QED
  BY <1>1, <1>3, AttemptMoves

\* Every step preserves it.
LEMMA LedgerInvStep ==
  ASSUME EntryInv, CreditInv, LedgerInv, [Next]_vars
  PROVE  LedgerInv'
<1>0. /\ TypeOK /\ TypeOK' /\ cache \in [Ticket -> EntryKind] /\ AttemptInv /\ AttemptInv'
      /\ pc \in [Symbol -> {"idle"} \cup EntryPoint] /\ TerminalTypeOK
  BY Inductive DEF EntryInv, TypeOK
<1>1. \A s \in Symbol : \A t \in attempt'[s].orders : t \in Ticket
  BY <1>0 DEF TypeOK, Attempt
\* A thread that records has the lock and lets its own order go.
<1>2. ASSUME NEW q \in Symbol, RecordPosition(q), NEW s \in Symbol
      PROVE  attempt'[s].orders = {} /\ ~Sized(s)'
  <2>1. ReleaseEntryLock(q) /\ pc[q] = "recording"
    BY <1>2 DEF RecordPosition
  <2>2. s # q => pc[s] = "idle"
    BY <1>0, <2>1 DEF AttemptInv, AttemptOK
  <2>3. pc'[s] = "idle"
    BY <1>0, <2>1, <2>2 DEF ReleaseEntryLock
  <2> QED
    BY <1>0, <2>3 DEF AttemptInv, AttemptOK, Sized
<1>3. ASSUME NEW s \in Symbol, NEW t \in attempt'[s].orders
      PROVE  t \in Own /\ cache'[t] # "recorded"
  <2>1. t \in Own /\ cache[t] # "recorded"
    <3>1. CASE t \in attempt[s].orders
      BY <3>1 DEF LedgerInv
    <3>2. CASE SendOrder(s, t)
      <4>1. t \in Own /\ state[t] = "none"
        BY <3>2 DEF SendOrder, Place
      <4> QED
        BY <4>1 DEF EntryInv, KnownInv, Opened, Cached
    <3> QED
      BY <3>1, <3>2, OrdersGrow
  <2> QED
    BY <1>1, <1>2, <1>3, <2>1, RecordedGrows
<1>4. ASSUME NEW s \in Symbol, s \notin unaccounted', Sized(s)', NEW t \in Own,
             symbolOf'[t] = s
      PROVE  cache'[t] # "recorded"
  <2>1. CASE state[t] = "none" \/ state[t] = "sent"
    <3>1. cache[t] # "recorded"
      BY <2>1 DEF EntryInv, KnownInv, Opened, Cached
    <3> QED
      BY <1>2, <1>4, <3>1, RecordedGrows DEF Sized
  <2>2. CASE state[t] # "none" /\ state[t] # "sent"
    <3>1. symbolOf[t] = s /\ s \notin unaccounted
      BY <1>0, <1>4, <2>2, SymbolStays, UnaccountedGrows
    <3>2. cache[t] # "recorded"
      <4>1. CASE Sized(s)
        BY <3>1, <4>1 DEF LedgerInv
      <4>2. ASSUME NEW r \in 1..MaxRisk, PositionSize(s, r) PROVE cache[t] # "recorded"
        BY <3>1, <4>2 DEF PositionSize, SymbolIsTaken, Cached
      <4> QED
        BY <1>4, <4>1, <4>2, SizedGrows
    <3> QED
      BY <1>2, <1>4, <3>2, RecordedGrows DEF Sized
  <2> QED
    BY <2>1, <2>2
<1> QED
  BY <1>3, <1>4, PassStep DEF LedgerInv

\* At the start no ticket of the bot is a trade, and the file holds none.
LEMMA LedgerStarts == Init => Ledger!Init
<1> SUFFICES ASSUME Init PROVE Ledger!Init
  OBVIOUS
<1>1. /\ \A t \in Own : state[t] = "none" /\ symbolOf[t] = None /\ cache[t] = "out"
      /\ saved = Snapshot /\ learned = {} /\ results = {} /\ mpc = "loop" /\ unaccounted = {}
  BY DEF Init, TerminalInit
<1>2. \A t \in Own : StageOf(t) = "free"
  BY <1>1 DEF StageOf
<1>3. TradeStage = [t \in Own |-> "free"] /\ TradeOwner = [t \in Own |-> None]
  BY <1>1, <1>2 DEF TradeStage, TradeOwner
<1>4. TradesReported = {} /\ TradesCredited = {} /\ HandedOver = FALSE
  BY <1>1 DEF TradesReported, TradesCredited, Rewarded, HandedOver
<1>5. TradeFile = [own |-> {}, adopted |-> {}, credited |-> {}]
  BY <1>1 DEF TradeFile, Snapshot, Rewarded
<1> QED
  BY <1>1, <1>3, <1>4, <1>5 DEF Ledger!Init

\* Live trading implements TradeLedger: for any number of symbols, tickets and restarts,
\* no order of a symbol before its last trade is settled, no trade settled without a
\* report or an alert, no reward given twice (main.py:267, risk_controller.py:532).
THEOREM KeepsLedger == Spec => Implements
<1>1. Init => LedgerInv
  BY DEF Init, LedgerInv, NoAttempt, Sized
<1>2. EntryInv /\ CreditInv /\ LedgerInv /\ [Next]_vars => LedgerInv'
  BY LedgerInvStep
<1>3. EntryInv /\ CreditInv /\ LedgerInv /\ [Next]_vars => [Ledger!Next]_(Ledger!ledgerVars)
  BY LedgerStep
<1> QED
  BY <1>1, <1>2, <1>3, LedgerStarts, EntryInvariant, CreditInvariant, PTL
     DEF Spec, Implements, Ledger!Spec

=============================================================================
