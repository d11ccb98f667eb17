------------------------- MODULE BalanceFlows_proofs -------------------------
(***************************************************************************)
(* Proofs about the balance deals: for any deals and any margin the equity *)
(* monitor and the risk gate miss none, nothing but the sync of startup     *)
(* parts a deal the monitor counted from its money, and the gate loses none *)
(* as long as one thread uses it.                                          *)
(***************************************************************************)
EXTENDS RiskGate, EquityMonitor, TLAPS

PostedTyped == posted \in [Deal -> Int \cup {NoTime}]

-----------------------------------------------------------------------------
(* The cursor.                                                             *)

\* The outcomes of a look, as facts about each.
LEMMA LookCases ==
  ASSUME NEW c \in Cursor, NEW at, NEW look \in Looks(c, at)
  PROVE  \/ look.cursor = c /\ look.flow = {}
         \/ /\ c.since = NoTime /\ look.flow = {}
            /\ look.cursor = [c EXCEPT !.since = at, !.old = Posted]
         \/ /\ c.since = NoTime /\ look.flow = {}
            /\ look.cursor = [c EXCEPT !.since = at, !.old = Posted, !.tickets = @ \cup Reread(c, at)]
         \/ /\ c.since # NoTime /\ look.flow = Reread(c, at) \ c.tickets
            /\ look.cursor = [c EXCEPT !.since = at, !.tickets = @ \cup Reread(c, at)]
<1>1. CASE c.since = NoTime
  <2>1. [[c EXCEPT !.since = at, !.old = IF TRUE THEN Posted ELSE @] EXCEPT !.tickets = @ \cup Reread(c, at)]
          = [c EXCEPT !.since = at, !.old = Posted, !.tickets = @ \cup Reread(c, at)]
    BY DEF Cursor
  <2> QED
    BY <1>1, <2>1 DEF Looks
<1>2. CASE c.since # NoTime
  <2>1. [[c EXCEPT !.since = at, !.old = IF FALSE THEN Posted ELSE @] EXCEPT !.tickets = @ \cup Reread(c, at)]
          = [c EXCEPT !.since = at, !.tickets = @ \cup Reread(c, at)]
    BY DEF Cursor
  <2> QED
    BY <1>2, <2>1 DEF Looks
<1> QED
  BY <1>1, <1>2

\* A look counts only posted deals, leaves the others in sight of the next one,
\* and hands out whatever it newly counts.
LEMMA LookSound ==
  ASSUME PostedTyped, NEW c \in Cursor, NEW at \in Int, InSight(c), NotAhead(c),
         NEW look \in Looks(c, at)
  PROVE  /\ look.cursor \in Cursor /\ look.flow \subseteq Posted
         /\ InSight(look.cursor)
         /\ look.cursor.tickets \subseteq Posted
         /\ look.cursor.since \in {c.since, at}
         /\ look.cursor.tickets \ look.cursor.old \subseteq (c.tickets \ c.old) \cup look.flow
         /\ look.flow \subseteq look.cursor.tickets
<1>0. Reread(c, at) \subseteq Posted /\ Posted \subseteq Deal
  BY DEF Reread, Posted
<1>1. CASE look.cursor = c /\ look.flow = {}
  BY <1>1 DEF NotAhead
<1>2. CASE /\ c.since = NoTime /\ look.flow = {}
           /\ look.cursor = [c EXCEPT !.since = at, !.old = Posted]
  BY <1>0, <1>2 DEF Cursor, InSight, NotAhead
<1>3. CASE /\ c.since = NoTime /\ look.flow = {}
           /\ look.cursor = [c EXCEPT !.since = at, !.old = Posted, !.tickets = @ \cup Reread(c, at)]
  BY <1>0, <1>3 DEF Cursor, InSight, NotAhead
<1>4. CASE /\ c.since # NoTime /\ look.flow = Reread(c, at) \ c.tickets
           /\ look.cursor = [c EXCEPT !.since = at, !.tickets = @ \cup Reread(c, at)]
  <2>1. /\ look.cursor \in Cursor /\ look.cursor.since = at /\ look.cursor.old = c.old
        /\ look.cursor.tickets = c.tickets \cup Reread(c, at)
    BY <1>0, <1>4 DEF Cursor
  <2>2. ASSUME NEW d \in Posted, d \notin look.cursor.tickets \cup look.cursor.old
        PROVE  posted[d] >= at - Margin
    <3>1. posted[d] >= c.since - Margin
      BY <1>4, <2>1, <2>2 DEF InSight
    <3>2. d \notin Reread(c, at)
      BY <2>1, <2>2
    <3>3. posted[d] \in Int /\ c.since \in Int /\ Margin \in Nat
      BY <1>4, FlowAssumption DEF PostedTyped, Posted, Cursor
    <3>4. ~ (posted[d] >= c.since - Margin /\ posted[d] <= at + Margin)
      BY <1>4, <3>2, <2>2 DEF Reread
    <3> QED
      BY <3>1, <3>3, <3>4
  <2>3. InSight(look.cursor)
    BY <2>1, <2>2 DEF InSight
  <2> QED
    BY <1>0, <1>4, <2>1, <2>3 DEF NotAhead
<1> QED
  BY <1>1, <1>2, <1>3, <1>4, LookCases

\* Time and a newly posted deal leave every sound cursor sound.
LEMMA AccountSound ==
  ASSUME PostedTyped, now \in Nat, AccountStep
  PROVE  /\ PostedTyped' /\ now' \in Nat /\ now <= now' /\ Posted \subseteq Posted'
         /\ \A c \in Cursor : InSight(c) /\ NotAhead(c) => InSight(c)' /\ NotAhead(c)'
<1>1. CASE Tick
  <2>1. now' = now + 1 /\ posted' = posted
    BY <1>1 DEF Tick
  <2>2. Posted' = Posted
    BY <2>1 DEF Posted
  <2>3. ASSUME NEW c \in Cursor, InSight(c), NotAhead(c)
        PROVE  InSight(c)' /\ NotAhead(c)'
    <3>1. InSight(c)'
      BY <2>1, <2>2, <2>3 DEF InSight
    <3>2. c.since # NoTime => c.since \in Int /\ c.since <= now + 1
      BY <2>3 DEF Cursor, NotAhead
    <3> QED
      BY <2>1, <2>2, <2>3, <3>1, <3>2 DEF NotAhead
  <2> QED
    BY <2>1, <2>2, <2>3 DEF PostedTyped
<1>2. ASSUME NEW d \in Deal, Post(d)
      PROVE  /\ PostedTyped' /\ now' \in Nat /\ now <= now' /\ Posted \subseteq Posted'
             /\ \A c \in Cursor : InSight(c) /\ NotAhead(c) => InSight(c)' /\ NotAhead(c)'
  <2>1. PICK stamp \in (now - Margin)..now : posted' = [posted EXCEPT ![d] = stamp]
    BY <1>2 DEF Post
  <2>2. posted[d] = NoTime /\ now' = now /\ stamp \in Int /\ stamp >= now - Margin /\ Margin \in Nat
    BY <1>2, <2>1, FlowAssumption DEF Post
  <2>3. stamp # NoTime
    BY <2>2, FlowAssumption
  <2>4. Posted' = Posted \cup {d} /\ \A e \in Posted : posted'[e] = posted[e]
    BY <2>1, <2>2, <2>3 DEF Posted, PostedTyped
  <2>5. PostedTyped'
    BY <2>1, <2>2 DEF PostedTyped
  <2>6. ASSUME NEW c \in Cursor, InSight(c), NotAhead(c)
        PROVE  InSight(c)' /\ NotAhead(c)'
    <3>1. posted'[d] = stamp
      BY <2>1 DEF PostedTyped
    <3>2. c.since # NoTime => c.since \in Int /\ c.since <= now
      BY <2>6 DEF Cursor, NotAhead
    <3>3. c.since # NoTime => stamp >= c.since - Margin
      BY <2>2, <3>2
    <3>4. InSight(c)'
      BY <2>4, <2>6, <3>1, <3>3 DEF InSight
    <3> QED
      BY <2>2, <2>4, <2>6, <3>4 DEF NotAhead
  <2> QED
    BY <2>2, <2>4, <2>5, <2>6
<1> QED
  BY <1>1, <1>2 DEF AccountStep

\* Money: what the bags of deals add up to.
LEMMA MoneyFacts ==
  /\ Zero \in Money
  /\ \A S : Each(S) \in Money
  /\ \A a, b \in Money : Plus(a, b) \in Money
  /\ \A a, b \in Money, d \in Deal : Plus(a, b)[d] = a[d] + b[d] /\ a[d] \in Nat
  /\ \A S : \A d \in Deal : Each(S)[d] = IF d \in S THEN 1 ELSE 0
  /\ \A d \in Deal : Zero[d] = 0
  BY DEF Money, Zero, Each, Plus

-----------------------------------------------------------------------------
(* The equity monitor.                                                     *)

LEMMA MonitorStart == MonitorInit => MonitorInv
<1> SUFFICES ASSUME MonitorInit PROVE MonitorInv
  OBVIOUS
<1>1. NewCursor \in Cursor /\ NewCursor.tickets = {} /\ NewCursor.since = NoTime
  BY DEF NewCursor, Cursor
<1>2. monitor \in Books /\ monitor.cursor = NewCursor
  BY <1>1, MoneyFacts DEF MonitorInit, Books
<1>3. posted \in [Deal -> Int \cup {NoTime}] /\ file = NoTime /\ read = {} /\ now = 0 /\ loop = "start"
  BY DEF MonitorInit
<1>4. MonitorTypeOK
  BY <1>2, <1>3 DEF MonitorTypeOK
<1> QED
  BY <1>1, <1>2, <1>3, <1>4 DEF MonitorInv, NothingMissed, InSight, NotAhead

\* A step of the monitor leaves the account alone: what is left to show is that
\* the new books are sound.
LEMMA BooksSound ==
  ASSUME MonitorInv, UNCHANGED <<now, posted>>, MonitorTypeOK',
         NotAhead(monitor'.cursor), InSight(monitor'.cursor),
         file' # NoTime => NotAhead(file'.cursor) /\ InSight(file'.cursor),
         read' \subseteq Posted
  PROVE  MonitorInv'
<1>1. Posted' = Posted
  BY DEF Posted
<1> QED
  BY <1>1 DEF MonitorInv, NothingMissed, InSight, NotAhead

\* Every step of the main thread keeps the monitor and its file sound.
LEMMA MonitorStepSound ==
  ASSUME MonitorInv, MonitorStep
  PROVE  MonitorInv'
<1> USE DEF MonitorInv, MonitorTypeOK, NothingMissed
<1>0. /\ PostedTyped /\ now \in Nat /\ now \in Int /\ monitor \in Books /\ monitor.cursor \in Cursor
      /\ monitor.peak \in Money /\ Posted \subseteq Deal
  BY DEF PostedTyped, Books, Posted
<1>1. CASE ReadEquity
  <2>1. NewCursor \in Cursor /\ NewCursor.tickets = {} /\ NewCursor.since = NoTime
    BY DEF NewCursor, Cursor
  <2>2. monitor' = [cursor |-> NewCursor, peak |-> Each(Posted)] /\ monitor' \in Books
    BY <1>1, <2>1, MoneyFacts DEF ReadEquity, Books
  <2>3. MonitorTypeOK'
    BY <1>0, <1>1, <2>2 DEF ReadEquity
  <2> QED
    BY <1>1, <2>1, <2>2, <2>3, BooksSound DEF ReadEquity, NotAhead, InSight
<1>2. ASSUME NEW usable \in BOOLEAN, LoadMonitor(usable)
      PROVE  MonitorInv'
  <2>1. monitor' \in Books /\ (monitor' = monitor \/ (file # NoTime /\ monitor' = file))
    BY <1>0, <1>2 DEF LoadMonitor
  <2>2. MonitorTypeOK'
    BY <1>2, <2>1 DEF LoadMonitor
  <2> QED
    BY <1>2, <2>1, <2>2, BooksSound DEF LoadMonitor
<1>3. ASSUME NEW higher \in BOOLEAN, ApplyFlows(higher)
      PROVE  MonitorInv'
  <2>1. PICK look \in Looks(monitor.cursor, now) :
          monitor' = [cursor |-> look.cursor,
                      peak |-> IF higher /\ look.flow # {} THEN Each(Posted)
                                                          ELSE Plus(monitor.peak, Each(look.flow))]
    BY <1>3 DEF ApplyFlows
  <2>2. /\ look.cursor \in Cursor /\ look.flow \subseteq Posted /\ InSight(look.cursor)
        /\ look.cursor.tickets \subseteq Posted /\ look.cursor.since \in {monitor.cursor.since, now}
        /\ look.cursor.tickets \ look.cursor.old \subseteq (monitor.cursor.tickets \ monitor.cursor.old) \cup look.flow
    BY <1>0, LookSound
  <2>3. monitor' \in Books
    BY <1>0, <2>1, <2>2, MoneyFacts DEF Books
  <2>4. NotAhead(look.cursor)
    BY <1>0, <2>2 DEF NotAhead
  <2>5. MonitorTypeOK'
    BY <1>3, <2>3 DEF ApplyFlows
  <2> QED
    BY <1>3, <2>1, <2>2, <2>4, <2>5, BooksSound DEF ApplyFlows
<1>4. ASSUME NEW higher \in BOOLEAN, SyncEquity(higher)
      PROVE  MonitorInv'
  <2>1. monitor' \in Books /\ monitor'.cursor = monitor.cursor
    BY <1>0, <1>4, MoneyFacts DEF SyncEquity, Books
  <2>2. MonitorTypeOK'
    BY <1>4, <2>1 DEF SyncEquity
  <2> QED
    BY <1>4, <2>1, <2>2, BooksSound DEF SyncEquity
<1>5. CASE SaveMonitor
  <2>1. file' = file \/ file' = monitor
    BY <1>5 DEF SaveMonitor
  <2>2. MonitorTypeOK'
    BY <1>0, <1>5, <2>1 DEF SaveMonitor
  <2> QED
    BY <1>5, <2>1, <2>2, BooksSound DEF SaveMonitor
<1>6. ASSUME NEW higher \in BOOLEAN, UpdateEquity(higher)
      PROVE  MonitorInv'
  <2>1. monitor' \in Books /\ monitor'.cursor = monitor.cursor
    BY <1>0, <1>6, MoneyFacts DEF UpdateEquity, Books
  <2>2. MonitorTypeOK'
    BY <1>6, <2>1 DEF UpdateEquity
  <2> QED
    BY <1>6, <2>1, <2>2, BooksSound DEF UpdateEquity
<1>7. CASE RestartMonitor
  <2>1. MonitorTypeOK'
    BY <1>7 DEF RestartMonitor
  <2> QED
    BY <1>7, <2>1, BooksSound DEF RestartMonitor
<1> QED
  BY <1>1, <1>2, <1>3, <1>4, <1>5, <1>6, <1>7 DEF MonitorStep

LEMMA MonitorNextSound == MonitorInv /\ [MonitorNext]_monitorVars => MonitorInv'
<1> SUFFICES ASSUME MonitorInv, [MonitorNext]_monitorVars PROVE MonitorInv'
  OBVIOUS
<1>1. CASE MonitorStep
  BY <1>1, MonitorStepSound
<1>2. CASE AccountStep /\ UNCHANGED <<monitor, file, loop, read>>
  <2>1. /\ PostedTyped /\ now \in Nat /\ monitor \in Books /\ monitor.cursor \in Cursor
        /\ (file # NoTime => file \in Books /\ file.cursor \in Cursor)
    BY DEF MonitorInv, MonitorTypeOK, PostedTyped, Books
  <2>2. /\ PostedTyped' /\ now' \in Nat /\ Posted \subseteq Posted'
        /\ \A c \in Cursor : InSight(c) /\ NotAhead(c) => InSight(c)' /\ NotAhead(c)'
    BY <1>2, <2>1, AccountSound
  <2>3. MonitorTypeOK'
    BY <1>2, <2>2 DEF MonitorInv, MonitorTypeOK, PostedTyped
  <2>4. InSight(monitor.cursor)' /\ NotAhead(monitor.cursor)'
    BY <1>2, <2>1, <2>2 DEF MonitorInv, NothingMissed, InSight, NotAhead
  <2>5. file # NoTime => InSight(file.cursor)' /\ NotAhead(file.cursor)'
    BY <1>2, <2>1, <2>2 DEF MonitorInv, NothingMissed, InSight, NotAhead
  <2> QED
    BY <1>2, <2>2, <2>3, <2>4, <2>5 DEF MonitorInv, NothingMissed
<1>3. CASE UNCHANGED monitorVars
  BY <1>3 DEF monitorVars, MonitorInv, MonitorTypeOK, NothingMissed, InSight, NotAhead, Posted
<1> QED
  BY <1>1, <1>2, <1>3 DEF MonitorNext

\* The monitor's books stay sound whatever the reads, saves and crashes.
THEOREM MonitorInvariant == MonitorSpec => []MonitorInv
<1> QED
  BY MonitorStart, MonitorNextSound, PTL DEF MonitorSpec

\* Neither a failed look nor a crash steps over a deal (balance_flows.py:51).
THEOREM NoDealMissed == MonitorSpec => []NothingMissed
<1>1. MonitorInv => NothingMissed
  BY DEF MonitorInv
<1> QED
  BY <1>1, MonitorInvariant, PTL

\* The money an equity or a shifted peak holds.
LEMMA MoneyHeld ==
  /\ \A S : \A d \in S \cap Deal : Each(S)[d] # 0
  /\ \A a \in Money : \A S : \A d \in Deal :
       Plus(a, Each(S))[d] = 0 => a[d] = 0 /\ d \notin S
BY DEF Money, Each, Plus

\* Apart from the sync of startup, whatever the monitor newly marks as counted is
\* in its new peak, or was missing before, or is missing on file.
LEMMA MissingStep ==
  ASSUME MonitorInv, MonitorStep, ~ \E higher \in BOOLEAN : SyncEquity(higher)
  PROVE  Missing(monitor') \subseteq Missing(monitor) \cup MissingOnFile
<1> USE DEF Missing
<1>0. /\ PostedTyped /\ now \in Int /\ monitor \in Books /\ monitor.cursor \in Cursor
      /\ monitor.peak \in Money /\ Posted \subseteq Deal
      /\ monitor.cursor.tickets \subseteq Posted /\ monitor.cursor.tickets \subseteq Deal
      /\ InSight(monitor.cursor) /\ NotAhead(monitor.cursor)
  BY DEF MonitorInv, MonitorTypeOK, NothingMissed, PostedTyped, Books, Posted, NotAhead
<1>1. CASE ReadEquity
  <2>1. monitor'.cursor.tickets = {}
    BY <1>1 DEF ReadEquity, NewCursor
  <2> QED
    BY <2>1
<1>2. ASSUME NEW usable \in BOOLEAN, LoadMonitor(usable)
      PROVE  Missing(monitor') \subseteq Missing(monitor) \cup MissingOnFile
  BY <1>2 DEF LoadMonitor, MissingOnFile
<1>3. ASSUME NEW higher \in BOOLEAN, ApplyFlows(higher)
      PROVE  Missing(monitor') \subseteq Missing(monitor)
  <2>1. PICK look \in Looks(monitor.cursor, now) :
          monitor' = [cursor |-> look.cursor,
                      peak |-> IF higher /\ look.flow # {} THEN Each(Posted)
                                                          ELSE Plus(monitor.peak, Each(look.flow))]
    BY <1>3 DEF ApplyFlows
  <2>2. /\ look.cursor.tickets \subseteq Posted
        /\ look.cursor.tickets \ look.cursor.old
             \subseteq (monitor.cursor.tickets \ monitor.cursor.old) \cup look.flow
    BY <1>0, LookSound
  <2>3. ASSUME NEW d \in Missing(monitor')
        PROVE  d \in Missing(monitor)
    <3>1. /\ d \in look.cursor.tickets \ look.cursor.old /\ d \in Posted /\ d \in Deal
          /\ monitor'.peak[d] = 0
      BY <1>0, <2>1, <2>2, <2>3
    <3>2. monitor'.peak = Plus(monitor.peak, Each(look.flow))
      BY <2>1, <3>1, MoneyHeld
    <3>3. monitor.peak[d] = 0 /\ d \notin look.flow
      BY <1>0, <3>1, <3>2, MoneyHeld
    <3> QED
      BY <2>2, <3>1, <3>3
  <2> QED
    BY <2>3
<1>4. CASE SaveMonitor \/ RestartMonitor
  BY <1>4 DEF SaveMonitor, RestartMonitor
<1>5. ASSUME NEW higher \in BOOLEAN, UpdateEquity(higher)
      PROVE  Missing(monitor') \subseteq Missing(monitor)
  <2>1. /\ monitor'.cursor = monitor.cursor
        /\ monitor'.peak = IF higher THEN Each(Posted) ELSE monitor.peak
    BY <1>0, <1>5 DEF UpdateEquity, Books
  <2> QED
    BY <1>0, <2>1, MoneyHeld
<1> QED
  BY <1>1, <1>2, <1>3, <1>4, <1>5 DEF MonitorStep

\* The sync of startup loses no deal that was in the equity it is given.
LEMMA MissingAfterSync ==
  ASSUME MonitorInv, NEW higher \in BOOLEAN, SyncEquity(higher)
  PROVE  Missing(monitor') \subseteq Missing(monitor) \cup (Posted \ read)
<1>1. /\ monitor \in Books /\ Posted \subseteq Deal /\ monitor.cursor.tickets \subseteq Posted
  BY DEF MonitorInv, MonitorTypeOK, Posted, NotAhead
<1>2. /\ monitor'.cursor = monitor.cursor
      /\ monitor'.peak = IF higher THEN Each(read) ELSE monitor.peak
  BY <1>1 DEF SyncEquity, Books
<1> QED
  BY <1>1, <1>2, MoneyHeld DEF Missing

\* Of all the steps of the main thread, over any looks, saves and crashes, only the
\* sync of startup parts a counted deal from its money, and only a deal posted
\* after the equity it is given was read (main.py:168-184).
THEOREM PeakStaysPaired == MonitorSpec => OnlySyncLosesMoney
<1> DEFINE Kept == /\ Missing(monitor') \subseteq
                        Missing(monitor) \cup MissingOnFile
                          \cup (IF loop = "sync" THEN Posted \ read ELSE {})
                   /\ MissingOnFile' \subseteq MissingOnFile \cup Missing(monitor)
<1>1. MonitorInv /\ [MonitorNext]_monitorVars => [Kept]_monitorVars
  <2> SUFFICES ASSUME MonitorInv, MonitorNext PROVE Kept
    BY DEF monitorVars
  <2>1. CASE AccountStep /\ UNCHANGED <<monitor, file, loop, read>>
    BY <2>1 DEF MissingOnFile, Missing
  <2>2. CASE MonitorStep
    <3>1. MissingOnFile' \subseteq MissingOnFile \cup Missing(monitor)
      <4>1. file' \in {file, monitor}
        BY <2>2 DEF MonitorStep, ReadEquity, LoadMonitor, ApplyFlows, SyncEquity, SaveMonitor,
              UpdateEquity, RestartMonitor
      <4> QED
        BY <4>1 DEF MissingOnFile, Missing
    <3>2. CASE \E higher \in BOOLEAN : SyncEquity(higher)
      <4>1. loop = "sync"
        BY <3>2 DEF SyncEquity
      <4> QED
        BY <3>1, <3>2, <4>1, MissingAfterSync
    <3>3. CASE ~ \E higher \in BOOLEAN : SyncEquity(higher)
      BY <2>2, <3>1, <3>3, MissingStep
    <3> QED
      BY <3>2, <3>3
  <2> QED
    BY <2>1, <2>2 DEF MonitorNext
<1>2. MonitorSpec => [][Kept]_monitorVars
  BY <1>1, MonitorInvariant, PTL DEF MonitorSpec
<1> QED
  BY <1>2 DEF OnlySyncLosesMoney

-----------------------------------------------------------------------------
(* The risk gate: where a check moves to.                                  *)

CheckRecord == [at : Places, now : Nat, pending : Money, equity : SUBSET Deal]

\* What a step of thread t does to the checks: it stays a well-formed check with
\* a time and an equity of the past.
Moved(t) ==
  /\ check' \in [GateThread -> CheckRecord]
  /\ \A u \in GateThread : u # t => check'[u] = check[u]
  /\ check'[t].now <= now /\ check'[t].equity \subseteq Posted

LEMMA GotoMoves ==
  ASSUME GateInv, NEW t \in GateThread, NEW place \in Places, Goto(t, place)
  PROVE  /\ Moved(t) /\ check'[t].at = place /\ check'[t].now = check[t].now
         /\ check'[t].pending = check[t].pending /\ check'[t].equity = check[t].equity
<1>1. check[t] \in CheckRecord /\ check \in [GateThread -> CheckRecord]
  BY DEF GateInv, GateTypeOK, CheckRecord
<1>2. check'[t] = [check[t] EXCEPT !.at = place] /\ \A u \in GateThread : u # t => check'[u] = check[u]
  BY <1>1 DEF Goto
<1>3. [check[t] EXCEPT !.at = place] \in CheckRecord
  BY <1>1 DEF CheckRecord
<1>4. check' \in [GateThread -> CheckRecord]
  BY <1>1, <1>3 DEF Goto
<1>5. check'[t].at = place /\ check'[t].now = check[t].now
      /\ check'[t].pending = check[t].pending /\ check'[t].equity = check[t].equity
  BY <1>1, <1>2 DEF CheckRecord
<1> QED
  BY <1>2, <1>4, <1>5 DEF Moved, GateInv

LEMMA LeaveMoves ==
  ASSUME GateInv, NEW t \in GateThread, Leave(t)
  PROVE  Moved(t) /\ check'[t].at = "idle"
<1>1. check \in [GateThread -> CheckRecord] /\ now \in Nat
  BY DEF GateInv, GateTypeOK, CheckRecord
<1>2. Idle \in CheckRecord /\ Idle.at = "idle" /\ Idle.now = 0 /\ Idle.equity = {}
  BY MoneyFacts DEF CheckRecord, Idle, Places
<1>3. check'[t] = Idle /\ \A u \in GateThread : u # t => check'[u] = check[u]
  BY <1>1 DEF Leave
<1>4. check' \in [GateThread -> CheckRecord]
  BY <1>1, <1>2 DEF Leave
<1> QED
  BY <1>1, <1>2, <1>3, <1>4 DEF Moved

\* What has to be shown of a step of a check.
LEMMA GateFrame ==
  ASSUME GateInv, NEW t \in GateThread, UNCHANGED <<now, posted>>, Moved(t),
         gate' \in [cursor : Cursor, pending : Money, peak : Money \cup {NoTime}],
         cooldownUntil' \in Int \cup {NoTime},
         InSight(gate'.cursor), NotAhead(gate'.cursor)
  PROVE  GateInv'
<1>1. Posted' = Posted
  BY DEF Posted
<1>2. GateTypeOK'
  BY DEF GateInv, GateTypeOK, Moved, CheckRecord
<1>3. GateMissesNothing' /\ NotAhead(gate.cursor)'
  BY <1>1 DEF GateMissesNothing, InSight, NotAhead
<1>4. \A u \in GateThread : (check[u].now <= now /\ check[u].equity \subseteq Posted)'
  BY <1>1 DEF GateInv, Moved
<1> QED
  BY <1>2, <1>3, <1>4 DEF GateInv

\* A step that touches neither the gate nor the cooldown's type.
LEMMA GateKept ==
  ASSUME GateInv, NEW t \in GateThread, UNCHANGED <<now, posted, gate>>, Moved(t),
         cooldownUntil' \in Int \cup {NoTime}
  PROVE  GateInv'
  BY GateFrame DEF GateInv, GateTypeOK, GateMissesNothing

\* What one thread keeps while it is alone.
Alone(t) == FlowsKept(t) /\ CooldownSeen(t)

GateFacts ==
  /\ gate \in [cursor : Cursor, pending : Money, peak : Money \cup {NoTime}]
  /\ gate.cursor \in Cursor /\ gate.pending \in Money /\ gate.peak \in Money \cup {NoTime}
  /\ cooldownUntil \in Int \cup {NoTime} /\ now \in Nat /\ PostedTyped
  /\ Posted \subseteq Deal /\ CooldownTime \in Nat

LEMMA GateFactsHold == GateInv => GateFacts
  BY GateAssumption DEF GateInv, GateTypeOK, PostedTyped, Posted, GateFacts

-----------------------------------------------------------------------------
(* The risk gate: every step.                                              *)

\* Every step of a check keeps the gate's cursor sound, and when the thread is
\* alone, also the money of what it counted.
LEMMA CheckStepSound ==
  ASSUME GateInv, NEW t \in GateThread, CheckStep(t)
  PROVE  GateInv' /\ (Alone(t) => Alone(t)')
<1>0. GateFacts /\ check[t] \in CheckRecord /\ check \in [GateThread -> CheckRecord] /\ check[t].now <= now
  BY GateFactsHold DEF GateInv, GateTypeOK, CheckRecord
<1> USE DEF GateFacts
<1>1. ASSUME BeginCheck(t)
      PROVE  GateInv' /\ (Alone(t) => Alone(t)')
  <2>1. [check[t] EXCEPT !.at = "cooldown", !.now = now] \in CheckRecord
    BY <1>0 DEF CheckRecord, Places
  <2>2. /\ check' = [check EXCEPT ![t] = [check[t] EXCEPT !.at = "cooldown", !.now = now]]
        /\ UNCHANGED <<now, posted, gate, cooldownUntil>>
    BY <1>1 DEF BeginCheck
  <2>3. /\ check'[t].at = "cooldown" /\ check'[t].now = now /\ check'[t].equity = check[t].equity
        /\ check' \in [GateThread -> CheckRecord] /\ \A u \in GateThread : u # t => check'[u] = check[u]
    BY <1>0, <2>1, <2>2 DEF CheckRecord
  <2>4. Moved(t)
    BY <1>0, <2>3 DEF Moved, GateInv
  <2>5. check[t].at = "idle"
    BY <1>1 DEF BeginCheck
  <2>6. GateInv'
    BY <1>0, <2>2, <2>4, GateKept
  <2>7. Alone(t) => Alone(t)'
    BY <2>2, <2>3, <2>5 DEF Alone, FlowsKept, CooldownSeen, Counted
  <2> QED
    BY <2>6, <2>7
<1>2. ASSUME TestCooldown(t)
      PROVE  GateInv' /\ (Alone(t) => Alone(t)')
  <2>1. check[t].at = "cooldown" /\ UNCHANGED <<now, posted, gate, cooldownUntil>>
    BY <1>2 DEF TestCooldown
  <2>2. ASSUME Goto(t, "losses"), cooldownUntil = NoTime
        PROVE  GateInv' /\ (Alone(t) => Alone(t)')
    <3>1. Moved(t) /\ check'[t].at = "losses"
      BY <2>2, GotoMoves DEF Places
    <3>2. GateInv'
      BY <1>0, <2>1, <3>1, GateKept
    <3>3. Alone(t) => Alone(t)'
      BY <2>1, <2>2, <3>1 DEF Alone, FlowsKept, CooldownSeen, Counted
    <3> QED
      BY <3>2, <3>3
  <2>3. ASSUME Leave(t)
        PROVE  GateInv' /\ (Alone(t) => Alone(t)')
    <3>1. Moved(t) /\ check'[t].at = "idle"
      BY <2>3, LeaveMoves
    <3>2. GateInv'
      BY <1>0, <2>1, <3>1, GateKept
    <3>3. Alone(t) => Alone(t)'
      BY <2>1, <3>1 DEF Alone, FlowsKept, CooldownSeen, Counted
    <3> QED
      BY <3>2, <3>3
  <2>4. ASSUME Goto(t, "clear"), cooldownUntil # NoTime, ~ (check[t].now < cooldownUntil)
        PROVE  GateInv' /\ (Alone(t) => Alone(t)')
    <3>1. Moved(t) /\ check'[t].at = "clear" /\ check'[t].now = check[t].now
      BY <2>4, GotoMoves DEF Places
    <3>2. GateInv'
      BY <1>0, <2>1, <3>1, GateKept
    <3>3. cooldownUntil \in Int /\ check[t].now \in Int /\ cooldownUntil <= check[t].now
      BY <1>0, <2>4 DEF CheckRecord
    <3>4. Alone(t) => Alone(t)'
      BY <2>1, <2>4, <3>1, <3>3 DEF Alone, FlowsKept, CooldownSeen, Counted
    <3> QED
      BY <3>2, <3>4
  <2> QED
    BY <1>2, <2>2, <2>3, <2>4 DEF TestCooldown
<1>3. ASSUME ClearCooldown(t)
      PROVE  GateInv' /\ (Alone(t) => Alone(t)')
  <2>1. Moved(t) /\ check'[t].at = "losses" /\ check[t].at = "clear"
    BY <1>3, GotoMoves DEF Places, ClearCooldown
  <2>2. cooldownUntil' = NoTime /\ UNCHANGED <<now, posted, gate>>
    BY <1>3 DEF ClearCooldown
  <2>3. GateInv'
    BY <2>1, <2>2, GateKept
  <2>4. Alone(t) => Alone(t)'
    BY <2>1, <2>2 DEF Alone, FlowsKept, CooldownSeen, Counted
  <2> QED
    BY <2>3, <2>4
<1>4. ASSUME NEW tooMany \in BOOLEAN, CountLosses(t, tooMany)
      PROVE  GateInv' /\ (Alone(t) => Alone(t)')
  <2>1. check[t].at = "losses" /\ UNCHANGED <<now, posted, gate>>
    BY <1>4 DEF CountLosses
  <2>2. CASE tooMany
    <3>1. Moved(t) /\ check'[t].at = "idle"
      BY <1>4, <2>2, LeaveMoves DEF CountLosses
    <3>2. cooldownUntil' \in Int
      BY <1>0, <1>4, <2>2 DEF CountLosses, TriggerCooldown, CheckRecord
    <3>3. GateInv'
      BY <2>1, <3>1, <3>2, GateKept
    <3>4. Alone(t) => Alone(t)'
      BY <2>1, <3>1 DEF Alone, FlowsKept, CooldownSeen, Counted
    <3> QED
      BY <3>3, <3>4
  <2>3. CASE ~ tooMany
    <3>1. Moved(t) /\ check'[t].at = "flows" /\ cooldownUntil' = cooldownUntil
      BY <1>4, <2>3, GotoMoves DEF CountLosses, Places
    <3>2. GateInv'
      BY <1>0, <2>1, <3>1, GateKept
    <3>3. Alone(t) => Alone(t)'
      BY <2>1, <3>1 DEF Alone, FlowsKept, CooldownSeen, Counted
    <3> QED
      BY <3>2, <3>3
  <2> QED
    BY <2>2, <2>3
<1>5. ASSUME LoadPending(t)
      PROVE  GateInv' /\ (Alone(t) => Alone(t)')
  <2>1. [check[t] EXCEPT !.at = "poll", !.pending = gate.pending] \in CheckRecord
    BY <1>0 DEF CheckRecord, Places
  <2>2. /\ check' = [check EXCEPT ![t] = [check[t] EXCEPT !.at = "poll", !.pending = gate.pending]]
        /\ UNCHANGED <<now, posted, gate, cooldownUntil>> /\ check[t].at = "flows"
    BY <1>5 DEF LoadPending
  <2>3. /\ check'[t].at = "poll" /\ check'[t].now = check[t].now /\ check'[t].equity = check[t].equity
        /\ check'[t].pending = gate.pending
        /\ check' \in [GateThread -> CheckRecord] /\ \A u \in GateThread : u # t => check'[u] = check[u]
    BY <1>0, <2>1, <2>2 DEF CheckRecord
  <2>4. Moved(t)
    BY <1>0, <2>3 DEF Moved, GateInv
  <2>5. GateInv'
    BY <1>0, <2>2, <2>4, GateKept
  <2>6. Alone(t) => Alone(t)'
    BY <2>2, <2>3 DEF Alone, FlowsKept, CooldownSeen, Counted
  <2> QED
    BY <2>5, <2>6
<1>6. ASSUME PollFlows(t)
      PROVE  GateInv' /\ (Alone(t) => Alone(t)')
  <2>1. PICK look \in Looks(gate.cursor, check[t].now) :
          /\ gate' = [gate EXCEPT !.cursor = look.cursor]
          /\ check' = [check EXCEPT ![t].at = "store", ![t].pending = Plus(@, Each(look.flow))]
    BY <1>6 DEF PollFlows
  <2>2. check[t].at = "poll" /\ UNCHANGED <<now, posted, cooldownUntil>> /\ check[t].pending \in Money
    BY <1>0, <1>6 DEF PollFlows, CheckRecord
  <2>3. /\ look.cursor \in Cursor /\ look.flow \subseteq Posted /\ InSight(look.cursor)
        /\ look.cursor.tickets \subseteq Posted /\ look.cursor.since \in {gate.cursor.since, check[t].now}
        /\ look.cursor.tickets \ look.cursor.old \subseteq (gate.cursor.tickets \ gate.cursor.old) \cup look.flow
    <3>1. check[t].now \in Int /\ InSight(gate.cursor) /\ NotAhead(gate.cursor)
      BY <1>0 DEF CheckRecord, GateInv, GateMissesNothing
    <3> QED
      BY <1>0, <3>1, LookSound
  <2>4. [check[t] EXCEPT !.at = "store", !.pending = Plus(check[t].pending, Each(look.flow))] \in CheckRecord
    BY <1>0, <2>2, MoneyFacts DEF CheckRecord, Places
  <2>5. /\ check'[t].at = "store" /\ check'[t].now = check[t].now /\ check'[t].equity = check[t].equity
        /\ check'[t].pending = Plus(check[t].pending, Each(look.flow))
        /\ check' \in [GateThread -> CheckRecord] /\ \A u \in GateThread : u # t => check'[u] = check[u]
    BY <1>0, <2>1, <2>4 DEF CheckRecord
  <2>6. Moved(t)
    BY <1>0, <2>5 DEF Moved, GateInv
  <2>7. /\ gate' \in [cursor : Cursor, pending : Money, peak : Money \cup {NoTime}]
        /\ gate'.cursor = look.cursor /\ gate'.peak = gate.peak /\ gate'.pending = gate.pending
    BY <1>0, <2>1, <2>3
  <2>8. NotAhead(look.cursor)
    BY <1>0, <2>3 DEF NotAhead, GateInv
  <2>9. GateInv'
    BY <1>0, <2>2, <2>3, <2>6, <2>7, <2>8, GateFrame
  <2>10. ASSUME Alone(t), gate.peak # NoTime
         PROVE  Counted(Plus(gate.peak, check'[t].pending), look.cursor)
    <3>1. SUFFICES ASSUME NEW d \in look.cursor.tickets \ look.cursor.old
                   PROVE  Plus(gate.peak, check'[t].pending)[d] >= 1
      BY DEF Counted
    <3>2. d \in Deal
      BY <1>0, <2>3
    <3>3. gate.peak \in Money /\ gate.peak[d] \in Nat /\ check[t].pending[d] \in Nat /\ Each(look.flow)[d] \in Nat
      BY <1>0, <2>2, <2>10, <3>2 DEF Money, Each
    <3>4. Plus(gate.peak, check'[t].pending)[d] = gate.peak[d] + (check[t].pending[d] + Each(look.flow)[d])
      BY <2>5, <3>2 DEF Plus
    <3>5. CASE d \in look.flow
      BY <3>2, <3>3, <3>4, <3>5 DEF Each
    <3>6. CASE d \notin look.flow
      <4>1. d \in gate.cursor.tickets \ gate.cursor.old
        BY <2>3, <3>1, <3>6
      <4>2. Plus(gate.peak, gate.pending)[d] >= 1 /\ check[t].pending = gate.pending
        BY <2>2, <2>10, <4>1 DEF Alone, FlowsKept, Counted
      <4>3. gate.peak[d] + check[t].pending[d] >= 1
        BY <3>2, <4>2 DEF Plus
      <4> QED
        BY <3>3, <3>4, <4>3
    <3> QED
      BY <3>5, <3>6
  <2>11. Alone(t) => Alone(t)'
    BY <2>2, <2>5, <2>7, <2>10 DEF Alone, FlowsKept, CooldownSeen, Counted
  <2> QED
    BY <2>9, <2>11
<1>7. ASSUME StorePending(t)
      PROVE  GateInv' /\ (Alone(t) => Alone(t)')
  <2>1. Moved(t) /\ check'[t].at = "account" /\ check[t].at = "store" /\ check'[t].pending = check[t].pending
    BY <1>7, GotoMoves DEF Places, StorePending
  <2>2. /\ UNCHANGED <<now, posted, cooldownUntil>>
        /\ gate' \in [cursor : Cursor, pending : Money, peak : Money \cup {NoTime}]
        /\ gate'.cursor = gate.cursor /\ gate'.peak = gate.peak /\ gate'.pending = check[t].pending
    BY <1>0, <1>7 DEF StorePending, CheckRecord
  <2>3. GateInv'
    BY <1>0, <2>1, <2>2, GateFrame DEF GateInv, GateMissesNothing
  <2>4. Alone(t) => Alone(t)'
    BY <2>1, <2>2 DEF Alone, FlowsKept, CooldownSeen, Counted
  <2> QED
    BY <2>3, <2>4
<1>8. ASSUME NEW answers \in BOOLEAN, ReadAccount(t, answers)
      PROVE  GateInv' /\ (Alone(t) => Alone(t)')
  <2>1. check[t].at = "account" /\ UNCHANGED <<now, posted, gate, cooldownUntil>>
    BY <1>8 DEF ReadAccount
  <2>2. CASE answers
    <3>1. check' = [check EXCEPT ![t] = [check[t] EXCEPT !.at = "shift", !.equity = Posted]]
      BY <1>8, <2>2 DEF ReadAccount
    <3>2. [check[t] EXCEPT !.at = "shift", !.equity = Posted] \in CheckRecord
      BY <1>0 DEF CheckRecord, Places
    <3>3. /\ check'[t].at = "shift" /\ check'[t].now = check[t].now /\ check'[t].equity = Posted
          /\ check' \in [GateThread -> CheckRecord] /\ \A u \in GateThread : u # t => check'[u] = check[u]
      BY <1>0, <3>1, <3>2 DEF CheckRecord
    <3>4. Moved(t)
      BY <1>0, <3>3 DEF Moved
    <3>5. GateInv'
      BY <1>0, <2>1, <3>4, GateKept
    <3>6. Alone(t) => Alone(t)'
      BY <2>1, <3>3 DEF Alone, FlowsKept, CooldownSeen, Counted, GateInv, NotAhead
    <3> QED
      BY <3>5, <3>6
  <2>3. CASE ~ answers
    <3>1. Moved(t) /\ check'[t].at = "idle"
      BY <1>8, <2>3, LeaveMoves DEF ReadAccount
    <3>2. GateInv'
      BY <1>0, <2>1, <3>1, GateKept
    <3>3. Alone(t) => Alone(t)'
      BY <2>1, <3>1 DEF Alone, FlowsKept, CooldownSeen, Counted
    <3> QED
      BY <3>2, <3>3
  <2> QED
    BY <2>2, <2>3
<1>9. ASSUME ShiftPeak(t)
      PROVE  GateInv' /\ (Alone(t) => Alone(t)')
  <2>1. Moved(t) /\ check'[t].at = "reset" /\ check[t].at = "shift" /\ check'[t].equity = check[t].equity
    BY <1>9, GotoMoves DEF Places, ShiftPeak
  <2>2. /\ UNCHANGED <<now, posted, cooldownUntil>>
        /\ gate'.cursor = gate.cursor /\ gate'.pending = gate.pending
        /\ gate'.peak = IF gate.peak = NoTime THEN gate.peak ELSE Plus(gate.peak, gate.pending)
    BY <1>0, <1>9 DEF ShiftPeak
  <2>3. gate.peak # NoTime => Plus(gate.peak, gate.pending) \in Money
    BY <1>0, MoneyFacts
  <2>4. gate' \in [cursor : Cursor, pending : Money, peak : Money \cup {NoTime}]
    BY <1>0, <1>9, <2>3 DEF ShiftPeak
  <2>5. GateInv'
    BY <1>0, <2>1, <2>2, <2>4, GateFrame DEF GateInv, GateMissesNothing
  <2>6. Alone(t) => Alone(t)'
    BY <2>1, <2>2 DEF Alone, FlowsKept, CooldownSeen, Counted
  <2> QED
    BY <2>5, <2>6
<1>10. ASSUME ResetPending(t)
      PROVE  GateInv' /\ (Alone(t) => Alone(t)')
  <2>1. Moved(t) /\ check'[t].at = "peak" /\ check[t].at = "reset" /\ check'[t].equity = check[t].equity
    BY <1>10, GotoMoves DEF Places, ResetPending
  <2>2. /\ UNCHANGED <<now, posted, cooldownUntil>>
        /\ gate' \in [cursor : Cursor, pending : Money, peak : Money \cup {NoTime}]
        /\ gate'.cursor = gate.cursor /\ gate'.peak = gate.peak
    BY <1>0, <1>10, MoneyFacts DEF ResetPending
  <2>3. GateInv'
    BY <1>0, <2>1, <2>2, GateFrame DEF GateInv, GateMissesNothing
  <2>4. Alone(t) => Alone(t)'
    BY <2>1, <2>2 DEF Alone, FlowsKept, CooldownSeen, Counted
  <2> QED
    BY <2>3, <2>4
<1>11. ASSUME NEW higher \in BOOLEAN, NEW exceeded \in BOOLEAN, RaisePeak(t, higher, exceeded)
       PROVE  GateInv' /\ (Alone(t) => Alone(t)')
  <2>1. Moved(t) /\ check'[t].at = "idle" /\ check[t].at = "peak"
    BY <1>11, LeaveMoves DEF RaisePeak
  <2>2. /\ UNCHANGED <<now, posted>>
        /\ gate' = [gate EXCEPT !.peak = IF gate.peak = NoTime \/ higher THEN Each(check[t].equity) ELSE gate.peak]
    BY <1>11 DEF RaisePeak
  <2>3. /\ gate'.cursor = gate.cursor /\ gate'.pending = gate.pending
        /\ gate'.peak = IF gate.peak = NoTime \/ higher THEN Each(check[t].equity) ELSE gate.peak
        /\ gate' \in [cursor : Cursor, pending : Money, peak : Money \cup {NoTime}]
    BY <1>0, <2>2, MoneyFacts
  <2>4. cooldownUntil' \in Int \cup {NoTime}
    BY <1>0, <1>11 DEF RaisePeak, TriggerCooldown, CheckRecord
  <2>5. GateInv'
    BY <1>0, <2>1, <2>2, <2>3, <2>4, GateFrame DEF GateInv, GateMissesNothing
  <2>6. ASSUME Alone(t) PROVE Counted(Plus(gate'.peak, gate'.pending), gate.cursor)
    <3>1. SUFFICES ASSUME NEW d \in gate.cursor.tickets \ gate.cursor.old
                   PROVE  Plus(gate'.peak, gate'.pending)[d] >= 1
      BY DEF Counted
    <3>2. d \in Deal /\ d \in check[t].equity
      BY <1>0, <2>1, <2>6, <3>1 DEF Alone, FlowsKept, Cursor
    <3>3. Plus(gate'.peak, gate'.pending)[d] = gate'.peak[d] + gate.pending[d] /\ gate.pending[d] \in Nat
      BY <1>0, <2>3, <3>2 DEF Plus, Money
    <3>4. CASE gate.peak = NoTime \/ higher
      BY <2>3, <3>2, <3>3, <3>4 DEF Each
    <3>5. CASE ~ (gate.peak = NoTime \/ higher)
      <4>1. gate.peak[d] >= 1 /\ gate.peak[d] \in Nat /\ gate'.peak = gate.peak
        BY <1>0, <2>1, <2>3, <2>6, <3>1, <3>2, <3>5 DEF Alone, FlowsKept, Counted, Money
      <4> QED
        BY <3>3, <4>1
    <3> QED
      BY <3>4, <3>5
  <2>7. Alone(t) => Alone(t)'
    BY <2>1, <2>3, <2>6 DEF Alone, FlowsKept, CooldownSeen, Counted
  <2> QED
    BY <2>5, <2>7
<1> QED
  BY <1>1, <1>2, <1>3, <1>4, <1>5, <1>6, <1>7, <1>8, <1>9, <1>10, <1>11 DEF CheckStep

-----------------------------------------------------------------------------
(* The risk gate: the theorems.                                            *)

\* A new RiskManager has counted nothing and has no peak.
LEMMA NewGateSound ==
  /\ NewGate \in [cursor : Cursor, pending : Money, peak : Money \cup {NoTime}]
  /\ NewGate.cursor = NewCursor /\ NewGate.peak = NoTime
  /\ NewCursor \in Cursor /\ NewCursor.since = NoTime /\ NewCursor.tickets = {}
  /\ Idle \in CheckRecord /\ Idle.at = "idle" /\ Idle.now = 0 /\ Idle.equity = {}
<1>1. NewCursor \in Cursor /\ NewCursor.since = NoTime /\ NewCursor.tickets = {}
  BY DEF NewCursor, Cursor
<1>2. Idle \in CheckRecord /\ Idle.at = "idle" /\ Idle.now = 0 /\ Idle.equity = {}
  BY MoneyFacts DEF CheckRecord, Idle, Places
<1> QED
  BY <1>1, <1>2, MoneyFacts DEF NewGate

LEMMA FreshGateSound ==
  ASSUME PostedTyped', now' \in Nat, gate' = NewGate, cooldownUntil' = NoTime,
         check' = [t \in GateThread |-> Idle]
  PROVE  GateInv' /\ \A t \in GateThread : Alone(t)'
<1>1. check' \in [GateThread -> CheckRecord] /\ \A t \in GateThread : check'[t] = Idle
  BY NewGateSound
<1>2. GateTypeOK'
  BY <1>1, NewGateSound DEF GateTypeOK, PostedTyped, CheckRecord
<1>3. GateMissesNothing' /\ NotAhead(gate.cursor)'
  BY NewGateSound DEF GateMissesNothing, InSight, NotAhead
<1>4. \A t \in GateThread : (check[t].now <= now /\ check[t].equity \subseteq Posted)'
  BY <1>1, NewGateSound
<1>5. \A t \in GateThread : Alone(t)'
  BY <1>1, NewGateSound DEF Alone, FlowsKept, CooldownSeen
<1> QED
  BY <1>2, <1>3, <1>4, <1>5 DEF GateInv

LEMMA GateStart == GateInit => OneThreadInv
<1> SUFFICES ASSUME GateInit PROVE OneThreadInv
  OBVIOUS
<1>1. check \in [GateThread -> CheckRecord] /\ \A t \in GateThread : check[t] = Idle
  BY NewGateSound DEF GateInit
<1>2. GateTypeOK
  BY <1>1, NewGateSound DEF GateTypeOK, GateInit, CheckRecord
<1>3. GateMissesNothing /\ NotAhead(gate.cursor)
  BY NewGateSound DEF GateMissesNothing, InSight, NotAhead, GateInit
<1>4. \A t \in GateThread : check[t].now <= now /\ check[t].equity \subseteq Posted
  BY <1>1, NewGateSound DEF GateInit
<1>5. \A t \in GateThread : FlowsKept(t) /\ CooldownSeen(t)
  BY <1>1, NewGateSound DEF FlowsKept, CooldownSeen, GateInit
<1> QED
  BY <1>2, <1>3, <1>4, <1>5 DEF GateInv, OneThreadInv

\* What the account does on its own disturbs no check.
LEMMA GateAccountSound ==
  ASSUME GateInv, AccountStep, UNCHANGED <<gate, cooldownUntil, check>>
  PROVE  GateInv' /\ \A t \in GateThread : Alone(t) => Alone(t)'
<1>1. GateFacts
  BY GateFactsHold
<1>2. /\ PostedTyped' /\ now' \in Nat /\ now <= now' /\ Posted \subseteq Posted'
      /\ InSight(gate.cursor)' /\ NotAhead(gate.cursor)'
  <2>1. /\ PostedTyped' /\ now' \in Nat /\ now <= now' /\ Posted \subseteq Posted'
        /\ \A c \in Cursor : InSight(c) /\ NotAhead(c) => InSight(c)' /\ NotAhead(c)'
    BY <1>1, AccountSound DEF GateFacts
  <2>2. gate.cursor \in Cursor /\ InSight(gate.cursor) /\ NotAhead(gate.cursor) /\ gate' = gate
    BY <1>1 DEF GateFacts, GateInv, GateMissesNothing
  <2> QED
    BY <2>1, <2>2 DEF InSight, NotAhead
<1>3. GateTypeOK'
  BY <1>2 DEF GateInv, GateTypeOK, PostedTyped
<1>4. \A t \in GateThread : (check[t].now <= now /\ check[t].equity \subseteq Posted)'
  <2> TAKE t \in GateThread
  <2>1. check[t].now \in Nat /\ check[t].now <= now /\ check[t].equity \subseteq Posted /\ now \in Nat
    BY DEF GateInv, GateTypeOK
  <2> QED
    BY <1>2, <2>1
<1>5. \A t \in GateThread : Alone(t) => Alone(t)'
  BY DEF Alone, FlowsKept, CooldownSeen, Counted
<1> QED
  BY <1>2, <1>3, <1>4, <1>5 DEF GateInv, GateMissesNothing

\* Nothing happens.
LEMMA GateStutterSound ==
  ASSUME GateInv, UNCHANGED gateVars
  PROVE  GateInv' /\ \A t \in GateThread : Alone(t) => Alone(t)'
<1>1. Posted' = Posted
  BY DEF gateVars, Posted
<1>2. GateInv'
  BY <1>1 DEF gateVars, GateInv, GateTypeOK, GateMissesNothing, InSight, NotAhead
<1>3. \A t \in GateThread : Alone(t) => Alone(t)'
  BY DEF gateVars, Alone, FlowsKept, CooldownSeen, Counted
<1> QED
  BY <1>2, <1>3

LEMMA RestartGateSound ==
  ASSUME GateInv, RestartGate
  PROVE  GateInv' /\ \A t \in GateThread : Alone(t)'
<1>1. PostedTyped' /\ now' \in Nat
  BY DEF GateInv, GateTypeOK, RestartGate, PostedTyped
<1> QED
  BY <1>1, FreshGateSound DEF RestartGate

LEMMA GateNextSound == GateInv /\ [GateNext]_gateVars => GateInv'
<1> SUFFICES ASSUME GateInv, [GateNext]_gateVars PROVE GateInv'
  OBVIOUS
<1>1. ASSUME NEW t \in GateThread, CheckStep(t) PROVE GateInv'
  BY <1>1, CheckStepSound
<1>2. CASE RestartGate
  BY <1>2, RestartGateSound
<1>3. CASE AccountStep /\ UNCHANGED <<gate, cooldownUntil, check>>
  BY <1>3, GateAccountSound
<1>4. CASE UNCHANGED gateVars
  BY <1>4, GateStutterSound
<1> QED
  BY <1>1, <1>2, <1>3, <1>4 DEF GateNext

\* One thread: no other can move the money it has in its hands.
LEMMA OneThreadNextSound ==
  ASSUME \A t, u \in GateThread : t = u
  PROVE  OneThreadInv /\ [GateNext]_gateVars => OneThreadInv'
<1> SUFFICES ASSUME OneThreadInv, [GateNext]_gateVars PROVE OneThreadInv'
  OBVIOUS
<1>0. GateInv /\ \A t \in GateThread : Alone(t)
  BY DEF OneThreadInv, Alone
<1>1. ASSUME NEW t \in GateThread, CheckStep(t) PROVE \A u \in GateThread : Alone(u)'
  <2>1. Alone(t)'
    BY <1>0, <1>1, CheckStepSound
  <2> QED
    BY <2>1
<1>2. CASE RestartGate
  BY <1>0, <1>2, RestartGateSound DEF OneThreadInv, Alone
<1>3. CASE AccountStep /\ UNCHANGED <<gate, cooldownUntil, check>>
  BY <1>0, <1>3, GateAccountSound DEF OneThreadInv, Alone
<1>4. CASE UNCHANGED gateVars
  BY <1>0, <1>4, GateStutterSound DEF OneThreadInv, Alone
<1>5. ASSUME NEW t \in GateThread, CheckStep(t) PROVE OneThreadInv'
  <2>1. GateInv'
    BY <1>0, GateNextSound
  <2>2. \A u \in GateThread : Alone(u)'
    BY <1>1, <1>5
  <2> QED
    BY <2>1, <2>2 DEF OneThreadInv, Alone
<1> QED
  BY <1>2, <1>3, <1>4, <1>5 DEF GateNext

\* The gate's records are well formed and its cursor counts only what the
\* history holds, with any number of symbol threads (risk.py:359-435).
THEOREM GateInvariant == GateSpec => []GateInv
<1>1. GateInit => GateInv
  BY GateStart DEF OneThreadInv
<1> QED
  BY <1>1, GateNextSound, PTL DEF GateSpec

\* However the threads' looks and failed reads interleave, no look of the gate
\* steps over a deal (balance_flows.py:42-75).
THEOREM GateSeesEveryDeal == GateSpec => []GateMissesNothing
<1>1. GateInv => GateMissesNothing
  BY DEF GateInv
<1> QED
  BY <1>1, GateInvariant, PTL

\* With one symbol thread the gate loses no deal it counted, for any deals and
\* any clock (risk.py:390-410); with two it can, as GateRace.cfg shows.
THEOREM GateLosesNothing ==
  ASSUME NEW only, GateThread = {only}
  PROVE  GateSpec => []NothingLost
<1>1. OneThreadInv => NothingLost
  <2> SUFFICES ASSUME OneThreadInv, \A t \in GateThread : check[t].at = "idle", gate.peak # NoTime
               PROVE  Counted(Plus(gate.peak, gate.pending), gate.cursor)
    BY DEF NothingLost
  <2>1. FlowsKept(only) /\ check[only].at = "idle"
    BY DEF OneThreadInv
  <2> QED
    BY <2>1 DEF FlowsKept
<1>2. \A t, u \in GateThread : t = u
  OBVIOUS
<1>3. OneThreadInv /\ [GateNext]_gateVars => OneThreadInv'
  BY <1>2, OneThreadNextSound
<1> QED
  BY <1>1, <1>3, GateStart, PTL DEF GateSpec

\* With one symbol thread a cooldown ends by running out or by a restart, never
\* by a check that clears or shortens it (risk.py:298-318).
THEOREM CooldownRunsOut ==
  ASSUME NEW only, GateThread = {only}
  PROVE  GateSpec => RunningCooldownKept
<1> DEFINE Kept == RestartGate \/ cooldownUntil \in {NoTime, cooldownUntil'}
                   \/ IF cooldownUntil' = NoTime THEN now >= cooldownUntil
                                                 ELSE cooldownUntil' >= cooldownUntil
<1>1. OneThreadInv /\ [GateNext]_gateVars => [Kept]_gateVars
  <2> SUFFICES ASSUME OneThreadInv, GateNext PROVE Kept
    BY DEF gateVars
  <2>0. GateInv /\ GateFacts /\ check[only] \in CheckRecord /\ check[only].now <= now
    BY GateFactsHold DEF OneThreadInv, GateInv, GateTypeOK, CheckRecord
  <2>1. CASE AccountStep /\ UNCHANGED <<gate, cooldownUntil, check>>
    BY <2>1
  <2>2. ASSUME CheckStep(only), cooldownUntil # NoTime, cooldownUntil' # cooldownUntil
        PROVE  Kept
    <3>1. check[only].at \in {"idle", "cooldown", "clear"}
      BY <2>2 DEF OneThreadInv, CooldownSeen
    <3>2. ClearCooldown(only)
      BY <2>2, <3>1 DEF CheckStep, BeginCheck, TestCooldown, CountLosses, LoadPending, PollFlows,
            StorePending, ReadAccount, ShiftPeak, ResetPending, RaisePeak
    <3>3. cooldownUntil' = NoTime /\ cooldownUntil <= check[only].now
      BY <3>2 DEF ClearCooldown, OneThreadInv, CooldownSeen
    <3>4. cooldownUntil \in Int /\ check[only].now \in Int /\ now \in Int
      BY <2>0, <2>2 DEF GateFacts, CheckRecord
    <3> QED
      BY <2>0, <3>3, <3>4
  <2> QED
    BY <2>1, <2>2 DEF GateNext
<1>2. \A t, u \in GateThread : t = u
  OBVIOUS
<1>3. OneThreadInv /\ [GateNext]_gateVars => OneThreadInv'
  BY <1>2, OneThreadNextSound
<1>4. GateSpec => [][Kept]_gateVars
  BY <1>1, <1>3, GateStart, PTL DEF GateSpec
<1> QED
  BY <1>4 DEF RunningCooldownKept

=============================================================================
