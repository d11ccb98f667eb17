--------------------------- MODULE EquityMonitor ---------------------------
(***************************************************************************)
(* The equity peak of the LivePerformanceMonitor, which the main thread    *)
(* keeps over restarts: read at startup from the account and the state     *)
(* file, moved with the balance deals, raised after closed trades, saved   *)
(* on every pass of the main loop.                                         *)
(***************************************************************************)
EXTENDS BalanceFlows

VARIABLES
  monitor,    \* the LivePerformanceMonitor: flow_cursor, peak_equity
  file,       \* monitor_state_file
  loop,       \* where the main thread is
  read        \* the deals in initial_equity, read at startup

monitorVars == <<now, posted, monitor, file, loop, read>>

Books == [cursor : Cursor, peak : Money]

-----------------------------------------------------------------------------
(* The monitor, on the main thread.                                        *)

\* main.py:168: the equity the monitor starts with.
ReadEquity ==
  /\ loop = "start"
  /\ read' = Posted
  /\ monitor' = [cursor |-> NewCursor, peak |-> Each(Posted)]
  /\ loop' = "load"
  /\ UNCHANGED <<now, posted, file>>

\* A missing or damaged file, or one of another account, is not used.
LoadMonitor(usable) ==
  /\ loop = "load"
  /\ usable => file # NoTime
  /\ monitor' = IF usable THEN file ELSE monitor
  /\ loop' = "applyAtStart"
  /\ UNCHANGED <<now, posted, file, read>>

\* apply_balance_flows: with a readable equity the shift is followed by a sync.
ApplyFlows(higher) ==
  /\ loop \in {"applyAtStart", "flows"}
  /\ \E look \in Looks(monitor.cursor, now) :
       monitor' = [cursor |-> look.cursor,
                   peak |-> IF higher /\ look.flow # {} THEN Each(Posted)
                                                       ELSE Plus(monitor.peak, Each(look.flow))]
  /\ loop' = IF loop = "flows" THEN "learn" ELSE "sync"
  /\ UNCHANGED <<now, posted, file, read>>

\* sync_equity with the equity of startup, which was read before the flows were
\* polled: a new peak from it does not hold a deal of that time.
SyncEquity(higher) ==
  /\ loop = "sync"
  /\ monitor' = [monitor EXCEPT !.peak = IF higher THEN Each(read) ELSE @]
  /\ loop' = "save"
  /\ UNCHANGED <<now, posted, file, read>>

SaveMonitorMutant ==
  /\ loop = "save"
  /\ file' \in {file} \cup (IF file = NoTime THEN {monitor}
                                            ELSE {[monitor EXCEPT !.peak = file.peak]})
  /\ loop' = "flows"
  /\ UNCHANGED <<now, posted, monitor, read>>

\* save_state: peak and cursor are written together, or not at all.
SaveMonitor ==
  /\ loop = "save"
  /\ file' \in {file, monitor}
  /\ loop' = "flows"
  /\ UNCHANGED <<now, posted, monitor, read>>

\* After closed trades update_equity with the equity of the account.
UpdateEquity(higher) ==
  /\ loop = "learn"
  /\ monitor' = [monitor EXCEPT !.peak = IF higher THEN Each(Posted) ELSE @]
  /\ loop' = "save"
  /\ UNCHANGED <<now, posted, file, read>>

\* A crash, a shutdown or a reconnect: only the file stays.
RestartMonitor ==
  /\ loop # "start" /\ loop' = "start"
  /\ UNCHANGED <<now, posted, monitor, file, read>>

MonitorStep ==
  \/ ReadEquity
  \/ \E usable \in BOOLEAN : LoadMonitor(usable)
  \/ \E higher \in BOOLEAN : ApplyFlows(higher) \/ SyncEquity(higher) \/ UpdateEquity(higher)
  \/ SaveMonitor \/ RestartMonitor

MonitorInit ==
  /\ now = 0 /\ posted = [d \in Deal |-> NoTime]
  /\ monitor = [cursor |-> NewCursor, peak |-> Zero]
  /\ file = NoTime /\ loop = "start" /\ read = {}

MonitorNext ==
  \/ MonitorStep
  \/ AccountStep /\ UNCHANGED <<monitor, file, loop, read>>

MonitorSpec == MonitorInit /\ [][MonitorNext]_monitorVars

-----------------------------------------------------------------------------
(* Properties.                                                             *)

MonitorTypeOK ==
  /\ now \in Nat /\ posted \in [Deal -> Int \cup {NoTime}]
  /\ monitor \in Books /\ file \in Books \cup {NoTime}
  /\ loop \in {"start", "load", "applyAtStart", "sync", "save", "flows", "learn"}
  /\ read \in SUBSET Deal

\* Neither a failed look nor a crash steps over a deal: whatever is posted and
\* not counted yet lies in the window of the next look, of the running monitor
\* and of the one the next start loads ("A failed read returns 0.0 and the next
\* look re-reads the window, so nothing is lost", balance_flows.py:51).
NothingMissed ==
  /\ InSight(monitor.cursor)
  /\ file # NoTime => InSight(file.cursor)

\* A deal is marked as counted only together with its money ("then syncs the
\* equity so the two stay paired", live_performance_monitor.py:62), in the running
\* monitor and in the file.  The code breaks it: main.py:184 takes the equity read
\* at line 168 for a new peak, after the flows of the time between were counted.
PeakFollowsFlows ==
  /\ Counted(monitor.peak, monitor.cursor)
  /\ file # NoTime => Counted(file.peak, file.cursor)

\* The deals that books mark as counted while their money is not in the peak.
Missing(books) == {d \in books.cursor.tickets \ books.cursor.old : books.peak[d] = 0}
MissingOnFile == IF file = NoTime THEN {} ELSE Missing(file)

\* That sync is the only step that parts a deal from its money, and only for a
\* deal posted after the equity of startup was read: looks, new highs, saves,
\* failed saves, crashes and loads in any order bring no other loss, neither in
\* the running monitor nor in the file (live_performance_monitor.py:60-76,
\* main.py:168-184).
OnlySyncLosesMoney ==
  [][/\ Missing(monitor') \subseteq
          Missing(monitor) \cup MissingOnFile \cup (IF loop = "sync" THEN Posted \ read ELSE {})
     /\ MissingOnFile' \subseteq MissingOnFile \cup Missing(monitor)]_monitorVars

-----------------------------------------------------------------------------
(* The inductive invariant.                                                *)

MonitorInv ==
  /\ MonitorTypeOK
  /\ NotAhead(monitor.cursor) /\ (file # NoTime => NotAhead(file.cursor))
  /\ read \subseteq Posted
  /\ NothingMissed

=============================================================================
