---------------------------- MODULE LiveTrading ----------------------------
(***************************************************************************)
(* Live order entry and reconciliation: the symbol threads                 *)
(* (src/src/symbol_processor.py), the order path and the reconciliation    *)
(* (src/src/execution.py), the limits of src/src/risk.py and the main loop *)
(* that saves, reconciles, learns and restarts (src/main.py).              *)
(*                                                                         *)
(* The threads share the open-position cache.  entry_lock is held by one   *)
(* thread from the max_positions check until the position is in the cache; *)
(* cache_lock is held by the main thread for a whole reconciliation, and   *)
(* by a thread only inside one step here.                                  *)
(*                                                                         *)
(* A definition whose name ends in Mutant is the one after it with a       *)
(* mistake; no action uses it.                                             *)
(***************************************************************************)
EXTENDS Terminal

CONSTANTS
  Limits,        \* the risk blocks config.yaml may hold: max_positions and
                 \* max_portfolio_risk, the latter in units of money
  MaxSends,      \* trading_costs.defaults.retry_order_send
  MaxRestarts    \* bound: restarts, crashes and shutdowns of a behaviour

ASSUME LimitsAssumption ==
  /\ Limits \subseteq [positions : Nat, risk : Nat]
  /\ MaxSends \in Nat \ {0}
  /\ MaxRestarts \in Nat

VARIABLES
  limits,       \* the configuration, read once
  \* the symbol threads
  pc,           \* where each thread is in _make_trade_decision and trade
  attempt,      \* the locals of its entry attempt
  entryLock,    \* the thread that holds RiskManager.entry_lock
  stop,         \* stop_event of every thread: stop_symbol_threads sets them all
  \* the open-position cache and what is learned from it
  cache,        \* per ticket: not cached, recorded by trade, adopted by reconcile
  cacheRisk,    \* the entry's "risk": the money at the stop, as far as it is known
  flagged,      \* entries that carry close_first_seen
  learned,      \* closed trades handed to the monitor and the bandits
  saved,        \* the state files: the four above at the last save
  \* the main thread
  mpc,          \* where it is in run
  booted,       \* the startup reconciliation is over, the threads are running
  brokerList,   \* the position list this reconciliation works on
  toCheck,      \* cached tickets missing from it, still to be looked at
  results,      \* closed_trades_list, then what of it is not learned yet
  restarts,
  \* history
  unpriced,     \* positions recorded for less than their risk, because the price
                \* they filled at could not be read
  unaccounted   \* symbols on which the bot may not know every position: an
                \* alert told a person to look, a restart forgot an entry, or
                \* the recovery took another position for its order's

threadVars == <<pc, attempt, entryLock>>
\* unpriced is written where the cache is.
cacheVars == <<cache, cacheRisk, flagged, unpriced>>
reconcileVars == <<brokerList, toCheck, results>>
mainVars == <<limits, mpc, booted, reconcileVars, restarts, saved, learned>>
vars == <<terminalVars, threadVars, stop, cacheVars, mainVars, unaccounted>>

-----------------------------------------------------------------------------
EntryPoint ==
  {"admitted", "sizing", "sized", "sending", "awaiting", "finding", "recording"}
MainPoint == {"loop", "saved", "checking", "learning", "stopping", "exiting"}
EntryKind == {"out", "recorded", "adopted"}

\* before = None stands for a position list that could not be read; refused: the
\* broker's answer guarantees that nothing was executed.
Attempt == [openRisk : Nat, size : 0..MaxRisk,
            before : (SUBSET Ticket) \cup {None}, orders : SUBSET Ticket,
            refused : BOOLEAN, found : Ticket \cup {None}, tries : 0..MaxSends]

NoAttempt == [openRisk |-> 0, size |-> 0, before |-> {}, orders |-> {},
              refused |-> FALSE, found |-> None, tries |-> 0]

ClosedTrade == [ticket : Ticket, kind : {"recorded", "adopted"}]

SavedState == [cache : [Ticket -> EntryKind], risk : [Ticket -> 0..MaxAtStop],
               flagged : SUBSET Ticket, learned : SUBSET ClosedTrade]

\* Every variable has the type its comment gives it.
TypeOK ==
  /\ TerminalTypeOK
  /\ limits \in Limits
  /\ pc \in [Symbol -> {"idle"} \cup EntryPoint]
  /\ attempt \in [Symbol -> Attempt]
  /\ entryLock \in Symbol \cup {None}
  /\ stop \in BOOLEAN
  /\ cache \in [Ticket -> EntryKind]
  /\ cacheRisk \in [Ticket -> 0..MaxAtStop]
  /\ flagged \in SUBSET Ticket
  /\ learned \in SUBSET ClosedTrade
  /\ saved \in SavedState
  /\ mpc \in MainPoint
  /\ booted \in BOOLEAN
  /\ brokerList \in SUBSET Ticket
  /\ toCheck \in SUBSET Ticket
  /\ results \in SUBSET ClosedTrade
  /\ restarts \in 0..MaxRestarts
  /\ unpriced \in SUBSET Ticket
  /\ unaccounted \in SUBSET Symbol

Cached == {t \in Ticket : cache[t] # "out"}

\* A reconciliation holds cache_lock from the list to the adoption.
CacheFree == mpc # "checking"

\* order_send keeps api_lock until it returns; every call of the terminal takes it.
ApiFree == \A s \in Symbol : pc[s] # "awaiting"

\* The money f of the positions S, counted unit by unit.
Total(f, S) == Cardinality({u \in S \X (1..MaxAtStop) : u[2] <= f[u[1]]})

-----------------------------------------------------------------------------
(* The symbol threads.  A thread that waits for entry_lock and one without a *)
(* signal are in the same state: acquire gives up after 60 s and the bar is  *)
(* skipped, as it is when the limit is reached or the thread is stopped.     *)

LimitReachedMutant == Cardinality(Cached) > limits.positions

LimitReached == Cardinality(Cached) >= limits.positions

\* A signal that passed the risk gate, entry_lock, then the two checks under it.
EnterTrade(s) ==
  /\ booted /\ pc[s] = "idle"
  /\ entryLock = None
  /\ ~stop
  /\ CacheFree /\ ~LimitReached
  /\ entryLock' = s
  /\ pc' = [pc EXCEPT ![s] = "admitted"]
  /\ UNCHANGED <<terminalVars, attempt, stop, cacheVars, mainVars, unaccounted>>

\* return inside the try: the finally releases entry_lock.
ReleaseEntryLock(s) ==
  /\ pc' = [pc EXCEPT ![s] = "idle"]
  /\ entryLock' = None
  /\ attempt' = [attempt EXCEPT ![s] = NoAttempt]

\* No tick, a wide spread, no stop price, no symbol info, less than a lot.
GiveUpEntry(s) ==
  /\ pc[s] \in {"admitted", "sizing"}
  /\ ReleaseEntryLock(s)
  /\ UNCHANGED <<terminalVars, stop, cacheVars, mainVars, unaccounted>>

\* total_open_risk: the sum of the entries' "risk".
ReadOpenRisk(s) ==
  /\ pc[s] = "admitted" /\ CacheFree
  /\ attempt' = [attempt EXCEPT ![s].openRisk = Total(cacheRisk, Cached)]
  /\ pc' = [pc EXCEPT ![s] = "sizing"]
  /\ UNCHANGED <<terminalVars, entryLock, stop, cacheVars, mainVars, unaccounted>>

SymbolIsTaken(s) == \E t \in Cached : symbolOf[t] = s

PositionSizeMutant(s, r) ==
  /\ pc[s] = "sizing" /\ CacheFree
  /\ attempt[s].openRisk + r <= limits.risk
  /\ attempt' = [attempt EXCEPT ![s].size = r, ![s].openRisk = 0]
  /\ pc' = [pc EXCEPT ![s] = "sized"]
  /\ UNCHANGED <<terminalVars, entryLock, stop, cacheVars, mainVars, unaccounted>>

\* The symbol's own positions are looked up again; the portfolio cap is taken
\* on the open risk read one step before.
PositionSize(s, r) ==
  /\ pc[s] = "sizing" /\ CacheFree
  /\ ~SymbolIsTaken(s)
  /\ attempt[s].openRisk + r <= limits.risk
  /\ attempt' = [attempt EXCEPT ![s].size = r, ![s].openRisk = 0]
  /\ pc' = [pc EXCEPT ![s] = "sized"]
  /\ UNCHANGED <<terminalVars, entryLock, stop, cacheVars, mainVars, unaccounted>>

OwnListed(s) == {t \in Own \cap listed : symbolOf[t] = s}

\* The last stop check, then the snapshot trade takes for the recovery.
StartTrade(s) ==
  /\ pc[s] = "sized"
  /\ \/ /\ stop
        /\ ReleaseEntryLock(s)
     \/ /\ ~stop
        /\ \E before \in {OwnListed(s), None} :
             attempt' = [attempt EXCEPT ![s].before = before]
        /\ pc' = [pc EXCEPT ![s] = "sending"]
        /\ UNCHANGED entryLock
  /\ UNCHANGED <<terminalVars, stop, cacheVars, mainVars, unaccounted>>

SendOrder(s, t) ==
  /\ pc[s] = "sending"
  /\ t \in Own
  /\ Place(t, s, attempt[s].size)
  /\ attempt' =
       [attempt EXCEPT ![s].orders = attempt[s].orders \cup {t},
                       ![s].tries = attempt[s].tries + 1]
  /\ pc' = [pc EXCEPT ![s] = "awaiting"]
  /\ UNCHANGED <<entryLock, stop, cacheVars, mainVars, unaccounted>>

\* DONE or DONE_PARTIAL; the deal names the position, if it can be fetched.
ReplyFilled(s, t) ==
  /\ pc[s] = "awaiting"
  /\ t \in attempt[s].orders /\ state[t] \in {"open", "closed"}
  /\ \/ /\ attempt' = [attempt EXCEPT ![s].found = t]
        /\ pc' = [pc EXCEPT ![s] = "recording"]
     \/ /\ pc' = [pc EXCEPT ![s] = "finding"]
        /\ UNCHANGED attempt
  /\ UNCHANGED <<terminalVars, entryLock, stop, cacheVars, mainVars, unaccounted>>

ReplyRejectedResetMutant(s, t, again) ==
  /\ pc[s] = "awaiting"
  /\ t \in attempt[s].orders
  /\ Discard(t)
  /\ attempt' = [attempt EXCEPT ![s].orders = attempt[s].orders \ {t},
                                ![s].refused = ~again, ![s].tries = 0]
  /\ pc' = [pc EXCEPT ![s] = IF again THEN "sending" ELSE "finding"]
  /\ UNCHANGED <<entryLock, stop, cacheVars, mainVars, unaccounted>>

\* A return code that guarantees the order was not executed.  Only the codes of
\* RETRY_SAFE_RETCODES are sent again, up to retry_order_send sends.
ReplyRejected(s, t, again) ==
  /\ pc[s] = "awaiting"
  /\ t \in attempt[s].orders
  /\ Discard(t)
  /\ again => attempt[s].tries < MaxSends
  /\ attempt' =
       [attempt EXCEPT ![s].orders = attempt[s].orders \ {t}, ![s].refused = ~again]
  /\ pc' = [pc EXCEPT ![s] = IF again THEN "sending" ELSE "finding"]
  /\ UNCHANGED <<entryLock, stop, cacheVars, mainVars, unaccounted>>

\* No result, an exception, a timeout, a mere acknowledgement: the order may be
\* on its way, executed, or never have left.  It is not sent again.
ReplyLost(s) ==
  /\ pc[s] \in {"sending", "awaiting"}
  /\ pc' = [pc EXCEPT ![s] = "finding"]
  /\ UNCHANGED <<terminalVars, attempt, entryLock, stop, cacheVars, mainVars,
                 unaccounted>>

\* Positions that are new since the snapshot; without a snapshot, the ones that
\* are not tracked.
NewPositions(s) ==
  OwnListed(s) \ (IF attempt[s].before = None THEN Cached ELSE attempt[s].before)

FindNewPosition(s, t) ==
  /\ pc[s] = "finding"
  /\ attempt[s].before = None => CacheFree
  /\ t \in NewPositions(s)
  /\ attempt' = [attempt EXCEPT ![s].found = t]
  /\ pc' = [pc EXCEPT ![s] = "recording"]
  /\ unaccounted' = unaccounted \cup (IF t \in attempt[s].orders THEN {} ELSE {s})
  /\ UNCHANGED <<terminalVars, entryLock, stop, cacheVars, mainVars>>

\* Nothing new, or the list cannot be read: a CRITICAL alert.  After a refusal
\* it says that the order failed, otherwise that its outcome is UNKNOWN.
NoPositionFound(s, readable) ==
  /\ pc[s] = "finding"
  /\ readable => NewPositions(s) = {} /\ (attempt[s].before = None => CacheFree)
  /\ unaccounted' = unaccounted \cup (IF attempt[s].refused THEN {} ELSE {s})
  /\ ReleaseEntryLock(s)
  /\ UNCHANGED <<terminalVars, stop, cacheVars, mainVars>>

\* The "risk" of a new entry: the money at the stop from the price of the fill, or,
\* when neither the deal nor the position gives one, from the price of the request.
RiskMeasured(s, priced) ==
  LET t == attempt[s].found
  IN  IF priced THEN {riskOf[t]}
      ELSE {r \in 1..MaxAtStop : t \in attempt[s].orders =>
                                   r <= attempt[s].size /\ riskOf[t] <= r + MaxSlip}

RecordPositionMutant(s) ==
  /\ pc[s] = "recording" /\ CacheFree
  /\ cache' = [cache EXCEPT ![attempt[s].found] = "recorded"]
  /\ cacheRisk' = [cacheRisk EXCEPT ![attempt[s].found] = attempt[s].size]
  /\ unpriced' \in {unpriced, unpriced \cup {attempt[s].found}}
  /\ flagged' = flagged \ {attempt[s].found}
  /\ ReleaseEntryLock(s)
  /\ UNCHANGED <<terminalVars, stop, mainVars, unaccounted>>

\* After the TRADE EXECUTED message, a network call of up to 13 s: until then
\* the position is at the broker and not in the cache.
RecordPosition(s) ==
  /\ pc[s] = "recording" /\ CacheFree
  /\ cache' = [cache EXCEPT ![attempt[s].found] = "recorded"]
  /\ \E priced \in BOOLEAN : \E r \in RiskMeasured(s, priced) :
       /\ cacheRisk' = [cacheRisk EXCEPT ![attempt[s].found] = r]
       /\ unpriced' = IF priced \/ r >= riskOf[attempt[s].found]
                      THEN unpriced ELSE unpriced \cup {attempt[s].found}
  /\ flagged' = flagged \ {attempt[s].found}
  /\ ReleaseEntryLock(s)
  /\ UNCHANGED <<terminalVars, stop, mainVars, unaccounted>>

\* An exception while the entry is built is caught, with a WARNING alert.
RecordFails(s) ==
  /\ pc[s] = "recording"
  /\ unaccounted' = unaccounted \cup {s}
  /\ ReleaseEntryLock(s)
  /\ UNCHANGED <<terminalVars, stop, cacheVars, mainVars>>

ThreadStep(s) ==
  \/ EnterTrade(s) \/ GiveUpEntry(s) \/ ReadOpenRisk(s)
  \/ \E r \in 1..MaxRisk : PositionSize(s, r)
  \/ StartTrade(s)
  \/ \E t \in Ticket : \/ SendOrder(s, t) \/ ReplyFilled(s, t)
                       \/ FindNewPosition(s, t)
                       \/ \E again \in BOOLEAN : ReplyRejected(s, t, again)
  \/ ReplyLost(s)
  \/ \E readable \in BOOLEAN : NoPositionFound(s, readable)
  \/ RecordPosition(s) \/ RecordFails(s)

-----------------------------------------------------------------------------
(* The main thread.                                                        *)

Snapshot == [cache |-> cache, risk |-> cacheRisk, flagged |-> flagged, learned |-> learned]

\* One pass of the inner loop begins with the save; a save that fails leaves
\* the old file.
SaveState ==
  /\ mpc = "loop" /\ booted
  /\ saved' \in {Snapshot, saved}
  /\ mpc' = "saved"
  /\ UNCHANGED <<terminalVars, threadVars, stop, limits, cacheVars, booted,
                 reconcileVars, restarts, learned, unaccounted>>

ReconcileStarts ==
  /\ mpc = "saved" \/ (mpc = "loop" /\ ~booted)
  /\ ApiFree

\* positions_get answers None: "could not ask" is not "no positions".
ReconcileSkipped ==
  /\ ReconcileStarts
  /\ mpc' = "loop"
  /\ booted' = TRUE
  /\ UNCHANGED <<terminalVars, threadVars, stop, limits, cacheVars, reconcileVars,
                 restarts, saved, learned, unaccounted>>

\* cache_lock is taken; positions of other programs leave the cache, listed ones
\* lose close_first_seen.
ReconcileList ==
  LET kept == Cached \ (Foreign \cap listed)
  IN  /\ ReconcileStarts
      /\ mpc' = "checking"
      /\ brokerList' = listed
      /\ cache' = [t \in Ticket |-> IF t \in kept THEN cache[t] ELSE "out"]
      /\ cacheRisk' = [t \in Ticket |-> IF t \in kept THEN cacheRisk[t] ELSE 0]
      /\ flagged' = (flagged \cap kept) \ listed
      /\ toCheck' = kept \ listed
      /\ results' = {}
      /\ UNCHANGED <<terminalVars, threadVars, stop, limits, unpriced, booted, restarts,
                     saved, learned, unaccounted>>

Drop(t) ==
  /\ cache' = [cache EXCEPT ![t] = "out"]
  /\ cacheRisk' = [cacheRisk EXCEPT ![t] = 0]
  /\ flagged' = flagged \ {t}

ReportClosedMutant(t) ==
  /\ t \in Own \cap outDeals
  /\ results' = results \cup {[ticket |-> t, kind |-> cache[t]]}
  /\ UNCHANGED <<cache, cacheRisk, flagged, unaccounted>>

ReportClosedEarlyMutant(t) ==
  /\ t \in Own
  /\ results' = results \cup {[ticket |-> t, kind |-> cache[t]]}
  /\ Drop(t)
  /\ UNCHANGED unaccounted

\* A closing deal: the trade is closed, its entry leaves the cache.
ReportClosed(t) ==
  /\ t \in Own \cap outDeals
  /\ results' = results \cup {[ticket |-> t, kind |-> cache[t]]}
  /\ Drop(t)
  /\ UNCHANGED unaccounted

\* Every deal of the position carries another magic number.
DropForeign(t) ==
  /\ t \in Foreign
  /\ Drop(t)
  /\ UNCHANGED <<results, unaccounted>>

\* No closing deal yet, or the history cannot be read: look again next time.
AwaitClosingDeal(t) ==
  /\ flagged' = flagged \cup {t}
  /\ UNCHANGED <<cache, cacheRisk, results, unaccounted>>

GiveUpClosingDealMutant(t) ==
  /\ t \in flagged
  /\ Drop(t)
  /\ UNCHANGED <<results, unaccounted>>

\* Still none after CLOSE_DEAL_WAIT_SECONDS: dropped with an alert.
GiveUpClosingDeal(t) ==
  /\ t \in flagged
  /\ Drop(t)
  /\ unaccounted' = unaccounted \cup {symbolOf[t]}
  /\ UNCHANGED results

CheckClosed(t) ==
  /\ mpc = "checking" /\ ApiFree
  /\ t \in toCheck
  /\ toCheck' = toCheck \ {t}
  /\ \/ ReportClosed(t) \/ DropForeign(t)
     \/ AwaitClosingDeal(t) \/ GiveUpClosingDeal(t)
  /\ UNCHANGED <<terminalVars, threadVars, stop, limits, unpriced, mpc, booted,
                 brokerList, restarts, saved, learned>>

\* An exception in the middle: what was taken out of the cache stays out and the
\* results are not returned.  The ERROR alert names no symbol, so no person is
\* told of the trades that are lost.
ReconcileFails ==
  /\ mpc = "checking"
  /\ results' = {} /\ toCheck' = {} /\ brokerList' = {}
  /\ mpc' = "loop"
  /\ booted' = TRUE
  /\ UNCHANGED <<terminalVars, threadVars, stop, limits, cacheVars, restarts, saved,
                 learned, unaccounted>>

AdoptAndReturnMutant ==
  /\ mpc = "checking" /\ toCheck = {}
  /\ brokerList' = {}
  /\ mpc' = IF booted THEN "learning" ELSE "loop"
  /\ results' = IF booted THEN results ELSE {}
  /\ booted' = TRUE
  /\ UNCHANGED <<terminalVars, threadVars, stop, limits, cacheVars, toCheck, restarts,
                 saved, learned, unaccounted>>

\* Listed positions with the bot's magic that are not cached are adopted.  The
\* startup call in run ignores the returned list.
AdoptAndReturn ==
  /\ mpc = "checking" /\ ApiFree
  /\ toCheck = {}
  /\ cache' = [t \in Ticket |-> IF t \in brokerList \cap Own /\ cache[t] = "out"
                                  THEN "adopted" ELSE cache[t]]
  /\ cacheRisk' = [t \in Ticket |-> IF t \in brokerList \cap Own /\ cache[t] = "out"
                                      THEN riskOf[t] ELSE cacheRisk[t]]
  /\ brokerList' = {}
  /\ mpc' = IF booted THEN "learning" ELSE "loop"
  /\ results' = IF booted THEN results ELSE {}
  /\ booted' = TRUE
  /\ UNCHANGED <<terminalVars, threadVars, stop, limits, flagged, unpriced, toCheck,
                 restarts, saved, learned, unaccounted>>

\* add_closed_trade and update; an adopted trade has no risk_amount, so it gives
\* the bandits no reward.
Learn(c) ==
  /\ mpc = "learning" /\ c \in results
  /\ results' = results \ {c}
  /\ learned' = learned \cup {c}
  /\ UNCHANGED <<terminalVars, threadVars, stop, limits, cacheVars, mpc, booted,
                 brokerList, toCheck, restarts, saved, unaccounted>>

EndOfPassMutant ==
  /\ mpc = "learning"
  /\ mpc' = "loop" /\ results' = {}
  /\ UNCHANGED <<terminalVars, threadVars, stop, limits, cacheVars, booted, brokerList,
                 toCheck, restarts, saved, learned, unaccounted>>

EndOfPass ==
  /\ mpc = "learning" /\ results = {}
  /\ mpc' = "loop"
  /\ UNCHANGED <<terminalVars, threadVars, stop, limits, cacheVars, booted,
                 reconcileVars, restarts, saved, learned, unaccounted>>

MainStep ==
  \/ SaveState \/ ReconcileSkipped \/ ReconcileList
  \/ \E t \in Ticket : CheckClosed(t)
  \/ AdoptAndReturn \/ ReconcileFails
  \/ \E c \in results : Learn(c)
  \/ EndOfPass

-----------------------------------------------------------------------------
(* Failures and restarts.                                                  *)

\* An exception reaches run: the threads are told to stop, at most 10 s are
\* waited, everything is rebuilt from the file (nothing is saved first).
MainLoopFails ==
  /\ mpc \in {"loop", "saved", "learning"}
  /\ restarts < MaxRestarts
  /\ stop' = TRUE
  /\ mpc' = "stopping"
  /\ results' = {}
  /\ UNCHANGED <<terminalVars, threadVars, limits, cacheVars, booted, brokerList,
                 toCheck, restarts, saved, learned, unaccounted>>

\* KeyboardInterrupt is no Exception: no handler below run catches it, at startup
\* and in the wait before a reconnect neither.
Interrupt ==
  /\ mpc # "exiting"
  /\ restarts < MaxRestarts
  /\ stop' = TRUE
  /\ mpc' = "exiting"
  /\ results' = {} /\ toCheck' = {} /\ brokerList' = {}
  /\ UNCHANGED <<terminalVars, threadVars, limits, cacheVars, booted, restarts, saved,
                 learned, unaccounted>>

\* Symbols with a live order or position that the file does not hold.
UnsavedSymbols(file) ==
  {symbolOf[t] : t \in {u \in Own : IsLive(u) /\ file.cache[u] = "out"}}

\* A new run, or a new pass of the reconnect loop: new RiskManager, new locks,
\* new RiskController, all from the file.  What an old thread still does
\* reaches only the old objects, and its calls to the terminal return None.
StartFrom(file) ==
  /\ saved' = file
  /\ cache' = file.cache /\ cacheRisk' = file.risk
  /\ flagged' = file.flagged /\ learned' = file.learned
  /\ pc' = [s \in Symbol |-> "idle"]
  /\ attempt' = [s \in Symbol |-> NoAttempt]
  /\ entryLock' = None
  /\ stop' = FALSE
  /\ mpc' = "loop" /\ booted' = FALSE
  /\ brokerList' = {} /\ toCheck' = {} /\ results' = {}
  /\ restarts' = restarts + 1
  /\ unaccounted' = unaccounted \cup UnsavedSymbols(file)
  /\ UNCHANGED <<terminalVars, limits, unpriced>>

Reconnect ==
  /\ mpc = "stopping"
  /\ StartFrom(saved)

\* The finally block of run saves once more before the process ends.
ShutDown ==
  /\ mpc = "exiting"
  /\ StartFrom(Snapshot)

Crash ==
  /\ restarts < MaxRestarts
  /\ mpc \notin {"stopping", "exiting"}
  /\ StartFrom(saved)

RestartStep ==
  MainLoopFails \/ Interrupt \/ Reconnect \/ ShutDown \/ Crash

-----------------------------------------------------------------------------
\* An order nobody waits for any more ends without an execution.
OrderVanishes(t) ==
  /\ \A s \in Symbol : pc[s] = "awaiting" => t \notin attempt[s].orders
  /\ Discard(t)
  /\ attempt' = [s \in Symbol |-> [attempt[s] EXCEPT !.orders = @ \ {t}]]
  /\ UNCHANGED <<pc, entryLock, stop, cacheVars, mainVars, unaccounted>>

BrokerStep(t) ==
  \/ OrderVanishes(t)
  \/ /\ \/ Execute(t) \/ CloseAtBroker(t) \/ ListCatchesUp(t) \/ DealAppears(t)
        \/ \E s \in Symbol : ForeignOpens(t, s)
     /\ UNCHANGED <<threadVars, stop, cacheVars, mainVars, unaccounted>>

\* The file may hold positions of other programs that an older version cached.
Init ==
  /\ \E F \in SUBSET Foreign, symbols \in [Foreign -> Symbol] :
       /\ TerminalInit(F, symbols)
       /\ cache = [t \in Ticket |-> IF t \in F THEN "recorded" ELSE "out"]
       /\ cacheRisk = riskOf
  /\ flagged = {} /\ learned = {} /\ unpriced = {}
  /\ saved = Snapshot
  /\ limits \in Limits
  /\ pc = [s \in Symbol |-> "idle"]
  /\ attempt = [s \in Symbol |-> NoAttempt]
  /\ entryLock = None
  /\ stop = FALSE
  /\ mpc = "loop" /\ booted = FALSE
  /\ brokerList = {} /\ toCheck = {} /\ results = {}
  /\ restarts = 0
  /\ unaccounted = {}

Next ==
  \/ \E s \in Symbol : ThreadStep(s)
  \/ MainStep
  \/ RestartStep
  \/ \E t \in Ticket : BrokerStep(t)

Spec == Init /\ [][Next]_vars

-----------------------------------------------------------------------------
(* Fairness.  The threads and the main loop keep running, and the locks they *)
(* wait for are free again and again.  Of the terminal: orders and answers   *)
(* come to an end, its list and its history catch up, and it does not fail   *)
(* to answer every single time.                                              *)

EntryStep(s) == pc[s] # "idle" /\ ThreadStep(s)

\* A missing position leaves the cache: reported, or given up after 180 s.
CheckSettles(t) == CheckClosed(t) /\ cache'[t] = "out"

Fairness ==
  /\ \A s \in Symbol : SF_vars(EntryStep(s))
  /\ WF_vars(SaveState) /\ WF_vars(EndOfPass)
  /\ SF_vars(ReconcileList) /\ SF_vars(AdoptAndReturn)
  /\ \A t \in Ticket :
       /\ SF_vars(CheckClosed(t)) /\ SF_vars(CheckSettles(t))
       /\ WF_vars(\E c \in results : c.ticket = t /\ Learn(c))
       /\ WF_vars(BrokerStep(t) /\ listed' # listed)
       /\ WF_vars(BrokerStep(t) /\ outDeals' # outDeals)
  /\ WF_vars(Reconnect) /\ WF_vars(ShutDown)

FairSpec == Spec /\ Fairness

-----------------------------------------------------------------------------
(* Safety.                                                                 *)

Accounted(t) == symbolOf[t] \notin unaccounted

\* Positions and orders of the bot that may exist at the broker.
OwnLive == {t \in Own : IsLive(t)}

\* At most one position or pending order of the bot per symbol, whatever the
\* interleaving of fills, lagging lists, adoption and the delayed cache insert:
\* position_size refuses a symbol that has an entry, and no entry is missing
\* unless an alert named the symbol or a restart lost it.
OnePositionPerSymbol ==
  \A t, u \in OwnLive : Accounted(t) /\ symbolOf[t] = symbolOf[u] => t = u

\* No interleaving of the threads takes the positions and pending orders of the
\* bot beyond max_positions, which is checked on the cache before the order and
\* counts it only once it is recorded.
PositionCap ==
  Cardinality({t \in OwnLive : Accounted(t)}) <= limits.positions

\* What the bot can know of the money at a stop: that of a position whose price
\* could not be read may lie MaxSlip above what it recorded.
KnownRisk ==
  [t \in Ticket |-> IF t \notin unpriced THEN riskOf[t]
                    ELSE IF riskOf[t] > MaxSlip THEN riskOf[t] - MaxSlip ELSE 0]

\* Slippage does not accumulate: the money at the stops of all positions and pending
\* orders exceeds max_portfolio_risk at most by what the latest fill slipped, because
\* the next order is sized on the risk at the prices of the fills (risk.py:148-152,
\* execution.py:606-613).  It cannot count what a fill without a readable price slipped.
RiskCapWithSlip ==
  Total(KnownRisk, {t \in OwnLive : Accounted(t)}) <= limits.risk + MaxSlip

\* One call of trade leaves at most one order at the broker: only an answer that
\* guarantees nothing was executed is sent again.
OneOrderPerEntry ==
  \A s \in Symbol : Cardinality(attempt[s].orders) <= 1

\* Only closed positions of the bot reach the monitor and the bandits, although
\* the position list lags: one that is missing from it is not closed yet.
LearnedOnlyClosed ==
  \A c \in results \cup learned : c.ticket \in Own /\ state[c.ticket] = "closed"

\* The bandits get the reward of a trade at most once, also when its entry is
\* adopted, overwritten, reported and loaded again.
NeverCreditedTwice ==
  \A c \in results : Accounted(c.ticket) /\ c.kind = "recorded" => c \notin learned

\* The file never holds a trade both as learned and as an entry the bandits would
\* get a reward for, so that loading it cannot credit the trade again.
FileConsistent ==
  \A c \in saved.learned :
    Accounted(c.ticket) /\ c.kind = "recorded" => saved.cache[c.ticket] # "recorded"

\* "to avoid reporting the same trade twice" (execution.py:63).
ReportedOnce ==
  \A c, d \in learned : c.ticket = d.ticket => c = d

\* What a reconciliation has found leaves the bot only by being learned from, unless an
\* exception in a later pass or a restart loses it: main.py:267 "This is the single point
\* of truth for reconciling closed positions".  The startup breaks it: run drops what its
\* reconciliation returns.
FoundIsLearned ==
  [][\A c \in results \ (results' \cup learned') :
       (booted /\ ReconcileFails) \/ RestartStep]_vars

-----------------------------------------------------------------------------
(* The promise: what TradeLedger says of every trade.                      *)

\* A closed trade is settled when neither the cache nor an attempt holds it.
InHand(t) == cache[t] = "recorded" \/ \E s \in Symbol : t \in attempt[s].orders

StageOf(t) ==
  CASE state[t] = "none" -> "free"
    [] state[t] = "sent" -> "ordered"
    [] state[t] = "open" -> "open"
    [] state[t] = "closed" -> IF InHand(t) THEN "closed"
                              ELSE IF cache[t] = "adopted" THEN "adopted" ELSE "settled"

\* An adopted trade has no risk_amount: the bandits learn nothing from it.
Rewarded(S) == {t \in Own : [ticket |-> t, kind |-> "recorded"] \in S}

TradeStage == [t \in Own |-> StageOf(t)]
TradeOwner == [t \in Own |-> symbolOf[t]]
TradesReported == Rewarded(results)
TradesCredited == Rewarded(learned)
TradeFile == [own |-> {t \in Own : saved.cache[t] = "recorded"},
              adopted |-> {t \in Own : saved.cache[t] = "adopted"},
              credited |-> Rewarded(saved.learned)]
HandedOver == mpc = "learning"

Ledger == INSTANCE TradeLedger WITH
  Ticket <- Own, stage <- TradeStage, owner <- TradeOwner, reported <- TradesReported,
  credited <- TradesCredited, file <- TradeFile, handed <- HandedOver, excused <- unaccounted

\* Live trading keeps the ledger: no order for a symbol before its last trade is
\* settled, no recorded trade settled without a report or an alert, no report lost once
\* the reconciliation has returned it to the main loop but on the way down, no trade
\* rewarded twice, also over a restart, which forgets no live trade silently.
Implements == Ledger!Spec

-----------------------------------------------------------------------------
(* Why the safety properties hold: an inductive invariant.                 *)

\* A ticket the terminal shows is a position and has a symbol; what an order that is
\* under way risks is what it was sized to.
TerminalInv ==
  /\ \A t \in Ticket : state[t] # "none" => symbolOf[t] \in Symbol
  /\ \A t \in Ticket : state[t] = "sent" => riskOf[t] <= MaxRisk
  /\ listed \subseteq Opened
  /\ \A t \in outDeals : state[t] = "closed"

\* What the bot and its file know of are positions, what they learned from is
\* closed; a pass looks at cached tickets only, a restart under way is counted.
KnownInv ==
  /\ brokerList \cup Cached \subseteq Opened
  /\ \A t \in Ticket : saved.cache[t] # "out" => t \in Opened
  /\ mpc = "checking" => toCheck \subseteq Cached
  /\ mpc \in {"stopping", "exiting"} => restarts < MaxRestarts
  /\ \A c \in results \cup learned \cup saved.learned :
       c.ticket \in Own /\ state[c.ticket] = "closed"

\* An attempt holds entry_lock, and one order at most from its send on.
AttemptOK(s) ==
  /\ pc[s] # "idle" => entryLock = s
  /\ pc[s] \notin {"awaiting", "finding", "recording"} =>
       attempt[s].orders = {} /\ attempt[s].tries < MaxSends
  /\ \A t, u \in attempt[s].orders : t = u
  /\ attempt[s].refused => /\ attempt[s].orders = {}
                           /\ pc[s] \in {"finding", "recording"}
  /\ pc[s] = "recording" =>
       /\ attempt[s].found \in Opened
       /\ s \in unaccounted \/ attempt[s].orders \subseteq {attempt[s].found}

AttemptInv == \A s \in Symbol : AttemptOK(s)

\* Past position_size the symbol has nothing at the broker but the attempt's own
\* order; everything else at the broker is in the cache.
Sized(s) == pc[s] \notin {"idle", "admitted", "sizing"}

TrackedInv ==
  \A s \in Symbol \ unaccounted : \A t \in OwnLive :
    symbolOf[t] = s =>
      /\ cache[t] # "out" \/ t \in attempt[s].orders
      /\ Sized(s) => t \in attempt[s].orders

\* The conjunction that every step preserves.
EntryInv ==
  TypeOK /\ TerminalInv /\ KnownInv /\ AttemptInv /\ TrackedInv
  /\ OnePositionPerSymbol

\* The orders of an attempt are its symbol's; what it is about to record is its order,
\* unless an alert named the symbol.
OrdersInv ==
  \A s \in Symbol :
    /\ \A t \in attempt[s].orders : symbolOf[t] = s /\ state[t] # "none"
    /\ pc[s] = "recording" =>
         /\ symbolOf[attempt[s].found] = s
         /\ s \in unaccounted \/ attempt[s].found \in attempt[s].orders

\* The trades the bandits get, or will get, a reward for.
Reward(t) == [ticket |-> t, kind |-> "recorded"]

\* Why no reward is given twice: one of the hands that lead to it holds a trade - an
\* attempt, the cache, the results of a pass or the bandits.
RewardInv ==
  /\ \A s \in Symbol \ unaccounted : \A t \in attempt[s].orders :
       cache[t] # "recorded" /\ Reward(t) \notin results \cup learned
  /\ \A t \in Own :
       Accounted(t) /\ Reward(t) \in results \cup learned => cache[t] # "recorded"

\* The conjunction that every step preserves next to EntryInv: what a restart loads
\* is as consistent as what it replaces.
CreditInv == OrdersInv /\ RewardInv /\ NeverCreditedTwice /\ FileConsistent

\* Why the ledger is kept, also for symbols that an alert named: results exist only
\* within a pass, the order of an attempt is not recorded yet, and past position_size
\* the symbol has no entry of a trade that was recorded before.
LedgerInv ==
  /\ mpc \notin {"checking", "learning"} => results = {}
  /\ mpc = "learning" => booted
  /\ \A s \in Symbol : \A t \in attempt[s].orders : t \in Own /\ cache[t] # "recorded"
  /\ \A s \in Symbol \ unaccounted : Sized(s) =>
       \A t \in Own : symbolOf[t] = s => cache[t] # "recorded"

\* Why max_positions holds: from the check to the answer of its order the thread that
\* holds entry_lock keeps one place free for it.
CapInv ==
  /\ PositionCap
  /\ \A s \in Symbol :
       pc[s] \in {"admitted", "sizing", "sized", "sending", "awaiting"} =>
         Cardinality({t \in OwnLive : Accounted(t)} \ attempt[s].orders) < limits.positions

\* Why max_portfolio_risk holds: an entry, also the one in the file, does not hold less
\* than the bot can know of its position, so the open risk a thread reads under entry_lock
\* covers every position it will be measured against; and from position_size until its
\* order is executed there is room for the size on top of all others.
RiskInv ==
  /\ RiskCapWithSlip
  /\ \A t \in OwnLive : Accounted(t) =>
       /\ cache[t] # "out" => KnownRisk[t] <= cacheRisk[t]
       /\ saved.cache[t] # "out" => KnownRisk[t] <= saved.risk[t]
  /\ \A s \in Symbol \ unaccounted :
       /\ pc[s] = "sizing" =>
            Total(KnownRisk, {t \in OwnLive : Accounted(t)}) <= attempt[s].openRisk
       /\ pc[s] \in {"sized", "sending", "awaiting", "finding"} =>
            Total(KnownRisk, {t \in OwnLive : Accounted(t)} \ attempt[s].orders)
              + attempt[s].size <= limits.risk
       /\ \A t \in attempt[s].orders : state[t] = "sent" => riskOf[t] <= attempt[s].size

-----------------------------------------------------------------------------
(* Liveness.                                                               *)

\* Every open position of the bot is in the cache in the end, or it closes: an
\* order whose outcome was unknown is adopted.
OpenIsTracked ==
  \A t \in Own : state[t] = "open" ~> (cache[t] # "out" \/ state[t] = "closed")

\* A tracked position that closes is found by a reconciliation, or an alert names its
\* symbol; and what the reconciliation returns to the main loop is learned from.  Between
\* the two nothing is promised: an exception (execution.py:244) and the end of the startup
\* (main.py:232) lose what was found.
ClosedIsReported ==
  /\ \A t \in Own :
       (cache[t] # "out" /\ state[t] = "closed")
         ~> (symbolOf[t] \in unaccounted \/ \E c \in results \cup learned : c.ticket = t)
  /\ \A c \in ClosedTrade : (mpc = "learning" /\ c \in results) ~> c \in learned

\* No thread keeps entry_lock for ever: order_send, the retries, the search and
\* the wait for cache_lock all end.
EntryEnds ==
  \A s \in Symbol : pc[s] # "idle" ~> pc[s] = "idle"

=============================================================================
