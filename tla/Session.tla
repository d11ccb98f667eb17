------------------------------- MODULE Session -------------------------------
(***************************************************************************)
(* The one connection of the MetaTrader5 package and who uses it: the      *)
(* client objects of src/src/mt5_client.py, the symbol threads of          *)
(* src/src/symbol_processor.py from a new bar to the order, and the        *)
(* reconnect loop of src/main.py.                                          *)
(*                                                                         *)
(* A pass of the reconnect loop is a session with a main client and, per   *)
(* symbol, a client and a thread.  A thread cannot be killed: after the    *)
(* ten seconds of stop_symbol_threads it may go on next to the threads of  *)
(* the next session, holding its own objects.  What it can still do to the *)
(* broker is decided by api_lock, the generation and its main client.      *)
(*                                                                         *)
(* api_lock is held across steps by order_send only; a call that returns   *)
(* at once is one step, taken while the lock is free.  A DataManager       *)
(* fetches bars without asking a client whether it is connected.           *)
(***************************************************************************)
EXTENDS Integers

CONSTANTS
  Symbol,
  MaxSessions,   \* bound: passes of the reconnect loop
  MaxBars,       \* bound: bars the market opens
  None           \* nobody, nothing; with a session, its main client

ASSUME SessionAssumption ==
  /\ None \notin Symbol /\ None \notin (1..MaxSessions) \X Symbol
  /\ MaxSessions \in Nat \ {0} /\ MaxBars \in Nat \ {0}

VARIABLES
  \* the package and the shared state of mt5_client
  up,          \* the connection works
  generation,  \* _generation
  attached,    \* _attached_generation of every client
  inside,      \* the thread in order_send, which holds api_lock
  \* the main thread
  session, lpc,
  stopped,     \* sessions whose threads have been told to stop
  \* the symbol threads
  pc,
  lastBar,     \* last_bar_time of wait_for_new_bar
  decided,     \* the bar the decision is made on
  \* the market and the broker
  forming,     \* the bar that is forming
  traded       \* bars on whose decision an order was executed

connectionVars == <<up, generation, attached, inside>>
loopVars == <<session, lpc, stopped>>
threadVars == <<pc, lastBar, decided>>
sessionVars == <<connectionVars, loopVars, threadVars, forming, traded>>

Pass == 1..MaxSessions
BarNumber == 0..MaxBars

Thread == Pass \X Symbol
Client == Pass \X (Symbol \cup {None})

ThreadPoint == {"none", "loop", "waiting", "fetching", "deciding", "sending", "inside", "ended"}
LoopPoint == {"connect", "account", "starting", "running", "joining", "released", "quitting", "off"}

\* The types of the variables.
SessionTypeOK ==
  /\ up \in BOOLEAN
  /\ generation \in 0..MaxSessions
  /\ attached \in [Client -> (0..MaxSessions) \cup {None}]
  /\ inside \in Thread \cup {None}
  /\ session \in 1..(MaxSessions + 1) /\ lpc \in LoopPoint
  /\ stopped \in SUBSET Pass
  /\ pc \in [Thread -> ThreadPoint]
  /\ lastBar \in [Thread -> BarNumber] /\ decided \in [Thread -> BarNumber]
  /\ forming \in BarNumber
  /\ traded \in [Symbol -> SUBSET BarNumber]

ApiFree == inside = None

\* The property _connected.
Connected(c) == attached[c] # None /\ attached[c] = generation

MainClient(k) == <<k, None>>

-----------------------------------------------------------------------------
(* One attempt of connect, under both locks.  A healthy connection is        *)
(* shared, otherwise the package is initialised; a failure shuts down what   *)
(* there was, also for the clients that read as connected.                   *)

Attach(c) ==
  /\ ApiFree
  /\ up' = TRUE
  /\ attached' = [attached EXCEPT ![c] = generation]
  /\ UNCHANGED <<generation, inside>>

AttemptFails ==
  /\ ApiFree
  /\ up' = FALSE
  /\ UNCHANGED <<generation, attached, inside>>

-----------------------------------------------------------------------------
(* The main thread.                                                        *)

Connect ==
  /\ lpc = "connect" /\ session \in Pass
  /\ Attach(MainClient(session))
  /\ lpc' = "account"
  /\ UNCHANGED <<session, stopped, threadVars, forming, traded>>

\* Of the main client, of a symbol's, or of the one in a DataManager.
ConnectFails ==
  /\ lpc \in {"connect", "starting"}
  /\ AttemptFails
  /\ UNCHANGED <<loopVars, threadVars, forming, traded>>

NoAccountMutant ==
  /\ lpc = "account"
  /\ UNCHANGED sessionVars

\* account_info is None: the next pass, with a new main client.
NoAccount ==
  /\ lpc = "account"
  /\ lpc' = "connect"
  /\ UNCHANGED <<connectionVars, session, stopped, threadVars, forming, traded>>

\* Models, history and state have been loaded; the threads are next.
AccountRead ==
  /\ lpc = "account" /\ up /\ ApiFree
  /\ lpc' = "starting"
  /\ UNCHANGED <<connectionVars, session, stopped, threadVars, forming, traded>>

StartThread(s) ==
  /\ lpc = "starting" /\ pc[<<session, s>>] = "none"
  /\ Attach(<<session, s>>)
  /\ pc' = [pc EXCEPT ![<<session, s>>] = "loop"]
  /\ UNCHANGED <<loopVars, lastBar, decided, forming, traded>>

\* A symbol whose client did not connect has no thread.
ThreadsStarted ==
  /\ lpc = "starting"
  /\ lpc' = "running"
  /\ UNCHANGED <<connectionVars, session, stopped, threadVars, forming, traded>>

FailsMutant ==
  /\ lpc \in {"account", "starting", "running"} /\ session < MaxSessions
  /\ lpc' = "joining"
  /\ UNCHANGED <<connectionVars, session, stopped, threadVars, forming, traded>>

\* An exception in the pass: stop_symbol_threads sets every stop_event.
Fails ==
  /\ lpc \in {"account", "starting", "running"} /\ session < MaxSessions
  /\ stopped' = stopped \cup {session}
  /\ lpc' = "joining"
  /\ UNCHANGED <<connectionVars, session, threadVars, forming, traded>>

\* The threads have ended or ten seconds are over; every client is released.
Release ==
  /\ lpc = "joining"
  /\ attached' = [c \in Client |-> IF c[1] = session THEN None ELSE attached[c]]
  /\ lpc' = "released"
  /\ UNCHANGED <<up, generation, inside, session, stopped, threadVars, forming, traded>>

\* teardown_connection; then the next pass, or the end of the process.
Teardown ==
  /\ lpc \in {"released", "quitting"} /\ ApiFree
  /\ up' \in {up, FALSE}
  /\ generation' = generation + 1
  /\ session' = session + 1
  /\ lpc' = IF lpc = "released" THEN "connect" ELSE "off"
  /\ UNCHANGED <<attached, inside, stopped, threadVars, forming, traded>>

\* KeyboardInterrupt, then the finally: the symbols' clients are released, the main
\* client is left to the generation.
Interrupt ==
  /\ lpc \notin {"quitting", "off"}
  /\ stopped' = stopped \cup {session}
  /\ attached' = [c \in Client |-> IF c[1] = session /\ c[2] # None THEN None ELSE attached[c]]
  /\ lpc' = "quitting"
  /\ UNCHANGED <<up, generation, inside, session, threadVars, forming, traded>>

LoopStep ==
  \/ Connect \/ ConnectFails \/ NoAccount \/ AccountRead
  \/ (\E s \in Symbol : StartThread(s))
  \/ ThreadsStarted \/ Fails \/ Release \/ Teardown \/ Interrupt

-----------------------------------------------------------------------------
(* A symbol thread: run_loop.                                              *)

GoesTo(t, point) == pc' = [pc EXCEPT ![t] = point]

Stopped(t) == t[1] \in stopped

LoopEnds(t) ==
  /\ pc[t] \in {"loop", "waiting"} /\ Stopped(t)
  /\ GoesTo(t, "ended")
  /\ UNCHANGED <<connectionVars, loopVars, lastBar, decided, forming, traded>>

\* wait_for_new_bar, through the symbol's client.
BeginWait(t) ==
  /\ pc[t] = "loop" /\ ~Stopped(t)
  /\ Connected(t) /\ up /\ ApiFree
  /\ lastBar' = [lastBar EXCEPT ![t] = forming]
  /\ GoesTo(t, "waiting")
  /\ UNCHANGED <<connectionVars, loopVars, decided, forming, traded>>

SeeNewBarMutant(t) ==
  /\ pc[t] = "waiting"
  /\ Connected(t) /\ up /\ ApiFree
  /\ forming >= lastBar[t]
  /\ GoesTo(t, "fetching")
  /\ UNCHANGED <<connectionVars, loopVars, lastBar, decided, forming, traded>>

\* A stop that comes after the check of this poll is not seen.
SeeNewBar(t) ==
  /\ pc[t] = "waiting"
  /\ Connected(t) /\ up /\ ApiFree
  /\ forming > lastBar[t]
  /\ GoesTo(t, "fetching")
  /\ UNCHANGED <<connectionVars, loopVars, lastBar, decided, forming, traded>>

\* The terminal's latest bars without the one that is forming.
Fetch(t) ==
  /\ pc[t] = "fetching" /\ up /\ ApiFree
  /\ decided' = [decided EXCEPT ![t] = forming - 1]
  /\ GoesTo(t, "deciding")
  /\ UNCHANGED <<connectionVars, loopVars, lastBar, forming, traded>>

\* The wait times out, no bars come, there is no signal or the entry is given up.
SkipBar(t) ==
  /\ pc[t] \in {"waiting", "fetching", "deciding"}
  /\ GoesTo(t, "loop")
  /\ UNCHANGED <<connectionVars, loopVars, lastBar, decided, forming, traded>>

\* The last check of stop_event, before trade.
Enter(t) ==
  /\ pc[t] = "deciding" /\ ~Stopped(t)
  /\ GoesTo(t, "sending")
  /\ UNCHANGED <<connectionVars, loopVars, lastBar, decided, forming, traded>>

SendOrderMutant(t) ==
  /\ pc[t] = "sending" /\ ApiFree
  /\ IF up THEN inside' = t /\ GoesTo(t, "inside")
           ELSE UNCHANGED inside /\ GoesTo(t, "loop")
  /\ UNCHANGED <<up, generation, attached, loopVars, lastBar, decided, forming, traded>>

\* order_send: under api_lock the main client of the thread's session is asked again
\* whether it is connected.
SendOrder(t) ==
  /\ pc[t] = "sending" /\ ApiFree
  /\ IF Connected(MainClient(t[1])) /\ up
     THEN inside' = t /\ GoesTo(t, "inside")
     ELSE UNCHANGED inside /\ GoesTo(t, "loop")
  /\ UNCHANGED <<up, generation, attached, loopVars, lastBar, decided, forming, traded>>

\* Executed, with or without an answer; or not, and perhaps sent again.
OrderReturns(t, executed) ==
  /\ inside = t
  /\ inside' = None
  /\ IF executed
     THEN /\ traded' = [traded EXCEPT ![t[2]] = @ \cup {decided[t]}]
          /\ GoesTo(t, "loop")
     ELSE /\ \E point \in {"sending", "loop"} : GoesTo(t, point)
          /\ UNCHANGED traded
  /\ UNCHANGED <<up, generation, attached, loopVars, lastBar, decided, forming>>

ThreadStep(t) ==
  \/ LoopEnds(t) \/ BeginWait(t) \/ SeeNewBar(t) \/ Fetch(t) \/ SkipBar(t) \/ Enter(t)
  \/ SendOrder(t)
  \/ \E executed \in BOOLEAN : OrderReturns(t, executed)

-----------------------------------------------------------------------------
(* The terminal.                                                           *)

BarOpens ==
  /\ forming < MaxBars
  /\ forming' = forming + 1
  /\ UNCHANGED <<connectionVars, loopVars, threadVars, traded>>

\* The terminal is closed or restarted.
ConnectionLost ==
  /\ up
  /\ up' = FALSE
  /\ UNCHANGED <<generation, attached, inside, loopVars, threadVars, forming, traded>>

SessionInit ==
  /\ up = FALSE /\ generation = 0 /\ attached = [c \in Client |-> None] /\ inside = None
  /\ session = 1 /\ lpc = "connect" /\ stopped = {}
  /\ pc = [t \in Thread |-> "none"]
  /\ lastBar = [t \in Thread |-> 0] /\ decided = [t \in Thread |-> 0]
  /\ forming = 1
  /\ traded = [s \in Symbol |-> {}]

SessionNext ==
  \/ LoopStep
  \/ \E t \in Thread : ThreadStep(t)
  \/ BarOpens \/ ConnectionLost

SessionSpec == SessionInit /\ [][SessionNext]_sessionVars

-----------------------------------------------------------------------------
(* SessionFairness: every thread goes on, order_send returns and is sent   *)
(* again only so many times, connect and account_info succeed in the end   *)
(* when they are tried again and again.                                    *)

SessionFairness ==
  /\ SF_sessionVars(Connect) /\ SF_sessionVars(AccountRead) /\ WF_sessionVars(NoAccount)
  /\ WF_sessionVars(ThreadsStarted)
  /\ WF_sessionVars(Release) /\ SF_sessionVars(Teardown)
  /\ \A t \in Thread :
       /\ WF_sessionVars(LoopEnds(t)) /\ WF_sessionVars(SkipBar(t)) /\ SF_sessionVars(SendOrder(t))
       /\ SF_sessionVars(inside = t /\ OrderReturns(t, FALSE) /\ pc'[t] = "loop")

FairSessionSpec == SessionSpec /\ SessionFairness

-----------------------------------------------------------------------------
(* Safety.                                                                 *)

\* A thread that outlives its session never reaches the broker again: the order
\* that is on its way belongs to the current pass, and none is after the shutdown.
OrdersOfThisSession ==
  inside # None => inside[1] = session /\ lpc # "off"

\* "makes every client attached before it read as disconnected" (mt5_client.py:29).
OldClientsAreOff ==
  \A c \in Client : Connected(c) => c[1] = session /\ lpc # "off"

\* No bar of a symbol is traded twice, across retries, reconnects and threads that
\* outlive theirs.
NoBarTradedTwice ==
  \A t \in Thread : inside = t => decided[t] \notin traded[t[2]]

(* Why they hold: the generation counts the passes, order_send keeps the pass   *)
(* from ending, and a thread of the current pass only looks ahead of what its   *)
(* symbol has traded.                                                           *)

SessionCounts ==
  /\ generation = session - 1
  /\ session > MaxSessions => lpc = "off"
  /\ lpc \in {"joining", "released"} => session < MaxSessions

AttachedInItsPass ==
  \A c \in Client : attached[c] # None =>
    /\ attached[c] = c[1] - 1 /\ c[1] <= session
    /\ lpc = "off" => c[1] < session

LaterThreadsWait == \A t \in Thread : t[1] > session => pc[t] = "none"

InsideHoldsTheLock ==
  inside # None => inside[1] = session /\ lpc # "off" /\ pc[inside] = "inside"

BarsOfThePast ==
  /\ forming > 0
  /\ \A s \in Symbol : \A b \in traded[s] : b < forming
  /\ \A t \in Thread : decided[t] < forming
  /\ \A t \in Thread : pc[t] = "fetching" => forming > lastBar[t]

NextBarIsUntraded ==
  \A t \in Thread : t[1] = session => \A b \in traded[t[2]] :
    /\ pc[t] \in {"waiting", "fetching"} => b < lastBar[t]
    /\ pc[t] \in {"deciding", "sending", "inside"} => b < decided[t]

\* The inductive invariant behind the safety properties.
SessionInv ==
  /\ SessionTypeOK
  /\ SessionCounts /\ AttachedInItsPass /\ LaterThreadsWait /\ InsideHoldsTheLock
  /\ BarsOfThePast /\ NextBarIsUntraded

-----------------------------------------------------------------------------
(* Liveness.                                                               *)

\* A thread left behind by a reconnect ends.
ZombiesEnd ==
  \A t \in Thread : t[1] < session ~> pc[t] \in {"none", "ended"}

\* A failed pass is followed by a running one: neither a thread in order_send nor a
\* failed connect stops the main thread for ever.
ReconnectEnds == lpc = "joining" ~> lpc \in {"running", "off"}

=============================================================================
