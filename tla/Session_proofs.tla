--------------------------- MODULE Session_proofs ---------------------------
(* The safety properties of Session, for every number of symbols, passes and *)
(* bars.                                                                     *)
EXTENDS Session, TLAPS

-----------------------------------------------------------------------------
(* Threads and clients.                                                    *)

\* A pass and a symbol name one thread.
LEMMA ThreadIdentity ==
  ASSUME NEW t \in Thread, NEW u \in Thread, t[1] = u[1], t[2] = u[2]
  PROVE  t = u
BY DEF Thread

\* What a thread is made of.
LEMMA ThreadParts ==
  ASSUME NEW t \in Thread
  PROVE  t[1] \in Pass /\ t[2] \in Symbol /\ MainClient(t[1]) \in Client
BY DEF Thread, Client, MainClient

\* Moving a thread moves no other one.
LEMMA ThreadMoves ==
  ASSUME SessionTypeOK, NEW t \in Thread, NEW point \in ThreadPoint, GoesTo(t, point)
  PROVE  /\ pc' \in [Thread -> ThreadPoint]
         /\ pc'[t] = point
         /\ \A u \in Thread : u # t => pc'[u] = pc[u]
BY DEF SessionTypeOK, GoesTo

\* A client that reads as connected belongs to the pass that is running.
LEMMA ConnectedInItsPass ==
  ASSUME SessionInv, NEW c \in Client, Connected(c)
  PROVE  c[1] = session /\ lpc # "off"
BY DEF SessionInv, SessionCounts, AttachedInItsPass, Connected, Client, Pass, SessionTypeOK

-----------------------------------------------------------------------------
(* The initial states.                                                     *)

\* The invariant holds before the first connect.
LEMMA InitSession == SessionInit => SessionInv
<1> SUFFICES ASSUME SessionInit PROVE SessionInv
  OBVIOUS
<1> USE SessionAssumption DEF SessionInit
<1>1. SessionTypeOK
  <2>1. up \in BOOLEAN /\ inside \in Thread \cup {None} /\ stopped \in SUBSET Pass
    OBVIOUS
  <2>2. generation \in 0..MaxSessions /\ session \in 1..(MaxSessions + 1) /\ lpc \in LoopPoint
    BY DEF LoopPoint
  <2>3. attached \in [Client -> (0..MaxSessions) \cup {None}]
    OBVIOUS
  <2>4. pc \in [Thread -> ThreadPoint]
    BY DEF ThreadPoint
  <2>5. lastBar \in [Thread -> BarNumber] /\ decided \in [Thread -> BarNumber] /\ forming \in BarNumber
    BY DEF BarNumber
  <2>6. traded \in [Symbol -> SUBSET BarNumber]
    OBVIOUS
  <2>7. QED
    BY <2>1, <2>2, <2>3, <2>4, <2>5, <2>6 DEF SessionTypeOK
<1>2. SessionCounts /\ AttachedInItsPass /\ LaterThreadsWait
  BY DEF SessionCounts, AttachedInItsPass, LaterThreadsWait
<1>3. InsideHoldsTheLock /\ BarsOfThePast
  BY DEF InsideHoldsTheLock, BarsOfThePast
<1>4. NextBarIsUntraded
  BY DEF NextBarIsUntraded
<1>5. QED
  BY <1>1, <1>2, <1>3, <1>4 DEF SessionInv

-----------------------------------------------------------------------------
(* The main thread.                                                        *)

\* A main step that starts no thread and ends no pass disturbs the threads' part of
\* the invariant in nothing.
LEMMA ThreadsUndisturbed ==
  ASSUME SessionInv, UNCHANGED <<threadVars, inside, session, forming, traded>>,
         inside # None => lpc' # "off"
  PROVE  LaterThreadsWait' /\ InsideHoldsTheLock' /\ BarsOfThePast' /\ NextBarIsUntraded'
<1>1. LaterThreadsWait' /\ InsideHoldsTheLock'
  BY DEF SessionInv, LaterThreadsWait, InsideHoldsTheLock, threadVars
<1>2. BarsOfThePast'
  BY DEF SessionInv, BarsOfThePast, threadVars
<1>3. NextBarIsUntraded'
  BY DEF SessionInv, NextBarIsUntraded, threadVars
<1>4. QED
  BY <1>1, <1>2, <1>3

\* A client that connects joins the generation of its pass.
LEMMA AttachJoins ==
  ASSUME SessionInv, NEW c \in Client, c[1] = session, lpc # "off", lpc' # "off",
         session' = session, Attach(c)
  PROVE  /\ up' \in BOOLEAN /\ attached' \in [Client -> (0..MaxSessions) \cup {None}]
         /\ generation' = generation /\ inside' = inside
         /\ AttachedInItsPass'
<1>1. up' \in BOOLEAN /\ attached' \in [Client -> (0..MaxSessions) \cup {None}]
  BY DEF SessionInv, SessionTypeOK, Attach
<1>2. generation' = generation /\ inside' = inside
  BY DEF Attach
<1>3. ASSUME NEW d \in Client, attached'[d] # None
      PROVE  attached'[d] = d[1] - 1 /\ d[1] <= session'
  <2>1. CASE d = c
    BY <2>1 DEF SessionInv, SessionCounts, SessionTypeOK, Attach
  <2>2. CASE d # c
    BY <1>3, <2>2 DEF SessionInv, AttachedInItsPass, SessionTypeOK, Attach
  <2>3. QED
    BY <2>1, <2>2
<1>4. QED
  BY <1>1, <1>2, <1>3 DEF AttachedInItsPass

\* Clients that are released are attached to nothing; the others stay as they are.
LEMMA ReleaseDetaches ==
  ASSUME SessionInv, NEW released \in SUBSET Client, lpc' # "off", session' = session,
         attached' = [c \in Client |-> IF c \in released THEN None ELSE attached[c]]
  PROVE  attached' \in [Client -> (0..MaxSessions) \cup {None}] /\ AttachedInItsPass'
<1>1. attached' \in [Client -> (0..MaxSessions) \cup {None}]
  BY DEF SessionInv, SessionTypeOK
<1>2. ASSUME NEW d \in Client, attached'[d] # None
      PROVE  attached'[d] = d[1] - 1 /\ d[1] <= session'
  BY <1>2 DEF SessionInv, AttachedInItsPass
<1>3. QED
  BY <1>1, <1>2 DEF AttachedInItsPass

\* Every step of the main thread keeps the invariant.
LEMMA MainStepSession ==
  ASSUME SessionInv, LoopStep
  PROVE  SessionInv'
<1> USE SessionAssumption DEF LoopPoint
<1>1. CASE Connect
  <2>1. MainClient(session) \in Client /\ MainClient(session)[1] = session
    BY <1>1 DEF Connect, MainClient, Client
  <2>2. Attach(MainClient(session)) /\ lpc # "off" /\ lpc' = "account" /\ session' = session
    BY <1>1 DEF Connect, loopVars
  <2>3. AttachedInItsPass' /\ generation' = generation /\ inside' = inside
    BY <2>1, <2>2, AttachJoins
  <2>4. SessionTypeOK'
    BY <1>1, <2>1, <2>2, AttachJoins DEF SessionInv, SessionTypeOK, Connect, threadVars
  <2>5. SessionCounts'
    BY <1>1, <2>3 DEF SessionInv, SessionCounts, Connect
  <2>6. QED
    BY <1>1, <2>2, <2>3, <2>4, <2>5, ThreadsUndisturbed DEF Connect, SessionInv
<1>2. CASE ConnectFails
  <2>1. SessionTypeOK' /\ SessionCounts' /\ AttachedInItsPass'
    BY <1>2 DEF SessionInv, SessionTypeOK, SessionCounts, AttachedInItsPass, ConnectFails,
                AttemptFails, loopVars, threadVars
  <2>2. QED
    BY <1>2, <2>1, ThreadsUndisturbed DEF ConnectFails, AttemptFails, loopVars, SessionInv
<1>3. CASE NoAccount \/ AccountRead \/ ThreadsStarted
  <2>1. /\ UNCHANGED <<connectionVars, session, stopped, threadVars, forming, traded>>
        /\ lpc' \in {"connect", "starting", "running"} /\ lpc # "off"
    BY <1>3 DEF NoAccount, AccountRead, ThreadsStarted
  <2>2. SessionTypeOK'
    BY <2>1 DEF SessionInv, SessionTypeOK, connectionVars, threadVars
  <2>3. SessionCounts' /\ AttachedInItsPass'
    BY <2>1 DEF SessionInv, SessionCounts, AttachedInItsPass, connectionVars
  <2>4. QED
    BY <2>1, <2>2, <2>3, ThreadsUndisturbed DEF connectionVars, SessionInv
<1>4. ASSUME NEW s \in Symbol, StartThread(s) PROVE SessionInv'
  <2> DEFINE t == <<session, s>>
  <2>1. session \in Pass
    BY <1>4 DEF SessionInv, SessionTypeOK, SessionCounts, StartThread, Pass
  <2>2. t \in Thread /\ t \in Client /\ t[1] = session /\ t[2] = s
    BY <2>1 DEF Thread, Client
  <2>3. /\ Attach(t) /\ lpc = "starting" /\ lpc' = "starting" /\ session' = session
        /\ UNCHANGED <<lastBar, decided, forming, traded, stopped>>
    BY <1>4 DEF StartThread, loopVars
  <2>4. AttachedInItsPass' /\ generation' = generation /\ inside' = inside
    BY <2>2, <2>3, AttachJoins
  <2>5. /\ pc' \in [Thread -> ThreadPoint] /\ pc'[t] = "loop" /\ pc[t] = "none"
        /\ \A u \in Thread : u # t => pc'[u] = pc[u]
    BY <1>4, <2>2 DEF StartThread, SessionInv, SessionTypeOK, ThreadPoint
  <2>6. SessionTypeOK'
    BY <2>2, <2>3, <2>5, AttachJoins DEF SessionInv, SessionTypeOK
  <2>7. SessionCounts'
    BY <2>3, <2>4 DEF SessionInv, SessionCounts
  <2>8. LaterThreadsWait'
    <3>1. session \in Int
      BY <2>1 DEF Pass
    <3>2. QED
      BY <2>2, <2>3, <2>5, <3>1 DEF SessionInv, LaterThreadsWait
  <2>9. InsideHoldsTheLock'
    BY <2>3, <2>4, <2>5 DEF SessionInv, InsideHoldsTheLock, SessionTypeOK
  <2>10. BarsOfThePast'
    BY <2>3, <2>5 DEF SessionInv, BarsOfThePast
  <2>11. NextBarIsUntraded'
    BY <2>3, <2>5 DEF SessionInv, NextBarIsUntraded
  <2>12. QED
    BY <2>4, <2>6, <2>7, <2>8, <2>9, <2>10, <2>11 DEF SessionInv
<1>5. CASE Fails
  <2>1. /\ UNCHANGED <<connectionVars, session, threadVars, forming, traded>>
        /\ lpc' = "joining" /\ session < MaxSessions /\ lpc # "off"
        /\ stopped' = stopped \cup {session}
    BY <1>5 DEF Fails
  <2>2. SessionTypeOK'
    BY <2>1 DEF SessionInv, SessionTypeOK, Pass, connectionVars, threadVars
  <2>3. SessionCounts' /\ AttachedInItsPass'
    BY <2>1 DEF SessionInv, SessionCounts, AttachedInItsPass, connectionVars
  <2>4. QED
    BY <2>1, <2>2, <2>3, ThreadsUndisturbed DEF connectionVars, SessionInv
<1>6. CASE Release
  <2> DEFINE released == {c \in Client : c[1] = session}
  <2>1. /\ UNCHANGED <<up, generation, inside, session, stopped, threadVars, forming, traded>>
        /\ lpc = "joining" /\ lpc' = "released"
    BY <1>6 DEF Release
  <2>2. attached' = [c \in Client |-> IF c \in released THEN None ELSE attached[c]]
    BY <1>6 DEF Release
  <2>3. released \in SUBSET Client
    OBVIOUS
  <2> HIDE DEF released
  <2>4. attached' \in [Client -> (0..MaxSessions) \cup {None}] /\ AttachedInItsPass'
    BY <2>1, <2>2, <2>3, ReleaseDetaches
  <2>5. SessionTypeOK'
    BY <2>1, <2>4 DEF SessionInv, SessionTypeOK, threadVars
  <2>6. SessionCounts'
    BY <2>1 DEF SessionInv, SessionCounts
  <2>7. QED
    BY <2>1, <2>4, <2>5, <2>6, ThreadsUndisturbed DEF SessionInv
<1>7. CASE Teardown
  <2>1. /\ UNCHANGED <<attached, inside, stopped, threadVars, forming, traded>>
        /\ up' \in BOOLEAN /\ inside = None
        /\ generation' = generation + 1 /\ session' = session + 1
    BY <1>7 DEF SessionInv, SessionTypeOK, Teardown, ApiFree
  <2>2. session \in Pass
    BY <1>7 DEF SessionInv, SessionTypeOK, SessionCounts, Teardown, Pass
  <2>3. lpc' \in {"connect", "off"} /\ (lpc' = "connect" => session < MaxSessions)
    BY <1>7 DEF SessionInv, SessionCounts, Teardown
  <2>4. SessionTypeOK'
    <3>1. generation' \in 0..MaxSessions /\ session' \in 1..(MaxSessions + 1)
      BY <2>1, <2>2 DEF SessionInv, SessionTypeOK, SessionCounts, Pass
    <3>2. QED
      BY <2>1, <2>3, <3>1 DEF SessionInv, SessionTypeOK, threadVars
  <2>5. SessionCounts'
    BY <2>1, <2>2, <2>3 DEF SessionInv, SessionCounts, SessionTypeOK, Pass
  <2>6. AttachedInItsPass'
    <3>1. ASSUME NEW c \in Client, attached[c] # None
          PROVE  attached[c] = c[1] - 1 /\ c[1] < session'
      BY <2>1, <2>2, <3>1 DEF SessionInv, AttachedInItsPass, Client, Pass
    <3>2. ASSUME NEW c \in Client, c[1] < session'
          PROVE  c[1] <= session'
      BY <2>1, <2>2, <3>2 DEF Client, Pass
    <3>3. QED
      BY <2>1, <3>1, <3>2 DEF AttachedInItsPass
  <2>7. LaterThreadsWait'
    BY <2>1, <2>2, ThreadParts DEF SessionInv, LaterThreadsWait, Pass, threadVars
  <2>8. InsideHoldsTheLock' /\ BarsOfThePast'
    BY <2>1 DEF SessionInv, InsideHoldsTheLock, BarsOfThePast, threadVars
  <2>9. NextBarIsUntraded'
    <3>1. ASSUME NEW t \in Thread, t[1] = session' PROVE pc'[t] = "none"
      BY <2>1, <2>2, <3>1 DEF SessionInv, LaterThreadsWait, Pass, threadVars
    <3>2. QED
      BY <3>1 DEF NextBarIsUntraded
  <2>10. QED
    BY <2>4, <2>5, <2>6, <2>7, <2>8, <2>9 DEF SessionInv
<1>8. CASE Interrupt
  <2> DEFINE released == {c \in Client : c[1] = session /\ c[2] # None}
  <2>1. /\ UNCHANGED <<up, generation, inside, session, threadVars, forming, traded>>
        /\ lpc # "off" /\ lpc' = "quitting" /\ stopped' = stopped \cup {session}
    BY <1>8 DEF Interrupt
  <2>2. attached' = [c \in Client |-> IF c \in released THEN None ELSE attached[c]]
    BY <1>8 DEF Interrupt
  <2>3. released \in SUBSET Client
    OBVIOUS
  <2> HIDE DEF released
  <2>4. attached' \in [Client -> (0..MaxSessions) \cup {None}] /\ AttachedInItsPass'
    BY <2>1, <2>2, <2>3, ReleaseDetaches
  <2>5. SessionCounts'
    BY <2>1 DEF SessionInv, SessionCounts
  <2>6. SessionTypeOK'
    <3>1. session \in Pass
      BY <2>1 DEF SessionInv, SessionCounts, SessionTypeOK, Pass
    <3>2. QED
      BY <2>1, <2>4, <3>1 DEF SessionInv, SessionTypeOK, threadVars
  <2>7. QED
    BY <2>1, <2>4, <2>5, <2>6, ThreadsUndisturbed DEF SessionInv
<1>9. QED
  BY <1>1, <1>2, <1>3, <1>4, <1>5, <1>6, <1>7, <1>8 DEF LoopStep

-----------------------------------------------------------------------------
(* The symbol threads.                                                     *)

\* A thread step that leaves the connection and the main thread alone keeps their
\* part of the invariant.
LEMMA MainUndisturbed ==
  ASSUME SessionInv, UNCHANGED <<generation, attached, loopVars>>
  PROVE  SessionCounts' /\ AttachedInItsPass'
BY DEF SessionInv, SessionCounts, AttachedInItsPass, loopVars

\* A thread that runs belongs to a pass that has begun.
LEMMA LaterThreadsStillWait ==
  ASSUME SessionInv, UNCHANGED loopVars, NEW t \in Thread, pc[t] # "none",
         \A u \in Thread : u # t => pc'[u] = pc[u]
  PROVE  LaterThreadsWait'
BY DEF SessionInv, LaterThreadsWait, loopVars

\* A thread that is not in order_send leaves the lock to whoever holds it.
LEMMA LockUndisturbed ==
  ASSUME SessionInv, UNCHANGED <<inside, loopVars>>, NEW t \in Thread, pc[t] # "inside",
         \A u \in Thread : u # t => pc'[u] = pc[u]
  PROVE  InsideHoldsTheLock'
BY DEF SessionInv, InsideHoldsTheLock, SessionTypeOK, loopVars

\* What another thread does with its own bars does not change a thread's.
LEMMA OthersBars ==
  ASSUME SessionInv, UNCHANGED <<session, traded>>, NEW t \in Thread,
         \A u \in Thread : u # t =>
           pc'[u] = pc[u] /\ lastBar'[u] = lastBar[u] /\ decided'[u] = decided[u],
         \A b \in traded[t[2]] : t[1] = session =>
           /\ pc'[t] \in {"waiting", "fetching"} => b < lastBar'[t]
           /\ pc'[t] \in {"deciding", "sending", "inside"} => b < decided'[t]
  PROVE  NextBarIsUntraded'
<1>1. ASSUME NEW u \in Thread, u[1] = session', NEW b \in traded'[u[2]]
      PROVE  /\ pc'[u] \in {"waiting", "fetching"} => b < lastBar'[u]
             /\ pc'[u] \in {"deciding", "sending", "inside"} => b < decided'[u]
  <2>1. CASE u = t
    BY <1>1, <2>1
  <2>2. CASE u # t
    BY <1>1, <2>2 DEF SessionInv, NextBarIsUntraded
  <2>3. QED
    BY <2>1, <2>2
<1>2. QED
  BY <1>1 DEF NextBarIsUntraded

\* Every step of a symbol thread keeps the invariant.
LEMMA ThreadStepSession ==
  ASSUME SessionInv, NEW t \in Thread, ThreadStep(t)
  PROVE  SessionInv'
<1> USE DEF ThreadPoint
<1>1. CASE LoopEnds(t) \/ SkipBar(t) \/ Enter(t)
  <2>1. PICK point \in {"ended", "loop", "sending"} :
          /\ GoesTo(t, point) /\ pc[t] \notin {"none", "inside"}
          /\ point = "sending" => pc[t] = "deciding"
          /\ UNCHANGED <<connectionVars, loopVars, lastBar, decided, forming, traded>>
    BY <1>1 DEF LoopEnds, SkipBar, Enter
  <2>2. /\ pc' \in [Thread -> ThreadPoint] /\ pc'[t] = point
        /\ \A u \in Thread : u # t => pc'[u] = pc[u]
    BY <2>1, ThreadMoves DEF SessionInv
  <2>3. SessionTypeOK'
    BY <2>1, <2>2 DEF SessionInv, SessionTypeOK, connectionVars, loopVars
  <2>4. SessionCounts' /\ AttachedInItsPass' /\ LaterThreadsWait' /\ InsideHoldsTheLock'
    BY <2>1, <2>2, MainUndisturbed, LaterThreadsStillWait, LockUndisturbed
       DEF connectionVars
  <2>5. BarsOfThePast'
    BY <2>1, <2>2 DEF SessionInv, BarsOfThePast
  <2>6. NextBarIsUntraded'
    BY <2>1, <2>2, OthersBars DEF SessionInv, NextBarIsUntraded, loopVars
  <2>7. QED
    BY <2>3, <2>4, <2>5, <2>6 DEF SessionInv
<1>2. CASE BeginWait(t)
  <2>1. /\ GoesTo(t, "waiting") /\ pc[t] = "loop"
        /\ lastBar' = [lastBar EXCEPT ![t] = forming]
        /\ UNCHANGED <<connectionVars, loopVars, decided, forming, traded>>
    BY <1>2 DEF BeginWait
  <2>2. /\ pc' \in [Thread -> ThreadPoint] /\ pc'[t] = "waiting"
        /\ \A u \in Thread : u # t => pc'[u] = pc[u]
    BY <2>1, ThreadMoves DEF SessionInv
  <2>3. /\ lastBar' \in [Thread -> BarNumber] /\ lastBar'[t] = forming
        /\ \A u \in Thread : u # t => lastBar'[u] = lastBar[u]
    BY <2>1 DEF SessionInv, SessionTypeOK
  <2>4. SessionTypeOK'
    BY <2>1, <2>2, <2>3 DEF SessionInv, SessionTypeOK, connectionVars, loopVars
  <2>5. SessionCounts' /\ AttachedInItsPass' /\ LaterThreadsWait' /\ InsideHoldsTheLock'
    BY <2>1, <2>2, MainUndisturbed, LaterThreadsStillWait, LockUndisturbed
       DEF connectionVars
  <2>6. BarsOfThePast'
    BY <2>1, <2>2, <2>3 DEF SessionInv, BarsOfThePast
  <2>7. \A b \in traded[t[2]] : b < lastBar'[t]
    BY <2>3, ThreadParts DEF SessionInv, BarsOfThePast
  <2>8. NextBarIsUntraded'
    BY <2>1, <2>2, <2>3, <2>7, OthersBars DEF loopVars
  <2>9. QED
    BY <2>4, <2>5, <2>6, <2>8 DEF SessionInv
<1>3. CASE SeeNewBar(t)
  <2>1. /\ GoesTo(t, "fetching") /\ pc[t] = "waiting" /\ forming > lastBar[t]
        /\ UNCHANGED <<connectionVars, loopVars, lastBar, decided, forming, traded>>
    BY <1>3 DEF SeeNewBar
  <2>2. /\ pc' \in [Thread -> ThreadPoint] /\ pc'[t] = "fetching"
        /\ \A u \in Thread : u # t => pc'[u] = pc[u]
    BY <2>1, ThreadMoves DEF SessionInv
  <2>3. SessionTypeOK'
    BY <2>1, <2>2 DEF SessionInv, SessionTypeOK, connectionVars, loopVars
  <2>4. SessionCounts' /\ AttachedInItsPass' /\ LaterThreadsWait' /\ InsideHoldsTheLock'
    BY <2>1, <2>2, MainUndisturbed, LaterThreadsStillWait, LockUndisturbed
       DEF connectionVars
  <2>5. BarsOfThePast'
    BY <2>1, <2>2 DEF SessionInv, BarsOfThePast
  <2>6. NextBarIsUntraded'
    BY <2>1, <2>2, OthersBars DEF SessionInv, NextBarIsUntraded, loopVars
  <2>7. QED
    BY <2>3, <2>4, <2>5, <2>6 DEF SessionInv
<1>4. CASE Fetch(t)
  <2>1. /\ GoesTo(t, "deciding") /\ pc[t] = "fetching"
        /\ decided' = [decided EXCEPT ![t] = forming - 1]
        /\ UNCHANGED <<connectionVars, loopVars, lastBar, forming, traded>>
    BY <1>4 DEF Fetch
  <2>2. /\ pc' \in [Thread -> ThreadPoint] /\ pc'[t] = "deciding"
        /\ \A u \in Thread : u # t => pc'[u] = pc[u]
    BY <2>1, ThreadMoves DEF SessionInv
  <2>3. forming - 1 \in BarNumber
    BY SessionAssumption DEF SessionInv, SessionTypeOK, BarsOfThePast, BarNumber
  <2>4. /\ decided' \in [Thread -> BarNumber] /\ decided'[t] = forming - 1
        /\ \A u \in Thread : u # t => decided'[u] = decided[u]
    BY <2>1, <2>3 DEF SessionInv, SessionTypeOK
  <2>5. SessionTypeOK'
    BY <2>1, <2>2, <2>4 DEF SessionInv, SessionTypeOK, connectionVars, loopVars
  <2>6. SessionCounts' /\ AttachedInItsPass' /\ LaterThreadsWait' /\ InsideHoldsTheLock'
    BY <2>1, <2>2, MainUndisturbed, LaterThreadsStillWait, LockUndisturbed
       DEF connectionVars
  <2>7. BarsOfThePast'
    <3>1. forming \in Int
      BY DEF SessionInv, SessionTypeOK, BarNumber
    <3>2. \A u \in Thread : decided'[u] < forming'
      BY <2>1, <2>4, <3>1 DEF SessionInv, BarsOfThePast
    <3>3. \A u \in Thread : pc'[u] = "fetching" => forming' > lastBar'[u]
      BY <2>1, <2>2 DEF SessionInv, BarsOfThePast
    <3>4. QED
      BY <2>1, <3>2, <3>3 DEF SessionInv, BarsOfThePast
  <2>8. ASSUME NEW b \in traded[t[2]], t[1] = session PROVE b < decided'[t]
    <3>1. b < lastBar[t] /\ lastBar[t] < forming
      BY <2>1, <2>8 DEF SessionInv, NextBarIsUntraded, BarsOfThePast, SessionTypeOK, BarNumber
    <3>2. b \in Int /\ lastBar[t] \in Int /\ forming \in Int
      BY ThreadParts DEF SessionInv, SessionTypeOK, BarNumber
    <3>3. QED
      BY <2>4, <3>1, <3>2
  <2>9. NextBarIsUntraded'
    BY <2>1, <2>2, <2>4, <2>8, OthersBars DEF loopVars
  <2>10. QED
    BY <2>5, <2>6, <2>7, <2>9 DEF SessionInv
<1>5. CASE SendOrder(t)
  <2>1. /\ pc[t] = "sending" /\ inside = None
        /\ UNCHANGED <<generation, attached, up, loopVars, lastBar, decided, forming, traded>>
    BY <1>5 DEF SendOrder, ApiFree
  <2>2. \/ Connected(MainClient(t[1])) /\ inside' = t /\ GoesTo(t, "inside")
        \/ inside' = inside /\ GoesTo(t, "loop")
    BY <1>5 DEF SendOrder
  <2>3. PICK point \in {"inside", "loop"} : GoesTo(t, point) /\ (point = "loop" => inside' = inside)
                                            /\ (point = "inside" => inside' = t /\ Connected(MainClient(t[1])))
    BY <2>2
  <2>4. /\ pc' \in [Thread -> ThreadPoint] /\ pc'[t] = point
        /\ \A u \in Thread : u # t => pc'[u] = pc[u]
    BY <2>3, ThreadMoves DEF SessionInv
  <2>5. inside' \in Thread \cup {None}
    BY <2>1, <2>3
  <2>6. SessionTypeOK'
    BY <2>1, <2>4, <2>5 DEF SessionInv, SessionTypeOK, loopVars
  <2>7. SessionCounts' /\ AttachedInItsPass' /\ LaterThreadsWait'
    BY <2>1, <2>4, MainUndisturbed, LaterThreadsStillWait
  <2>8. InsideHoldsTheLock'
    <3>1. CASE point = "loop"
      BY <2>1, <2>3, <3>1 DEF InsideHoldsTheLock
    <3>2. CASE point = "inside"
      <4>1. MainClient(t[1])[1] = t[1] /\ MainClient(t[1]) \in Client
        BY ThreadParts DEF MainClient
      <4>2. t[1] = session /\ lpc # "off"
        BY <2>3, <3>2, <4>1, ConnectedInItsPass
      <4>3. QED
        BY <2>1, <2>3, <2>4, <3>2, <4>2 DEF InsideHoldsTheLock, loopVars
    <3>3. QED
      BY <3>1, <3>2
  <2>9. BarsOfThePast'
    BY <2>1, <2>4 DEF SessionInv, BarsOfThePast
  <2>10. NextBarIsUntraded'
    BY <2>1, <2>4, OthersBars DEF SessionInv, NextBarIsUntraded, loopVars
  <2>11. QED
    BY <2>6, <2>7, <2>8, <2>9, <2>10 DEF SessionInv
<1>6. ASSUME NEW executed \in BOOLEAN, OrderReturns(t, executed) PROVE SessionInv'
  <2>1. /\ inside = t /\ inside' = None
        /\ UNCHANGED <<generation, attached, up, loopVars, lastBar, decided, forming>>
    BY <1>6 DEF OrderReturns
  <2>2. pc[t] = "inside" /\ t[1] = session
    BY <2>1, SessionAssumption DEF SessionInv, InsideHoldsTheLock, Thread, Pass
  <2>3. PICK point \in {"sending", "loop"} : GoesTo(t, point) /\ (executed => point = "loop")
    BY <1>6 DEF OrderReturns
  <2>4. /\ pc' \in [Thread -> ThreadPoint] /\ pc'[t] = point
        /\ \A u \in Thread : u # t => pc'[u] = pc[u]
    BY <2>3, ThreadMoves DEF SessionInv
  <2>5. /\ executed => traded' = [traded EXCEPT ![t[2]] = @ \cup {decided[t]}]
        /\ ~executed => traded' = traded
    BY <1>6 DEF OrderReturns
  <2>6. decided[t] \in BarNumber /\ decided[t] < forming
    BY DEF SessionInv, SessionTypeOK, BarsOfThePast
  <2>7. \A s \in Symbol : \A b \in traded'[s] :
          b \in traded[s] \/ (executed /\ s = t[2] /\ b = decided[t])
    BY <2>5 DEF SessionInv, SessionTypeOK
  <2>8. SessionTypeOK'
    <3>1. traded' \in [Symbol -> SUBSET BarNumber]
      BY <2>5, <2>6 DEF SessionInv, SessionTypeOK
    <3>2. QED
      BY <2>1, <2>4, <3>1 DEF SessionInv, SessionTypeOK, loopVars
  <2>9. SessionCounts' /\ AttachedInItsPass' /\ LaterThreadsWait'
    BY <2>1, <2>2, <2>4, MainUndisturbed, LaterThreadsStillWait
  <2>10. InsideHoldsTheLock'
    BY <2>1 DEF InsideHoldsTheLock
  <2>11. BarsOfThePast'
    BY <2>1, <2>3, <2>4, <2>6, <2>7 DEF SessionInv, BarsOfThePast
  <2>12. NextBarIsUntraded'
    <3>1. ASSUME NEW u \in Thread, u[1] = session', NEW b \in traded'[u[2]]
          PROVE  /\ pc'[u] \in {"waiting", "fetching"} => b < lastBar'[u]
                 /\ pc'[u] \in {"deciding", "sending", "inside"} => b < decided'[u]
      <4>1. u[2] \in Symbol /\ u[1] = session
        BY <2>1, <3>1, ThreadParts DEF loopVars
      <4>2. CASE u = t
        <5>1. CASE executed
          BY <2>3, <2>4, <4>2, <5>1
        <5>2. CASE ~executed
          BY <2>1, <2>2, <2>3, <2>4, <2>5, <4>1, <4>2, <5>2, <3>1 DEF SessionInv, NextBarIsUntraded
        <5>3. QED
          BY <5>1, <5>2
      <4>3. CASE u # t
        <5>1. u[2] # t[2]
          BY <2>2, <4>1, <4>3, ThreadIdentity
        <5>2. b \in traded[u[2]] /\ pc'[u] = pc[u]
          BY <2>4, <2>7, <3>1, <4>1, <4>3, <5>1
        <5>3. QED
          BY <2>1, <4>1, <5>2 DEF SessionInv, NextBarIsUntraded
      <4>4. QED
        BY <4>2, <4>3
    <3>2. QED
      BY <3>1 DEF NextBarIsUntraded
  <2>13. QED
    BY <2>8, <2>9, <2>10, <2>11, <2>12 DEF SessionInv
<1>7. QED
  BY <1>1, <1>2, <1>3, <1>4, <1>5, <1>6 DEF ThreadStep

-----------------------------------------------------------------------------
(* Every step.                                                             *)

\* Every step of the main thread, of a symbol thread and of the terminal keeps what
\* relates the connection, the passes and the traded bars.
THEOREM SessionInductive ==
  ASSUME SessionInv, [SessionNext]_sessionVars
  PROVE  SessionInv'
<1>1. CASE LoopStep
  BY <1>1, MainStepSession
<1>2. ASSUME NEW t \in Thread, ThreadStep(t) PROVE SessionInv'
  BY <1>2, ThreadStepSession
<1>3. CASE BarOpens
  <2>1. forming' = forming + 1 /\ UNCHANGED <<connectionVars, loopVars, threadVars, traded>> /\ forming < MaxBars
    BY <1>3 DEF BarOpens
  <2>2. forming' \in BarNumber /\ forming \in Int
    BY <2>1, SessionAssumption DEF SessionInv, SessionTypeOK, BarNumber
  <2>3. SessionTypeOK'
    BY <2>1, <2>2 DEF SessionInv, SessionTypeOK, connectionVars, loopVars, threadVars
  <2>4. SessionCounts' /\ AttachedInItsPass' /\ LaterThreadsWait' /\ InsideHoldsTheLock'
    BY <2>1 DEF SessionInv, SessionCounts, AttachedInItsPass, LaterThreadsWait,
                InsideHoldsTheLock, connectionVars, loopVars, threadVars
  <2>5. BarsOfThePast'
    BY <2>1, <2>2 DEF SessionInv, BarsOfThePast, SessionTypeOK, BarNumber, threadVars
  <2>6. NextBarIsUntraded'
    BY <2>1 DEF SessionInv, NextBarIsUntraded, loopVars, threadVars
  <2>7. QED
    BY <2>3, <2>4, <2>5, <2>6 DEF SessionInv
<1>4. CASE ConnectionLost
  <2>1. /\ up' = FALSE
        /\ UNCHANGED <<generation, attached, inside, loopVars, threadVars, forming, traded>>
    BY <1>4 DEF ConnectionLost
  <2>2. SessionTypeOK'
    BY <2>1 DEF SessionInv, SessionTypeOK, loopVars, threadVars
  <2>3. QED
    BY <2>1, <2>2, ThreadsUndisturbed, MainUndisturbed
       DEF SessionInv, InsideHoldsTheLock, loopVars
<1>5. CASE UNCHANGED sessionVars
  BY <1>5 DEF sessionVars, connectionVars, loopVars, threadVars, SessionInv, SessionTypeOK, SessionCounts,
              AttachedInItsPass, LaterThreadsWait, InsideHoldsTheLock, BarsOfThePast,
              NextBarIsUntraded
<1>6. QED
  BY <1>1, <1>2, <1>3, <1>4, <1>5 DEF SessionNext

\* The invariant holds in every reachable state.
THEOREM SessionInvariant == SessionSpec => []SessionInv
<1>1. SessionInit => SessionInv
  BY InitSession
<1>2. SessionInv /\ [SessionNext]_sessionVars => SessionInv'
  BY SessionInductive
<1>3. QED
  BY <1>1, <1>2, PTL DEF SessionSpec

\* order_send never runs for a thread of an earlier pass, nor after the shutdown.
THEOREM OnlyThisSessionOrders == SessionSpec => []OrdersOfThisSession
<1>1. SessionInv => OrdersOfThisSession
  BY DEF SessionInv, InsideHoldsTheLock, OrdersOfThisSession
<1>2. QED
  BY <1>1, SessionInvariant, PTL

\* After a teardown every client attached before it reads as disconnected.
THEOREM TeardownDisconnects == SessionSpec => []OldClientsAreOff
<1>1. SessionInv => OldClientsAreOff
  BY ConnectedInItsPass DEF OldClientsAreOff
<1>2. QED
  BY <1>1, SessionInvariant, PTL

\* A symbol's thread never holds an order for a bar the symbol has been traded on.
THEOREM OneTradePerBar == SessionSpec => []NoBarTradedTwice
<1>1. ASSUME SessionInv, NEW t \in Thread, inside = t PROVE decided[t] \notin traded[t[2]]
  <2>1. pc[t] = "inside" /\ t[1] = session
    BY <1>1, SessionAssumption DEF SessionInv, InsideHoldsTheLock, Thread, Pass
  <2>2. decided[t] \in Int
    BY <1>1 DEF SessionInv, SessionTypeOK, BarNumber
  <2>3. QED
    BY <1>1, <2>1, <2>2 DEF SessionInv, NextBarIsUntraded
<1>2. SessionInv => NoBarTradedTwice
  BY <1>1 DEF NoBarTradedTwice
<1>3. QED
  BY <1>2, SessionInvariant, PTL

=============================================================================
