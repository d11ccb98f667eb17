------------------------------ MODULE BarFeed ------------------------------
(***************************************************************************)
(* The bars a symbol thread decides on (src/src/data_manager.py): every    *)
(* new bar it fetches the latest bars of its symbol, of the symbol's       *)
(* higher timeframe (MTA) and of an inter-market symbol, merges each into  *)
(* a CSV file and joins the three.  The inter-market file is shared by all *)
(* threads; nothing locks it.                                              *)
(*                                                                         *)
(* A bar is the number of the slot it opens in; a slot of the higher       *)
(* timeframe is Ratio slots long.  What is in a bar never changes once it  *)
(* has closed, so that a file is the set of the bars it holds.             *)
(***************************************************************************)
EXTENDS Integers, FiniteSetsExt

CONSTANTS
  FeedThread,   \* the traded symbols, a thread each
  Ratio,        \* slots of a higher-timeframe bar
  Chunk,        \* bars of a fetch: 200
  InitialBars,  \* fetch.initial_fetch_bars
  ShutSlots,    \* slots in which the market is closed and no bar opens
  Lag,          \* bound: slots a terminal's history is behind
  FirstSlot, MaxSlot,  \* bounds: when the bot starts first, the last slot
  Saving,       \* values of fetch.save_raw_data_locally
  NoBar

ASSUME FeedAssumption ==
  /\ Ratio \in Nat \ {0} /\ Chunk \in Nat /\ InitialBars \in Nat
  /\ Chunk > Ratio + 1 /\ InitialBars >= Chunk
  /\ Lag \in Nat /\ FirstSlot \in Nat /\ MaxSlot \in Nat
  /\ Saving \subseteq BOOLEAN

VARIABLES
  slot,      \* now: the slot whose bar is forming
  saving,    \* the configuration
  csv,       \* files of a thread's own: bars and higher-timeframe bars
  sharedCsv, \* the file of the inter-market symbol
  feed       \* per thread: where it is in fetch_live, and its locals

feedVars == <<slot, saving, csv, sharedCsv, feed>>

Waiting ==
  [at |-> "wait", newest |-> NoBar, bar |-> NoBar, mta |-> {}, fetched |-> {}, existing |-> {},
   im |-> {}]

-----------------------------------------------------------------------------
(* The terminal.                                                           *)

BarsUntil(t) == (0..t) \ ShutSlots

HigherBarsUntil(t) == {i \div Ratio : i \in BarsUntil(t)}

\* Of a thread's own frame, or of the higher one.
BarsOf(frame, t) == IF frame = "own" THEN BarsUntil(t) ELSE HigherBarsUntil(t)

LatestOf(S, n) == {i \in S : Cardinality({j \in S : j >= i}) <= n}

\* copy_rates_from_pos without its last bar, which may be forming.
Fetched(S, n) ==
  LET rates == LatestOf(S, n)
  IN  {i \in rates : \E j \in rates : j > i}

\* A terminal's history may be behind; when it answers nothing the frame is empty.
Fetches(frame, n) ==
  {{}} \cup {Fetched(BarsOf(frame, t), n) : t \in Max({0, slot - Lag})..slot}

-----------------------------------------------------------------------------
(* fetch_live on a symbol thread.                                          *)

Skip(s) == feed' = [feed EXCEPT ![s] = Waiting]

\* append_new_bars to a file only this thread writes; with saving off no file.
Appended(bars, new) == IF saving THEN bars \cup new ELSE bars

\* Without recent bars the bar is skipped: no decision on the cached history.  The
\* decision bar is the last one of the file and the answer together.
FetchOwn(s) ==
  /\ feed[s].at = "wait"
  /\ \E new \in Fetches("own", Chunk) \ {{}} :
       /\ csv' = [csv EXCEPT ![s].own = Appended(@, new)]
       /\ feed' = [feed EXCEPT ![s] = [Waiting EXCEPT !.at = "mta", !.newest = Max(new),
                                                   !.bar = Max(csv[s].own \cup new),
                                                   !.existing = csv[s].own \cup new]]
  /\ UNCHANGED <<slot, saving, sharedCsv>>

\* _context_bar_needed: the higher-timeframe bar that the last bar before the
\* current one of the higher timeframe falls in, if data has such a bar.
NeededIn(data, b) ==
  LET earlier == {i \in data : i < (b \div Ratio) * Ratio}
  IN  {Max(earlier) \div Ratio : i \in earlier}

FetchMtaMutant(s) ==
  /\ feed[s].at = "mta"
  /\ \E new \in Fetches("mta", Chunk) \ {{}} :
       /\ csv' = [csv EXCEPT ![s].mta = Appended(@, new)]
       /\ feed' = [feed EXCEPT ![s] = [@ EXCEPT !.at = "im", !.existing = {},
                                                !.mta = csv[s].mta \cup new]]
  /\ UNCHANGED <<slot, saving, sharedCsv>>

\* The cached bars with the ones just fetched; when the newest is older than the
\* one the decision needs, or nothing was fetched, the bar is skipped.
FetchMta(s) ==
  /\ feed[s].at = "mta"
  /\ \E new \in Fetches("mta", Chunk) :
       LET context == csv[s].mta \cup new
           stale == \E m \in NeededIn(feed[s].existing, feed[s].bar) : \A c \in context : c < m
       IN  /\ csv' = [csv EXCEPT ![s].mta = Appended(@, new)]
           /\ IF new = {} \/ stale
              THEN Skip(s)
              ELSE feed' = [feed EXCEPT ![s] = [@ EXCEPT !.at = "im", !.existing = {},
                                                         !.mta = context]]
  /\ UNCHANGED <<slot, saving, sharedCsv>>

\* The inter-market bars; without any the bar is skipped.
FetchIm(s) ==
  /\ feed[s].at = "im"
  /\ \E new \in Fetches("own", Chunk) :
       IF new = {}
       THEN Skip(s)
       ELSE feed' = [feed EXCEPT ![s] = [@ EXCEPT !.at = IF saving THEN "read" ELSE "load",
                                                  !.fetched = new]]
  /\ UNCHANGED <<slot, saving, csv, sharedCsv>>

\* append_new_bars to the shared file: it is read here, and replaced later.
ReadShared(s) ==
  /\ feed[s].at = "read"
  /\ feed' = [feed EXCEPT ![s] = [@ EXCEPT !.at = "replace", !.existing = sharedCsv]]
  /\ UNCHANGED <<slot, saving, csv, sharedCsv>>

ReplaceShared(s) ==
  /\ feed[s].at = "replace"
  /\ sharedCsv' = feed[s].existing \cup feed[s].fetched
  /\ feed' = [feed EXCEPT ![s] = [@ EXCEPT !.at = "load", !.existing = {}]]
  /\ UNCHANGED <<slot, saving, csv>>

\* The inter-market context is the file alone.  When the file of the symbol ends in
\* a newer bar than the answer did, the bar is skipped.
LoadShared(s) ==
  /\ feed[s].at = "load"
  /\ IF feed[s].bar # feed[s].newest
     THEN Skip(s)
     ELSE feed' = [feed EXCEPT ![s] = [@ EXCEPT !.at = "decide", !.im = sharedCsv]]
  /\ UNCHANGED <<slot, saving, csv, sharedCsv>>

\* build_features and the decision; an exception on the way ends the same way.
FinishBar(s) ==
  /\ feed[s].at # "wait"
  /\ Skip(s)
  /\ UNCHANGED <<slot, saving, csv, sharedCsv>>

\* add_contextual_features: the context shifted to its close, joined backward on
\* the open of the decision bar.
Joined(context, b) == {m \in context : (m + 1) * Ratio <= b}

-----------------------------------------------------------------------------
(* Starts and time.                                                        *)

\* bootstrap_history: the latest chunk, and all of it when the file is short.
Bootstrapped(bars, frame) ==
  {IF Cardinality(bars \cup new) < InitialBars THEN bars \cup new \cup all ELSE bars \cup new :
     new \in Fetches(frame, Chunk), all \in Fetches(frame, InitialBars)}

\* A restart or a reconnect at any step: the files stay as they are, then run
\* bootstraps each of them.
StartFeed ==
  /\ feed' = [s \in FeedThread |-> Waiting]
  /\ csv' \in [FeedThread -> [own : UNION {Bootstrapped(csv[s].own, "own") : s \in FeedThread},
                              mta : UNION {Bootstrapped(csv[s].mta, "mta") : s \in FeedThread}]]
  /\ \A s \in FeedThread : /\ csv'[s].own \in Bootstrapped(csv[s].own, "own")
                           /\ csv'[s].mta \in Bootstrapped(csv[s].mta, "mta")
  /\ sharedCsv' \in Bootstrapped(sharedCsv, "own")
  /\ UNCHANGED <<slot, saving>>

SlotEnds ==
  /\ slot < MaxSlot
  /\ slot' = slot + 1
  /\ UNCHANGED <<saving, csv, sharedCsv, feed>>

FeedInit ==
  /\ slot = FirstSlot /\ saving \in Saving
  /\ csv = [s \in FeedThread |-> [own |-> {}, mta |-> {}]] /\ sharedCsv = {}
  /\ feed = [s \in FeedThread |-> Waiting]

FeedNext ==
  \/ StartFeed \/ SlotEnds
  \/ \E s \in FeedThread :
       \/ FetchOwn(s) \/ FetchMta(s) \/ FetchIm(s) \/ ReadShared(s) \/ ReplaceShared(s)
       \/ LoadShared(s) \/ FinishBar(s)

FeedSpec == FeedInit /\ [][FeedNext]_feedVars

-----------------------------------------------------------------------------
(* Properties.                                                             *)

\* The decision bar is joined with the newest higher-timeframe bar that had closed
\* when it opened: never with one that was still forming, and never with an older
\* one because an answer lagged, a file was behind or the market had been closed.
ContextIsCurrent ==
  \A s \in FeedThread : feed[s].at \notin {"wait", "mta"} =>
    LET closed == {m \in HigherBarsUntil(slot) : \A i \in 0..slot : i \div Ratio = m => i < feed[s].bar}
        joined == Joined(feed[s].mta, feed[s].bar)
    IN  joined \subseteq closed /\ (closed # {} => Max(closed) \in joined)

\* "Load the full (updated) local history for feature building"
\* (data_manager.py:305): the inter-market context has the bars just fetched.
UpdatedIsLoaded ==
  \A s \in FeedThread : feed[s].at = "decide" => feed[s].fetched \subseteq feed[s].im

-----------------------------------------------------------------------------
(* Why the context is current: an inductive invariant.                     *)

\* The last slot before b in which a bar opened is l.
LastBefore(l, b) == l \in (0..(b - 1)) \ ShutSlots /\ (l + 1)..(b - 1) \subseteq ShutSlots

\* A thread's own bars have closed, and with the newest they hold the last bar before
\* the higher-timeframe bar it is in: _context_bar_needed finds that one.
OwnBars(S) ==
  /\ S \subseteq BarsUntil(slot - 1)
  /\ \A b \in S : S \subseteq 0..b =>
       \A l \in 0..b : LastBefore(l, (b \div Ratio) * Ratio) => l \in S

\* Higher-timeframe bars have no gap within a fetch of now.
HigherBars(S) ==
  /\ S \subseteq HigherBarsUntil(slot)
  /\ \A c \in S, m \in HigherBarsUntil(slot) :
       m < c /\ Cardinality({j \in HigherBarsUntil(slot) : j >= m}) <= Chunk => m \in S

\* The last of the higher-timeframe bars that closed by the open of b is in S.
HoldsNewest(S, b) ==
  \A m \in HigherBarsUntil(slot) :
    /\ (m + 1) * Ratio <= b
    /\ \A k \in HigherBarsUntil(slot) : (k + 1) * Ratio <= b => k <= m
    => m \in S

\* What a thread at f has joined, or will.
Follows(f) ==
  /\ DOMAIN f = DOMAIN Waiting
  /\ f.at = "mta" => /\ OwnBars(f.existing)
                     /\ f.bar \in f.existing /\ f.existing \subseteq 0..f.bar
  /\ f.at \notin {"wait", "mta"} => /\ f.bar \in 0..(slot - 1)
                                    /\ f.mta \subseteq HigherBarsUntil(slot)
                                    /\ HoldsNewest(f.mta, f.bar)

FeedInv ==
  /\ slot \in Nat
  /\ csv \in [FeedThread -> [own : SUBSET Int, mta : SUBSET Int]]
  /\ feed = [s \in FeedThread |-> feed[s]]
  /\ \A s \in FeedThread :
       OwnBars(csv[s].own) /\ HigherBars(csv[s].mta) /\ Follows(feed[s])

\* A fetch of the higher timeframe reaches back to the decision bar: fetch_live makes
\* it right after the one of the bars, and 200 bars of an hour take over a week.
Timely ==
  \A s \in FeedThread : feed[s].at = "mta" =>
    Cardinality({j \in HigherBarsUntil(slot) : j >= feed[s].bar \div Ratio}) < Chunk

=============================================================================
