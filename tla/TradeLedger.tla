---------------------------- MODULE TradeLedger ----------------------------
(***************************************************************************)
(* What live trading promises about the trades of the bot, without         *)
(* threads, locks, caches, lists and histories: a symbol has one trade at  *)
(* a time, every trade that closes is reported or an alert names its       *)
(* symbol, no report is lost once it is handed over, each trade is         *)
(* rewarded at most once, and a restart goes back to the last file.        *)
(* Adopted trades give no reward.                                          *)
(***************************************************************************)

CONSTANTS Symbol, Ticket, None

VARIABLES
  stage,      \* of every ticket: free, ordered, open, closed, adopted, settled;
              \* a closed one is adopted if its entry was made from the list
  owner,      \* its symbol
  reported,   \* closed trades a reconciliation has found
  credited,   \* trades the bandits were rewarded for
  file,       \* what the last save holds: its own entries, the adopted ones,
              \* and credited
  handed,     \* the report is in the hands of the main loop: a reward is due for each
  excused     \* symbols an alert or a restart left to a person

ledgerVars == <<stage, owner, reported, credited, file, handed, excused>>

Stage == {"free", "ordered", "open", "closed", "adopted", "settled"}

Init ==
  /\ stage = [t \in Ticket |-> "free"] /\ owner = [t \in Ticket |-> None]
  /\ reported = {} /\ credited = {} /\ file = [own |-> {}, adopted |-> {}, credited |-> {}]
  /\ handed = FALSE /\ excused = {}

Becomes(t, next) == stage' = [stage EXCEPT ![t] = next]
Underway(s) == {t \in Ticket : owner[t] = s /\ stage[t] \in {"ordered", "open", "closed"}}

\* A symbol gets an order only when its last trade is settled; one that was
\* adopted after it closed may be found while an order is prepared.
Order(t, s) ==
  /\ stage[t] = "free" /\ Becomes(t, "ordered")
  /\ s \in excused \/ Underway(s) = {}
  /\ owner' = [owner EXCEPT ![t] = s]
  /\ UNCHANGED <<reported, credited, file, handed, excused>>

Cancel(t) ==
  /\ stage[t] = "ordered"
  /\ Becomes(t, "free") /\ owner' = [owner EXCEPT ![t] = None]
  /\ UNCHANGED <<reported, credited, file, handed, excused>>

Fill(t) ==
  /\ stage[t] = "ordered" /\ Becomes(t, "open")
  /\ UNCHANGED <<owner, reported, credited, file, handed, excused>>

\* Nobody waits for the end of a trade that only a person knows of.
Close(t) ==
  /\ stage[t] = "open"
  /\ \/ Becomes(t, "closed") \/ Becomes(t, "adopted")
     \/ owner[t] \in excused /\ Becomes(t, "settled")
  /\ UNCHANGED <<owner, reported, credited, file, handed, excused>>

Report(t) ==
  /\ ~handed /\ stage[t] = "closed" /\ Becomes(t, "settled")
  /\ reported' = reported \cup {t}
  /\ UNCHANGED <<owner, credited, file, handed, excused>>

\* What else may happen to a closed trade: of a symbol left to a person anything;
\* of another one it is adopted while the list still shows it, and given up.
Loose(t) ==
  /\ {stage[t], stage'[t]} \subseteq {"closed", "adopted", "settled"}
  /\ owner[t] \in excused' \/ "closed" \notin {stage[t], stage'[t]}

\* A person is told about the symbols S.  Reports are lost, silently, only until they
\* are handed over; the hand-over ends when none is left.
Amend(S) ==
  /\ excused' = excused \cup S
  /\ \/ UNCHANGED <<reported, handed>>
     \/ ~handed /\ handed' \in BOOLEAN /\ reported' \in {reported, {}}
     \/ reported = {} /\ reported' = {} /\ handed' = FALSE
  /\ \/ UNCHANGED stage
     \/ /\ stage' \in [Ticket -> Stage]
        /\ \A t \in Ticket : stage'[t] = stage[t] \/ Loose(t)
  /\ UNCHANGED <<owner, credited, file>>

Credit(t) ==
  /\ handed /\ t \in reported /\ (t \notin credited \/ owner[t] \in excused)
  /\ reported' = reported \ {t} /\ credited' = credited \cup {t}
  /\ UNCHANGED <<stage, owner, file, handed, excused>>

\* What a file may hold: entries of trades that are not settled, and what was
\* learned, as of one moment.
Files ==
  LET entries == {t \in Ticket : stage[t] \in {"open", "closed", "adopted"}}
  IN  {[own |-> S, adopted |-> A, credited |-> credited] :
         S \in SUBSET entries, A \in SUBSET entries}

Save ==
  /\ file' \in Files
  /\ UNCHANGED <<stage, owner, reported, credited, handed, excused>>

\* On the way down reports are lost.
GoDown ==
  /\ handed' = FALSE /\ reported' = {}
  /\ UNCHANGED <<stage, owner, credited, file, excused>>

\* Everything is rebuilt from a file, the last one or one written on the way
\* down: trades under way that it does not hold are left to a person.
Restart ==
  /\ file' \in {file} \cup Files
  /\ stage' = [t \in Ticket |->
                 IF stage[t] \in {"free", "ordered", "open"} THEN stage[t]
                 ELSE IF t \in file'.own THEN "closed"
                 ELSE IF t \in file'.adopted THEN "adopted" ELSE "settled"]
  /\ credited' = file'.credited /\ reported' = {} /\ handed' = FALSE
  /\ excused' = excused \cup {owner[t] : t \in {u \in Ticket \ (file'.own \cup file'.adopted) :
                                                  stage[u] \in {"ordered", "open"}}}
  /\ UNCHANGED owner

Next ==
  \/ \E S \in SUBSET Symbol : Amend(S)
  \/ \E t \in Ticket : \/ \E s \in Symbol : Order(t, s)
                       \/ Cancel(t) \/ Fill(t) \/ Close(t) \/ Report(t) \/ Credit(t)
  \/ Save \/ GoDown \/ Restart

Spec == Init /\ [][Next]_ledgerVars

=============================================================================
