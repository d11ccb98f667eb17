---------------------------- MODULE ModelStaging ----------------------------
(***************************************************************************)
(* Retraining of one symbol and side: the child process that fits and      *)
(* stages a model (src/src/retraining.py, src/src/utils.py), its           *)
(* acceptance and promotion by the main loop, the signature of a model     *)
(* folder (src/src/model_integrity.py, src/src/ensemble.py) and the        *)
(* recovery after a crash between two renames.                             *)
(*                                                                         *)
(* Processes share nothing but folders.  Every file operation is a step: a *)
(* process can be killed between two of them, and a child outlives the     *)
(* main process that started it.  The two sides of a symbol have folders   *)
(* of their own; the child works on one after the other, which the steps   *)
(* of one side see as a delay.                                             *)
(***************************************************************************)
EXTENDS Naturals

CONSTANTS
  MaxRetrains,  \* bound: children of a behaviour, numbered as they start
  MaxCrashes    \* bound: kills of the main process

ASSUME StagingAssumption == MaxRetrains \in Nat /\ MaxCrashes \in Nat

VARIABLES
  \* the disk
  live, bak, staged,  \* the model folders
  savedToday,         \* the state file: last_daily_retrain_date is today
  \* the main process
  mpc,                \* where it is in run and _handle_model_acceptance
  modelInUse,         \* the retrains whose files the model in use was read from
  candidate,          \* the same of the staged model that is being judged
  hadLive,            \* local of promote_staged_ensemble
  tracked,            \* the child in retraining_processes
  today,              \* last_retrain_date is today
  \* the children
  cpc,                \* where each child is
  started, crashes,
  \* history
  overlap             \* two children have run at the same time

folders == <<live, bak, staged>>
judgeVars == <<mpc, modelInUse, candidate, hadLive, tracked, today>>
childVars == <<cpc, started, overlap>>
stagingVars == <<folders, savedToday, judgeVars, childVars, crashes>>

Child == 1..MaxRetrains

\* Whose files a folder holds (0 is the offline trainer), and whether its manifest
\* fits them; a folder with files removed or added does not verify.
Folder == [by : SUBSET (0..MaxRetrains), signed : BOOLEAN]

NoFolder == [by |-> {}, signed |-> FALSE]

ChildPoint == {"none", "discard", "load", "fit", "clear", "write", "sign", "rest", "ended"}
MainPoint == {"down", "run", "loaded", "clearing", "cleared", "backed", "swapped", "dropping"}

Alive(c) == cpc[c] \notin {"none", "ended"}

\* The types of the variables.
StagingTypeOK ==
  /\ live \in Folder /\ bak \in Folder /\ staged \in Folder
  /\ savedToday \in BOOLEAN /\ today \in BOOLEAN
  /\ mpc \in MainPoint
  /\ modelInUse \in SUBSET (0..MaxRetrains) /\ candidate \in SUBSET (0..MaxRetrains)
  /\ hadLive \in BOOLEAN
  /\ tracked \in 0..MaxRetrains
  /\ cpc \in [Child -> ChildPoint]
  /\ started \in 0..MaxRetrains /\ crashes \in 0..MaxCrashes
  /\ overlap \in BOOLEAN

-----------------------------------------------------------------------------
(* The child: run_retraining_in_background.                                *)

ChildTo(c, point) == cpc' = [cpc EXCEPT ![c] = point]

\* A folder is removed file by file: half of it no longer verifies.
Halved(folder) == IF folder = NoFolder THEN NoFolder ELSE [folder EXCEPT !.signed = FALSE]

\* discard_staged_ensemble passes over files it cannot remove.
Discard == staged' \in {NoFolder, Halved(staged)}

\* "nothing left over from an earlier or crashed run" (retraining.py:41).
ChildDiscards(c) ==
  /\ cpc[c] = "discard"
  /\ Discard
  /\ ChildTo(c, "load")
  /\ UNCHANGED <<live, bak, savedToday, judgeVars, started, overlap, crashes>>

\* recover_interrupted_promotion: no live folder and a backup.
Recover ==
  IF live = NoFolder /\ bak # NoFolder
  THEN live' = bak /\ bak' = NoFolder
  ELSE UNCHANGED <<live, bak>>

\* load_ensemble of the old model.
ChildLoads(c) ==
  /\ cpc[c] = "load"
  /\ Recover
  /\ ChildTo(c, "fit")
  /\ UNCHANGED <<staged, savedToday, judgeVars, started, overlap, crashes>>

\* safe_retrain_ensemble: a model that did not fit is not saved.
ChildFits(c) ==
  /\ cpc[c] = "fit"
  /\ \E point \in {"clear", "rest"} : ChildTo(c, point)
  /\ UNCHANGED <<folders, savedToday, judgeVars, started, overlap, crashes>>

\* "never mix files of two retrains" (utils.py:296).
ChildClears(c) ==
  /\ cpc[c] = "clear"
  /\ Discard
  /\ ChildTo(c, "write")
  /\ UNCHANGED <<live, bak, savedToday, judgeVars, started, overlap, crashes>>

\* Members, metadata, stacker, calibrator; folders are made as they are needed.
ChildWrites(c) ==
  /\ cpc[c] = "write"
  /\ staged' = [by |-> staged.by \cup {c}, signed |-> FALSE]
  /\ \E point \in {"write", "sign"} : ChildTo(c, point)
  /\ UNCHANGED <<live, bak, savedToday, judgeVars, started, overlap, crashes>>

\* The manifest comes last; without the folder it cannot be written.
ChildSigns(c) ==
  /\ cpc[c] = "sign"
  /\ staged' = [staged EXCEPT !.signed = (staged # NoFolder)]
  /\ ChildTo(c, "rest")
  /\ UNCHANGED <<live, bak, savedToday, judgeVars, started, overlap, crashes>>

\* The end of the process, also by a kill or an exception.
ChildEnds(c) ==
  /\ Alive(c)
  /\ ChildTo(c, "ended")
  /\ UNCHANGED <<folders, savedToday, judgeVars, started, overlap, crashes>>

ChildStep(c) ==
  \/ ChildDiscards(c) \/ ChildLoads(c) \/ ChildFits(c) \/ ChildClears(c)
  \/ ChildWrites(c) \/ ChildSigns(c) \/ ChildEnds(c)

-----------------------------------------------------------------------------
(* The main process.                                                       *)

\* load_ensemble: a folder that does not verify gives a new, untrained ensemble.
LoadModels ==
  /\ Recover
  /\ modelInUse' = IF live'.signed THEN live'.by ELSE {}
  /\ today' = savedToday

Start ==
  /\ mpc = "down"
  /\ LoadModels
  /\ mpc' = "run"
  /\ UNCHANGED <<staged, savedToday, candidate, hadLive, tracked, childVars, crashes>>

ReconnectMutant ==
  /\ mpc = "run"
  /\ LoadModels
  /\ tracked' = 0
  /\ UNCHANGED <<staged, savedToday, mpc, candidate, hadLive, childVars, crashes>>

\* A new pass of the reconnect loop; a child that still runs stays tracked.
Reconnect ==
  /\ mpc = "run"
  /\ LoadModels
  /\ UNCHANGED <<staged, savedToday, mpc, candidate, hadLive, tracked, childVars, crashes>>

Crash ==
  /\ mpc # "down" /\ crashes < MaxCrashes
  /\ mpc' = "down"
  /\ tracked' = 0
  /\ crashes' = crashes + 1
  /\ UNCHANGED <<folders, savedToday, modelInUse, candidate, hadLive, today, childVars>>

SaveState ==
  /\ mpc = "run"
  /\ savedToday' = today
  /\ UNCHANGED <<folders, judgeVars, childVars, crashes>>

NewDay ==
  /\ today' = FALSE /\ savedToday' = FALSE
  /\ UNCHANGED <<folders, mpc, modelInUse, candidate, hadLive, tracked, childVars, crashes>>

\* _check_and_trigger_retraining, past retrain_time_utc.
TriggerRetraining ==
  /\ mpc = "run" /\ ~today /\ tracked = 0
  /\ started < MaxRetrains
  /\ started' = started + 1
  /\ cpc' = [cpc EXCEPT ![started + 1] = "discard"]
  /\ tracked' = started + 1
  /\ today' = TRUE
  /\ overlap' = (overlap \/ \E c \in Child : Alive(c))
  /\ UNCHANGED <<folders, savedToday, mpc, modelInUse, candidate, hadLive, crashes>>

Forget == tracked' = 0 /\ mpc' = "run"

\* The tracked child has ended: nothing staged, or a folder that does not verify.
NothingToAccept ==
  /\ mpc = "run" /\ tracked # 0 /\ ~Alive(tracked)
  /\ ~staged.signed
  /\ Discard
  /\ Forget
  /\ UNCHANGED <<live, bak, savedToday, modelInUse, candidate, hadLive, today, childVars,
                 crashes>>

LoadStagedMutant ==
  /\ mpc = "run" /\ tracked # 0 /\ ~Alive(tracked)
  /\ staged # NoFolder
  /\ candidate' = staged.by
  /\ mpc' = "loaded"
  /\ UNCHANGED <<folders, savedToday, modelInUse, hadLive, tracked, today, childVars, crashes>>

\* _load_staged, then retrain_is_usable.
LoadStaged ==
  /\ mpc = "run" /\ tracked # 0 /\ ~Alive(tracked)
  /\ staged.signed
  /\ candidate' = staged.by
  /\ mpc' = "loaded"
  /\ UNCHANGED <<folders, savedToday, modelInUse, hadLive, tracked, today, childVars, crashes>>

\* Not usable, or the old backup or the live folder cannot be moved away.
Reject ==
  /\ mpc \in {"loaded", "clearing", "cleared"}
  /\ Discard
  /\ Forget
  /\ UNCHANGED <<live, bak, savedToday, modelInUse, candidate, hadLive, today, childVars,
                 crashes>>

-----------------------------------------------------------------------------
(* promote_staged_ensemble, one file operation at a time.                    *)

ClearBackup ==
  /\ \/ mpc = "loaded" /\ mpc' = "clearing" /\ bak' = Halved(bak)
     \/ mpc = "clearing" /\ mpc' = "cleared" /\ bak' = NoFolder
  /\ UNCHANGED <<live, staged, savedToday, modelInUse, candidate, hadLive, tracked, today,
                 childVars, crashes>>

BackUpLiveMutant ==
  /\ mpc = "cleared"
  /\ hadLive' = (live # NoFolder)
  /\ live' = NoFolder
  /\ mpc' = "backed"
  /\ UNCHANGED <<bak, staged, savedToday, modelInUse, candidate, tracked, today, childVars,
                 crashes>>

BackUpLive ==
  /\ mpc = "cleared"
  /\ hadLive' = (live # NoFolder)
  /\ IF live # NoFolder THEN bak' = live /\ live' = NoFolder ELSE UNCHANGED <<live, bak>>
  /\ mpc' = "backed"
  /\ UNCHANGED <<staged, savedToday, modelInUse, candidate, tracked, today, childVars, crashes>>

SwapIn ==
  /\ mpc = "backed"
  /\ staged # NoFolder /\ live = NoFolder
  /\ live' = staged /\ staged' = NoFolder
  /\ mpc' = "swapped"
  /\ UNCHANGED <<bak, savedToday, modelInUse, candidate, hadLive, tracked, today, childVars,
                 crashes>>

\* The rename fails: the old model is put back, the staged one is discarded.
SwapFails ==
  /\ mpc = "backed"
  /\ IF hadLive /\ bak # NoFolder /\ live = NoFolder
     THEN live' = bak /\ bak' = NoFolder
     ELSE UNCHANGED <<live, bak>>
  /\ Discard
  /\ Forget
  /\ UNCHANGED <<savedToday, modelInUse, candidate, hadLive, today, childVars, crashes>>

\* Then the model is handed to the dictionaries of run and to the symbol's thread.
DropBackup ==
  /\ \/ /\ mpc = "swapped"
        /\ bak' = (IF hadLive THEN Halved(bak) ELSE bak)
        /\ mpc' = "dropping"
        /\ UNCHANGED <<modelInUse, tracked>>
     \/ /\ mpc = "dropping"
        /\ bak' = (IF hadLive THEN NoFolder ELSE bak)
        /\ modelInUse' = candidate
        /\ Forget
  /\ UNCHANGED <<live, staged, savedToday, candidate, hadLive, today, childVars, crashes>>

MainStep ==
  \/ Start \/ Reconnect \/ Crash \/ SaveState \/ NewDay \/ TriggerRetraining
  \/ NothingToAccept \/ LoadStaged \/ Reject
  \/ ClearBackup \/ BackUpLive \/ SwapIn \/ SwapFails \/ DropBackup

\* A first start, or one with a model from the trainer.
StagingInit ==
  /\ live \in {NoFolder, [by |-> {0}, signed |-> TRUE]}
  /\ bak = NoFolder /\ staged = NoFolder
  /\ savedToday = FALSE /\ today = FALSE
  /\ mpc = "down" /\ modelInUse = {} /\ candidate = {} /\ hadLive = FALSE /\ tracked = 0
  /\ cpc = [c \in Child |-> "none"] /\ started = 0 /\ crashes = 0
  /\ overlap = FALSE

StagingNext == MainStep \/ \E c \in Child : ChildStep(c)

StagingSpec == StagingInit /\ [][StagingNext]_stagingVars

-----------------------------------------------------------------------------
(* Safety.                                                                 *)

\* What the next start would load.
OnDisk == IF live # NoFolder THEN live ELSE bak

\* A trained model in use survives a kill at any point of its replacement, and a
\* restart never brings back an older one: "on disk first: a reconnect must not
\* bring the old model back" (retraining.py:127).
ModelOnDisk ==
  ~overlap /\ modelInUse # {} =>
    /\ OnDisk.signed
    /\ OnDisk.by = modelInUse \/ (mpc \in {"down", "swapped", "dropping"} /\ OnDisk.by = candidate)

\* No file of an unaccepted retrain gets into the live folder: "the live folder is
\* never touched by a model that was not accepted" (retraining.py:97).
AcceptedOnly ==
  ~overlap =>
    /\ live # NoFolder => live.signed
    /\ mpc \in {"swapped", "dropping"} => live.by = candidate

\* Two children run at once only after a kill of the main process: a reconnect keeps
\* track of the child.
OneRetrainAtATime == overlap => crashes > 0

-----------------------------------------------------------------------------
(* Why they hold: an inductive invariant.                                  *)

Judging == mpc \notin {"down", "run"}

\* A child runs under the eyes of the process that started it or after its kill;
\* a model is judged only when its child has ended.
ChildInv ==
  /\ tracked <= started
  /\ \A c \in Child : cpc[c] # "none" => c <= started
  /\ \A c \in Child : Alive(c) => c = tracked \/ crashes > 0
  /\ ~overlap => \A c, d \in Child : Alive(c) /\ Alive(d) => c = d
  /\ ~overlap /\ tracked # 0 => \A c \in Child : Alive(c) => c = tracked
  /\ Judging => tracked # 0 /\ ~Alive(tracked)
  /\ mpc = "down" => tracked = 0
  /\ overlap => crashes > 0

\* The disk at every point of a promotion.
DiskInv ==
  /\ live # NoFolder => live.signed
  /\ live = NoFolder /\ bak # NoFolder => bak.signed /\ mpc \in {"down", "backed"}
  /\ mpc \in {"loaded", "clearing", "cleared", "backed"} =>
       staged.signed /\ staged.by = candidate
  /\ mpc = "cleared" => bak = NoFolder
  /\ mpc = "backed" => live = NoFolder /\ (hadLive <=> bak # NoFolder)
  /\ mpc \in {"swapped", "dropping"} => live.signed /\ live.by = candidate
  /\ modelInUse # {} =>
       /\ OnDisk.signed
       /\ mpc \in {"run", "loaded", "clearing", "cleared", "backed"} => OnDisk.by = modelInUse
       /\ OnDisk.by \in {modelInUse, candidate}

\* The conjunction that every step preserves.
StagingInv == StagingTypeOK /\ ChildInv /\ (~overlap => DiskInv)

=============================================================================
