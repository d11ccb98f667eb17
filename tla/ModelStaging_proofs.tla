------------------------- MODULE ModelStaging_proofs -------------------------
(* The invariants of ModelStaging, for every number of retrains and kills.   *)
EXTENDS ModelStaging, TLAPS

\* No file at all and half a folder are folders.
LEMMA FolderType ==
  /\ NoFolder \in Folder
  /\ \A f \in Folder : Halved(f) \in Folder
BY StagingAssumption DEF Folder, NoFolder, Halved

\* The initial states are staging states.
LEMMA InitStaging == StagingInit => StagingInv
<1> SUFFICES ASSUME StagingInit PROVE StagingInv
  OBVIOUS
<1>1. live \in Folder /\ bak \in Folder /\ staged \in Folder
  <2>1. [by |-> {0}, signed |-> TRUE] \in Folder
    BY StagingAssumption DEF Folder
  <2>2. QED
    BY <2>1, FolderType DEF StagingInit
<1>2. cpc \in [Child -> ChildPoint]
  BY DEF StagingInit, ChildPoint
<1>3. StagingTypeOK
  <2>1. modelInUse \in SUBSET (0..MaxRetrains) /\ candidate \in SUBSET (0..MaxRetrains)
    BY DEF StagingInit
  <2>2. tracked \in 0..MaxRetrains /\ started \in 0..MaxRetrains /\ crashes \in 0..MaxCrashes
    BY StagingAssumption DEF StagingInit
  <2>3. QED
    BY <1>1, <1>2, <2>1, <2>2 DEF StagingInit, StagingTypeOK, MainPoint
<1>4. ChildInv
  BY StagingAssumption DEF StagingInit, ChildInv, Child, Alive, Judging
<1>5. DiskInv
  BY DEF StagingInit, DiskInv, NoFolder
<1>6. QED
  BY <1>3, <1>4, <1>5 DEF StagingInv

\* Moving a child keeps its program counter in its type.
LEMMA GotoType ==
  ASSUME StagingTypeOK, NEW c \in Child, NEW point \in ChildPoint, ChildTo(c, point)
  PROVE  /\ cpc' \in [Child -> ChildPoint]
         /\ cpc'[c] = point
         /\ \A d \in Child : d # c => cpc'[d] = cpc[d]
BY DEF StagingTypeOK, ChildTo

\* A recovery yields folders.
LEMMA RecoverType ==
  ASSUME StagingTypeOK, Recover
  PROVE  live' \in Folder /\ bak' \in Folder
BY DEF StagingTypeOK, Recover, Folder, NoFolder

\* What a discard leaves is a folder.
LEMMA DiscardType ==
  ASSUME StagingTypeOK, Discard
  PROVE  staged' \in Folder
BY FolderType DEF StagingTypeOK, Discard

-----------------------------------------------------------------------------
(* Types.                                                                  *)

\* The steps of a child keep the types.
LEMMA ChildStepType ==
  ASSUME StagingTypeOK, NEW c \in Child, ChildStep(c)
  PROVE  StagingTypeOK'
<1> USE DEF folders, judgeVars, childVars
<1>1. CASE ChildDiscards(c)
  <2>1. "load" \in ChildPoint /\ ChildTo(c, "load")
    BY <1>1 DEF ChildDiscards, ChildPoint
  <2>2. QED
    BY <1>1, <2>1, GotoType, DiscardType DEF ChildDiscards, StagingTypeOK
<1>2. CASE ChildLoads(c)
  <2>1. "fit" \in ChildPoint /\ ChildTo(c, "fit") /\ Recover
    BY <1>2 DEF ChildLoads, ChildPoint
  <2>2. QED
    BY <1>2, <2>1, GotoType, RecoverType DEF ChildLoads, StagingTypeOK
<1>3. CASE ChildFits(c)
  <2>1. PICK point \in {"clear", "rest"} : ChildTo(c, point)
    BY <1>3 DEF ChildFits
  <2>2. point \in ChildPoint
    BY DEF ChildPoint
  <2>3. QED
    BY <1>3, <2>1, <2>2, GotoType DEF ChildFits, StagingTypeOK
<1>4. CASE ChildClears(c)
  <2>1. "write" \in ChildPoint /\ ChildTo(c, "write")
    BY <1>4 DEF ChildClears, ChildPoint
  <2>2. QED
    BY <1>4, <2>1, GotoType, DiscardType DEF ChildClears, StagingTypeOK
<1>5. CASE ChildWrites(c)
  <2>1. PICK point \in {"write", "sign"} : ChildTo(c, point)
    BY <1>5 DEF ChildWrites
  <2>2. point \in ChildPoint
    BY DEF ChildPoint
  <2>3. staged' \in Folder
    BY <1>5, StagingAssumption DEF ChildWrites, StagingTypeOK, Folder, Child
  <2>4. QED
    BY <1>5, <2>1, <2>2, <2>3, GotoType DEF ChildWrites, StagingTypeOK
<1>6. CASE ChildSigns(c)
  <2>1. "rest" \in ChildPoint /\ ChildTo(c, "rest")
    BY <1>6 DEF ChildSigns, ChildPoint
  <2>2. staged' \in Folder
    BY <1>6 DEF ChildSigns, StagingTypeOK, Folder
  <2>3. QED
    BY <1>6, <2>1, <2>2, GotoType DEF ChildSigns, StagingTypeOK
<1>7. CASE ChildEnds(c)
  <2>1. "ended" \in ChildPoint /\ ChildTo(c, "ended")
    BY <1>7 DEF ChildEnds, ChildPoint
  <2>2. QED
    BY <1>7, <2>1, GotoType DEF ChildEnds, StagingTypeOK
<1>8. QED
  BY <1>1, <1>2, <1>3, <1>4, <1>5, <1>6, <1>7 DEF ChildStep

\* What load_ensemble yields at a start or a reconnect.
LEMMA LoadType ==
  ASSUME StagingTypeOK, LoadModels
  PROVE  /\ live' \in Folder /\ bak' \in Folder
         /\ modelInUse' \in SUBSET (0..MaxRetrains) /\ today' \in BOOLEAN
<1>1. live' \in Folder /\ bak' \in Folder
  BY RecoverType DEF LoadModels
<1>2. QED
  BY <1>1 DEF LoadModels, StagingTypeOK, Folder

\* The steps of the main process keep the types.
LEMMA MainStepType ==
  ASSUME StagingTypeOK, MainStep
  PROVE  StagingTypeOK'
<1> USE StagingAssumption DEF folders, judgeVars, childVars, MainPoint, Forget
<1>1. CASE Start
  BY <1>1, LoadType DEF Start, StagingTypeOK
<1>2. CASE Reconnect
  BY <1>2, LoadType DEF Reconnect, StagingTypeOK
<1>3. CASE Crash
  BY <1>3 DEF Crash, StagingTypeOK
<1>4. CASE SaveState \/ NewDay
  BY <1>4 DEF SaveState, NewDay, StagingTypeOK
<1>5. CASE TriggerRetraining
  <2>1. started + 1 \in Child /\ "discard" \in ChildPoint
    BY <1>5 DEF TriggerRetraining, StagingTypeOK, Child, ChildPoint
  <2>2. cpc' \in [Child -> ChildPoint]
    BY <1>5, <2>1 DEF TriggerRetraining, StagingTypeOK
  <2>3. started' \in 0..MaxRetrains /\ tracked' \in 0..MaxRetrains
    BY <1>5 DEF TriggerRetraining, StagingTypeOK
  <2>4. overlap' \in BOOLEAN
    BY <1>5 DEF TriggerRetraining, StagingTypeOK
  <2>5. QED
    BY <1>5, <2>2, <2>3, <2>4 DEF TriggerRetraining, StagingTypeOK
<1>6. CASE NothingToAccept \/ Reject
  <2>1. staged' \in Folder /\ tracked' = 0 /\ mpc' = "run"
    BY <1>6, DiscardType DEF NothingToAccept, Reject
  <2>2. UNCHANGED <<live, bak, savedToday, modelInUse, candidate, hadLive, today, childVars, crashes>>
    BY <1>6 DEF NothingToAccept, Reject
  <2>3. QED
    BY <2>1, <2>2 DEF StagingTypeOK
<1>7. CASE LoadStaged
  BY <1>7 DEF LoadStaged, StagingTypeOK, Folder
<1>8. CASE ClearBackup
  <2>1. bak' \in Folder /\ mpc' \in MainPoint
    BY <1>8, FolderType DEF ClearBackup, StagingTypeOK
  <2>2. QED
    BY <1>8, <2>1 DEF ClearBackup, StagingTypeOK
<1>9. CASE BackUpLive
  <2>1. live' \in Folder /\ bak' \in Folder /\ hadLive' \in BOOLEAN
    BY <1>9, FolderType DEF BackUpLive, StagingTypeOK
  <2>2. QED
    BY <1>9, <2>1 DEF BackUpLive, StagingTypeOK
<1>10. CASE SwapIn
  BY <1>10, FolderType DEF SwapIn, StagingTypeOK
<1>11. CASE SwapFails
  <2>1. live' \in Folder /\ bak' \in Folder
    BY <1>11, FolderType DEF SwapFails, StagingTypeOK
  <2>2. QED
    BY <1>11, <2>1, DiscardType DEF SwapFails, StagingTypeOK
<1>12. CASE DropBackup
  <2>1. bak' \in Folder
    BY <1>12, FolderType DEF DropBackup, StagingTypeOK
  <2>2. /\ mpc' \in MainPoint /\ tracked' \in 0..MaxRetrains
        /\ modelInUse' \in SUBSET (0..MaxRetrains)
    <3>1. CASE mpc = "swapped"
      BY <1>12, <3>1 DEF DropBackup, StagingTypeOK
    <3>2. CASE mpc = "dropping"
      <4>1. mpc' = "run" /\ tracked' = 0 /\ modelInUse' = candidate
        BY <1>12, <3>2 DEF DropBackup
      <4>2. QED
        BY <4>1 DEF StagingTypeOK
    <3>3. QED
      BY <1>12, <3>1, <3>2 DEF DropBackup
  <2>3. QED
    BY <1>12, <2>1, <2>2 DEF DropBackup, StagingTypeOK
<1>13. QED
  BY <1>1, <1>2, <1>3, <1>4, <1>5, <1>6, <1>7, <1>8, <1>9, <1>10, <1>11, <1>12
     DEF MainStep

\* Every step keeps the types.
LEMMA TypeStep ==
  ASSUME StagingTypeOK, [StagingNext]_stagingVars
  PROVE  StagingTypeOK'
<1>1. CASE MainStep
  BY <1>1, MainStepType
<1>2. ASSUME NEW c \in Child, ChildStep(c) PROVE StagingTypeOK'
  BY <1>2, ChildStepType
<1>3. CASE UNCHANGED stagingVars
  BY <1>3 DEF stagingVars, folders, judgeVars, childVars, StagingTypeOK
<1>4. QED
  BY <1>1, <1>2, <1>3 DEF StagingNext

-----------------------------------------------------------------------------
(* Who runs.                                                               *)

\* The steps of a child keep the order of the children.
LEMMA ChildStepRuns ==
  ASSUME StagingTypeOK, ChildInv, NEW c \in Child, ChildStep(c)
  PROVE  ChildInv'
<1>1. /\ Alive(c)
      /\ \E point \in ChildPoint \ {"none"} : ChildTo(c, point)
      /\ UNCHANGED <<mpc, tracked, started, overlap, crashes>>
  BY DEF ChildStep, ChildDiscards, ChildLoads, ChildFits, ChildClears, ChildWrites,
         ChildSigns, ChildEnds, Alive, ChildPoint, folders, judgeVars, childVars
<1>2. PICK point \in ChildPoint \ {"none"} : ChildTo(c, point)
  BY <1>1
<1>3. cpc'[c] = point /\ \A d \in Child : d # c => cpc'[d] = cpc[d]
  BY <1>2, GotoType
<1>4. \A d \in Child : Alive(d)' => Alive(d)
  BY <1>1, <1>3 DEF Alive
<1>5. \A d \in Child : cpc'[d] # "none" => cpc[d] # "none"
  BY <1>1, <1>3 DEF Alive
<1>6. Judging' => Judging
  BY <1>1 DEF Judging
<1>7. Judging => tracked # 0 /\ ~(Alive(tracked)')
  <2>1. SUFFICES ASSUME Judging PROVE tracked # 0 /\ ~(Alive(tracked)')
    OBVIOUS
  <2>2. tracked \in Child /\ ~Alive(tracked)
    BY <2>1, StagingAssumption DEF ChildInv, StagingTypeOK, Child
  <2>3. QED
    BY <1>1, <1>4, <2>2, StagingAssumption DEF Child, Alive
<1>8. QED
  BY <1>1, <1>4, <1>5, <1>6, <1>7 DEF ChildInv, Alive

\* The steps of the main process keep it.
LEMMA MainStepRuns ==
  ASSUME StagingTypeOK, ChildInv, MainStep
  PROVE  ChildInv'
<1> USE DEF folders, judgeVars, childVars
<1>1. CASE TriggerRetraining
  <2>1. /\ mpc = "run" /\ mpc' = "run" /\ tracked = 0 /\ tracked' = started + 1
        /\ started \in Nat /\ started' = started + 1 /\ started + 1 \in Child
        /\ crashes' = crashes
        /\ cpc' = [cpc EXCEPT ![started + 1] = "discard"]
        /\ overlap' = (overlap \/ \E c \in Child : Alive(c))
    <3>1. started \in Nat /\ started + 1 \in Child
      BY <1>1, StagingAssumption DEF TriggerRetraining, StagingTypeOK, Child
    <3>2. QED
      BY <1>1, <3>1 DEF TriggerRetraining
  <2>2. \A d \in Child : cpc'[d] = IF d = started + 1 THEN "discard" ELSE cpc[d]
    BY <2>1 DEF StagingTypeOK
  <2>3. \A d \in Child : Alive(d)' => Alive(d) \/ d = tracked'
    BY <2>1, <2>2 DEF Alive
  <2>4. \A d \in Child : cpc'[d] # "none" => d <= started'
    BY <2>1, <2>2, StagingAssumption DEF ChildInv, Child
  <2>5. overlap' => crashes > 0
    <3>1. \A c \in Child : Alive(c) => crashes > 0
      BY <2>1, StagingAssumption DEF ChildInv, Child
    <3>2. QED
      BY <2>1, <3>1 DEF ChildInv
  <2>6. ~overlap' => \A d \in Child : Alive(d)' => d = tracked'
    BY <2>1, <2>3
  <2>7. \A d \in Child : Alive(d)' => d = tracked' \/ crashes' > 0
    <3>1. \A d \in Child : Alive(d) => crashes > 0
      BY <2>1, StagingAssumption DEF ChildInv, Child
    <3>2. QED
      BY <2>1, <2>3, <3>1
  <2>8. ~Judging'
    BY <2>1 DEF Judging
  <2>9. QED
    BY <2>1, <2>4, <2>5, <2>6, <2>7, <2>8 DEF ChildInv, Alive
<1>2. CASE Crash
  <2>1. /\ mpc' = "down" /\ tracked' = 0 /\ crashes' > 0 /\ ~Judging'
        /\ UNCHANGED <<cpc, started, overlap>>
    BY <1>2 DEF Crash, StagingTypeOK, Judging
  <2>2. QED
    BY <2>1, StagingAssumption DEF ChildInv, Alive, StagingTypeOK
<1>3. ASSUME ~TriggerRetraining, ~Crash
      PROVE  /\ UNCHANGED <<cpc, started, overlap, crashes>>
             /\ tracked' = tracked \/ (tracked' = 0 /\ mpc' = "run")
             /\ Judging' => tracked' = tracked /\ (Judging \/ (tracked # 0 /\ ~Alive(tracked)))
             /\ mpc' = "down" => mpc = "down"
             /\ tracked' = 0 /\ tracked # 0 => ~Alive(tracked)
  BY <1>3 DEF MainStep, Start, Reconnect, SaveState, NewDay, NothingToAccept, LoadStaged,
       Reject, ClearBackup, BackUpLive, SwapIn, SwapFails, DropBackup, Forget, Judging,
       ChildInv
<1>4. ASSUME ~TriggerRetraining, ~Crash PROVE ChildInv'
  <2>1. \A d \in Child : Alive(d)' <=> Alive(d)
    BY <1>3, <1>4 DEF Alive
  <2>2. tracked' # 0 => tracked' = tracked
    BY <1>3, <1>4
  <2>3. QED
    BY <1>3, <1>4, <2>1, <2>2, StagingAssumption DEF ChildInv, Alive, StagingTypeOK, Child
<1>5. QED
  BY <1>1, <1>2, <1>4

-----------------------------------------------------------------------------
(* What is on disk.                                                        *)

\* A recovery loads what the next start would have loaded, and leaves no backup to
\* recover.
LEMMA RecoverKeeps ==
  ASSUME DiskInv, mpc \in {"down", "run"}, Recover
  PROVE  /\ OnDisk' = OnDisk
         /\ live' # NoFolder => live'.signed
         /\ live' = NoFolder => bak' = NoFolder
         /\ live' = live \/ live = NoFolder
BY DEF DiskInv, Recover, OnDisk, NoFolder

\* While a model is judged no child runs, so none touches a folder.
LEMMA ChildStepDisk ==
  ASSUME StagingInv, ~overlap, NEW c \in Child, ChildStep(c)
  PROVE  DiskInv'
<1>1. Alive(c) /\ UNCHANGED <<judgeVars, crashes>>
  BY DEF ChildStep, ChildDiscards, ChildLoads, ChildFits, ChildClears, ChildWrites,
         ChildSigns, ChildEnds, Alive
<1>2. mpc \in {"down", "run"}
  BY <1>1 DEF StagingInv, ChildInv, Judging
<1>3. DiskInv
  BY DEF StagingInv
<1>4. CASE UNCHANGED <<live, bak>>
  BY <1>1, <1>2, <1>3, <1>4 DEF DiskInv, OnDisk, judgeVars
<1>5. CASE Recover
  BY <1>1, <1>2, <1>3, <1>5, RecoverKeeps DEF DiskInv, judgeVars
<1>6. QED
  BY <1>4, <1>5 DEF ChildStep, ChildDiscards, ChildLoads, ChildFits, ChildClears,
     ChildWrites, ChildSigns, ChildEnds, folders

\* A start or a reconnect leaves a live folder that the model in use was read from.
LEMMA LoadDisk ==
  ASSUME DiskInv, mpc \in {"down", "run"}, mpc' = "run", LoadModels, candidate' = candidate
  PROVE  DiskInv'
BY RecoverKeeps DEF LoadModels, DiskInv, OnDisk, NoFolder

\* The steps of the main process, one after the other.
LEMMA MainStepDisk ==
  ASSUME StagingInv, ~overlap, MainStep
  PROVE  DiskInv'
<1> USE DEF folders, judgeVars, Forget
<1>1. DiskInv /\ StagingTypeOK
  BY DEF StagingInv
<1>2. CASE Start \/ Reconnect
  BY <1>1, <1>2, LoadDisk DEF Start, Reconnect
<1>3. CASE Crash
  BY <1>1, <1>3 DEF Crash, DiskInv, OnDisk
<1>4. CASE SaveState \/ NewDay \/ TriggerRetraining
  BY <1>1, <1>4 DEF SaveState, NewDay, TriggerRetraining, DiskInv, OnDisk
<1>5. CASE NothingToAccept
  BY <1>1, <1>5 DEF NothingToAccept, DiskInv, OnDisk
<1>6. CASE LoadStaged
  <2>1. mpc = "run" /\ mpc' = "loaded" /\ candidate' = staged.by /\ staged.signed
        /\ UNCHANGED <<live, bak, staged, modelInUse>>
    BY <1>6 DEF LoadStaged
  <2>2. QED
    BY <1>1, <2>1 DEF DiskInv, OnDisk
<1>7. CASE Reject
  BY <1>1, <1>7 DEF Reject, DiskInv, OnDisk
<1>8. CASE ClearBackup
  <2>1. mpc \in {"loaded", "clearing"} /\ mpc' \in {"clearing", "cleared"}
        /\ (mpc' = "cleared" => bak' = NoFolder)
        /\ UNCHANGED <<live, staged, modelInUse, candidate, hadLive>>
    BY <1>8 DEF ClearBackup
  <2>2. live = NoFolder => bak = NoFolder
    BY <1>1, <2>1 DEF DiskInv
  <2>3. live = NoFolder => bak' = NoFolder
    BY <1>8, <2>2 DEF ClearBackup, Halved
  <2>4. QED
    BY <1>1, <2>1, <2>2, <2>3 DEF DiskInv, OnDisk, NoFolder
<1>9. CASE BackUpLive
  BY <1>1, <1>9 DEF BackUpLive, DiskInv, OnDisk, NoFolder
<1>10. CASE SwapIn
  BY <1>1, <1>10 DEF SwapIn, DiskInv, OnDisk, NoFolder
<1>11. CASE SwapFails
  BY <1>1, <1>11 DEF SwapFails, DiskInv, OnDisk, NoFolder
<1>12. CASE DropBackup
  <2>1. mpc \in {"swapped", "dropping"} /\ mpc' \in {"dropping", "run"}
        /\ modelInUse' \in {modelInUse, candidate} /\ (mpc' = "run" => modelInUse' = candidate)
        /\ UNCHANGED <<live, staged, candidate>>
    BY <1>12 DEF DropBackup
  <2>2. live # NoFolder /\ live.signed /\ live.by = candidate
    BY <1>1, <2>1 DEF DiskInv, NoFolder
  <2>3. QED
    BY <2>1, <2>2 DEF DiskInv, OnDisk
<1>13. QED
  BY <1>2, <1>3, <1>4, <1>5, <1>6, <1>7, <1>8, <1>9, <1>10, <1>11, <1>12 DEF MainStep

-----------------------------------------------------------------------------
(* The theorems.                                                           *)

\* Every step of every process, and every kill between two file operations, keeps
\* the invariant.
THEOREM StagingInductive ==
  ASSUME StagingInv, [StagingNext]_stagingVars
  PROVE  StagingInv'
<1>1. StagingTypeOK'
  BY TypeStep DEF StagingInv
<1>2. ChildInv'
  <2>1. CASE UNCHANGED stagingVars
    BY <2>1 DEF StagingInv, ChildInv, Alive, Judging, stagingVars, judgeVars, childVars
  <2>2. CASE StagingNext
    BY <2>2, ChildStepRuns, MainStepRuns DEF StagingNext, StagingInv
  <2>3. QED
    BY <2>1, <2>2
<1>3. ASSUME ~(overlap') PROVE DiskInv'
  <2>1. CASE UNCHANGED stagingVars
    BY <1>3, <2>1 DEF StagingInv, DiskInv, OnDisk, stagingVars, folders, judgeVars, childVars
  <2>2. CASE StagingNext
    <3>1. ~overlap
      BY <1>3, <2>2 DEF StagingNext, ChildStep, ChildDiscards, ChildLoads, ChildFits, ChildClears,
         ChildWrites, ChildSigns, ChildEnds, MainStep, Start, Reconnect, Crash, SaveState,
         NewDay, TriggerRetraining, NothingToAccept, LoadStaged, Reject, ClearBackup,
         BackUpLive, SwapIn, SwapFails, DropBackup, childVars
    <3>2. QED
      BY <2>2, <3>1, ChildStepDisk, MainStepDisk DEF StagingNext
  <2>3. QED
    BY <2>1, <2>2
<1>4. QED
  BY <1>1, <1>2, <1>3 DEF StagingInv

\* The invariant holds in every reachable state.
THEOREM StagingInvariant == StagingSpec => []StagingInv
BY InitStaging, StagingInductive, PTL DEF StagingSpec

\* A trained model in use survives a kill at any point of its replacement, and the
\* next start loads it or the one that was just accepted.
THEOREM ModelSurvives == StagingSpec => []ModelOnDisk
<1>1. StagingInv => ModelOnDisk
  BY DEF StagingInv, ModelOnDisk, DiskInv, StagingTypeOK, MainPoint
<1>2. QED
  BY <1>1, StagingInvariant, PTL

\* The live folder only ever holds a model that was signed, judged and accepted.
THEOREM LiveIsAccepted == StagingSpec => []AcceptedOnly
<1>1. StagingInv => AcceptedOnly
  BY DEF StagingInv, AcceptedOnly, DiskInv
<1>2. QED
  BY <1>1, StagingInvariant, PTL

\* Without a kill of the main process no two retrains of a side run at once.
THEOREM NoOverlap == StagingSpec => []OneRetrainAtATime
<1>1. StagingInv => OneRetrainAtATime
  BY DEF StagingInv, OneRetrainAtATime, ChildInv
<1>2. QED
  BY <1>1, StagingInvariant, PTL

=============================================================================
