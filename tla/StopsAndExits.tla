---------------------------- MODULE StopsAndExits ----------------------------
(***************************************************************************)
(* The two ways an open position is followed to its end: the stop          *)
(* management of the live bot (StopManagement), and the expert advisor of  *)
(* the H1 bot, which acts on the signal file the bot leaves it (H1Bridge). *)
(* They are programs of their own and share nothing: a behaviour of this   *)
(* module is a behaviour of one of them.                                   *)
(***************************************************************************)
EXTENDS MCStopManagement, H1Bridge

VARIABLE manager

managerVars == <<manager, stopVars, bridgeVars>>

ManagerInit ==
  /\ manager \in {"bot", "advisor"}
  /\ StopInit /\ BridgeInit
  /\ manager = "bot" => bar = FirstBar
  /\ manager = "advisor" => /\ trade = CHOOSE t \in Trades : TRUE
                            /\ settings = CHOOSE s \in Settings : TRUE

ByBot(A) == manager = "bot" /\ A /\ UNCHANGED <<manager, bridgeVars>>
ByAdvisor(A) == manager = "advisor" /\ A /\ UNCHANGED <<manager, stopVars>>

ManagerNext == ByBot(StopNext) \/ ByAdvisor(BridgeNext)

\* StopFairness where the bot manages the position, BridgeFairness where the
\* advisor does.
ManagerSpec ==
  /\ ManagerInit /\ [][ManagerNext]_managerVars
  /\ WF_managerVars(ByBot(CopyEntry)) /\ WF_managerVars(ByBot(UpdateEntry))
  /\ SF_managerVars(ByBot(\E d \in settings.trailing \cup {0} : Decide(d)))
  /\ SF_managerVars(ByBot(\E answered \in BOOLEAN : Modify(answered)))
  /\ WF_managerVars(ByAdvisor(OnInit)) /\ WF_managerVars(ByAdvisor(AdvisorStep))
  /\ SF_managerVars(ByAdvisor(ManageExit(TRUE)))

=============================================================================
