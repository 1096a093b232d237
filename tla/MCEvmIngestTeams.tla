------------------------- MODULE MCEvmIngestTeams -------------------------
(***************************************************************************)
(* Liveness of EvmIngest, which TLC checks without symmetry: a behaviour   *)
(* has a team of processes, such as two forward ones and a backfill, or    *)
(* one and two backfills, because all of them at once are too many states. *)
(***************************************************************************)
EXTENDS EvmIngest

CONSTANT Teams  \* the sets of processes that run together

VARIABLE team   \* the processes that run in this behaviour

teamVars == <<vars, team>>

\* A process outside the team never starts.
OnlyTeam(p) == p \in team /\ UNCHANGED team

TeamNext ==
  \/ (NewBlock \/ Reorg) /\ UNCHANGED team
  \/ \E p \in Forward : OnlyTeam(p) /\ ForwardStep(p)
  \/ \E p \in Backfill : OnlyTeam(p) /\ BackfillStep(p)
  \/ \E p \in Procs : OnlyTeam(p) /\ Fail(p)

TeamSpec == Init /\ team \in Teams /\ [][TeamNext]_teamVars

\* The fairness of FairSpec, for the team.
TeamFairSpec ==
  /\ TeamSpec
  /\ \A p \in Forward : WF_teamVars(OnlyTeam(p) /\ ForwardStep(p))
  /\ \A p \in Backfill : WF_teamVars(OnlyTeam(p) /\ BackfillStep(p))
=============================================================================
