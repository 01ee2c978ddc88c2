----------------------------- MODULE MCAgentWork -----------------------------
(***************************************************************************)
(* Work that is done for the operator over many runs: the search lease     *)
(* scheduler, a campaign of agent runs and the desk of opportunities, for  *)
(* TLC.                                                                    *)
(*                                                                         *)
(* They share no variable and are explored side by side: machine says      *)
(* which of them moves in a behaviour, and the others rest in an initial   *)
(* state of theirs.                                                        *)
(***************************************************************************)
EXTENDS SearchLease, AgentCampaign, OpportunityDesk, TLC

CONSTANTS l1, l2, l3, s1, s2, g1, g2, g3, t1, t2, t3, a, b, lead,
          Machines  \* the machines a configuration lets move

VARIABLE machine

\* Three leases, two of them on the same corpus snapshot.
MCSnapshotOf == l1 :> s1 @@ l2 :> s1 @@ l3 :> s2
MCOneSnapshot == l1 :> s1 @@ l2 :> s1

\* The routes that end in a shadow run, and the notifications that may be
\* silent.
MCPolicies ==
  {[route |-> "REQUIRE_HUMAN_APPROVAL", inApp |-> TRUE], [route |-> "AUTO_SHADOW", inApp |-> TRUE],
   [route |-> "NOTIFY_ONLY", inApp |-> FALSE]}

\* Leases on the same snapshot, and signatures, may change places; so may tasks
\* and cases.
LeaseSymmetry == Permutations({l1, l2}) \cup Permutations(Signature)
WorkSymmetry == Permutations(Task) \cup Permutations(Case)

-----------------------------------------------------------------------------
(* Side by side. *)

CampaignRests == campaign.members = {}

DeskRests == defaultPolicy.route = "AUTO_SHADOW"

Init ==
  /\ machine \in Machines
  /\ LeaseInit /\ CampaignInit /\ DeskInit
  /\ machine # "leases" => deepEnabled
  /\ machine # "campaign" => CampaignRests
  /\ machine # "desk" => DeskRests

Next ==
  /\ UNCHANGED machine
  /\ \/ machine = "leases" /\ LeaseNext /\ UNCHANGED <<campaignVars, deskVars>>
     \/ machine = "campaign" /\ CampaignNext /\ UNCHANGED <<leaseVars, deskVars>>
     \/ machine = "desk" /\ DeskNext /\ UNCHANGED <<leaseVars, campaignVars>>

vars == <<machine, leaseVars, campaignVars, deskVars>>

Spec == Init /\ [][Next]_vars

\* The fairness of the leases and of the campaign.  A campaign that rests has
\* nothing to do but to let its interval pass.
FairSpec ==
  /\ Spec
  /\ LeaseFairness
  /\ \A r \in Run : WF_campaignVars(RunStep(r))
  /\ WF_campaignVars(Tick) /\ WF_campaignVars(machine = "campaign" /\ IntervalPasses)
=============================================================================
