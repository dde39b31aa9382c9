---------------------------- MODULE ChannelHeads ----------------------------
(***************************************************************************)
(* What the rollout promises of a channel, whatever devices, reports and   *)
(* assignments do: a candidate head that publications replace, an active   *)
(* head that only ever takes the candidate's value, and a generation that  *)
(* counts these moves one by one.  Rollout.tla implements it.              *)
(***************************************************************************)
EXTENDS Naturals

CONSTANTS Channel, Revision, NoRevision, MaxGeneration

VARIABLES candidate_revision, active_revision, generation

heads == <<candidate_revision, active_revision, generation>>

HeadsInit ==
    /\ candidate_revision = [c \in Channel |-> NoRevision]
    /\ active_revision = [c \in Channel |-> NoRevision]
    /\ generation = [c \in Channel |-> 0]

Publish(c, r) ==
    /\ candidate_revision' = [candidate_revision EXCEPT ![c] = r]
    /\ UNCHANGED <<active_revision, generation>>

\* Promoting with no candidate withdraws the active revision.
Advance(c) ==
    /\ generation[c] < MaxGeneration
    /\ active_revision' = [active_revision EXCEPT ![c] = candidate_revision[c]]
    /\ candidate_revision' = [candidate_revision EXCEPT ![c] = NoRevision]
    /\ generation' = [generation EXCEPT ![c] = generation[c] + 1]

HeadsNext ==
    \E c \in Channel : Advance(c) \/ \E r \in Revision : Publish(c, r)

HeadsSpec == HeadsInit /\ [][HeadsNext]_heads

============================================================================
