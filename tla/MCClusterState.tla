---------------------------- MODULE MCClusterState ----------------------------
(* Instances of ClusterState for TLC. *)
EXTENDS ClusterState

Member(id, health) == [worker_id |-> id, health |-> health, total |-> 2,
                       reserved |-> id - 1]
MCMembers == {Member(1, "ONLINE"), Member(2, "OFFLINE"), Member(2, "ONLINE")}
=============================================================================
