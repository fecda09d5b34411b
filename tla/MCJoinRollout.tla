---------------------------- MODULE MCJoinRollout ----------------------------
(* Model-checking instance of JoinRollout: up to two events per watch, so   *)
(* that a watch can deliver a not-Ready pod and then a Ready one, or an     *)
(* unrelated object and then the pod, before it ends.                       *)
EXTENDS JoinRollout

MCMaxEvents == 2

=============================================================================
