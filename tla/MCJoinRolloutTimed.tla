------------------------- MODULE MCJoinRolloutTimed -------------------------
(* Model-checking instance of JoinRolloutTimed: two events per watch, a    *)
(* timeout of two seconds, so that events arrive before, between and after *)
(* ticks, and a zero timeout for which the server picks up to three        *)
(* seconds.                                                                *)
EXTENDS JoinRolloutTimed

MCMaxEvents == 2
MCTimeout == 2
MCZeroTimeout == 0
MCMaxServerDeadline == 3

=============================================================================
