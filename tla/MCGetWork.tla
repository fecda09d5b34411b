------------------------------ MODULE MCGetWork ------------------------------
(* Model-checking instance of GetWork: two clusters and two work names, so  *)
(* that a work of another namespace and one of another name are both left  *)
(* out, and status lists with no condition, one, a repeated type and the   *)
(* two types out of order.                                                 *)
EXTENDS GetWork

CONSTANTS c1, c2, w1, w2

MCClusters == {c1, c2}
MCWorkNames == {w1, w2}

MCConditionLists ==
    {<< >>,
     <<[type |-> "Applied", status |-> "True"]>>,
     <<[type |-> "Applied", status |-> "False"],
       [type |-> "Applied", status |-> "True"]>>,
     <<[type |-> "Available", status |-> "True"],
       [type |-> "Applied", status |-> "Unknown"]>>}

MCMaxHubChanges == 2

=============================================================================
