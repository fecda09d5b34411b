---------------------------- MODULE MCJoinTrust ----------------------------
(* A small instance of JoinTrust: two server URLs of which one is valid,  *)
(* two distinct CA bundles so that a CA from --ca-file and a CA from the  *)
(* hub can be told apart.                                                  *)
EXTENDS JoinTrust

CONSTANTS a1, a2, c1, c2

MCAddr == {a1, a2}
MCValidAddr == {a1}
MCCA == {c1, c2}

=============================================================================
