--------------------------- MODULE TrustEscalation ---------------------------
(***************************************************************************)
(* What the join's trust escalation promises (spec sections 4.2, 6, 7 and  *)
(* 8), as the calls it makes to the hub and the credential it builds.      *)
(* Missing input is rejected before any call.  While no CA is trusted,     *)
(* calls go over the insecure channel to the supplied hub address: the     *)
(* optional lookup of an internal address, and the CA fetch, which is not  *)
(* made when the operator supplied CA bytes.  The secure credential points *)
(* at the supplied address, verifies TLS, and trusts the supplied bytes or *)
(* the fetched ones.  It is checked with one secure call, and only after   *)
(* that check may its server become an address the lookup returned; then  *)
(* it is serialized for persistence.  Every error aborts the escalation,   *)
(* and nothing is persisted.  The hub's answers are the environment.       *)
(***************************************************************************)
EXTENDS Sequences

CONSTANTS
    Addr,  \* the hub addresses a client can be built for
    CA,    \* non-empty CA bundles
    Empty, \* the empty string or byte slice
    Nil    \* an absent value

VARIABLES
    supplied,  \* the hub address the operator supplied
    explicit,  \* the CA bytes the operator supplied, Nil when none
    calls,     \* the calls made to the hub, in order
    cred,      \* the secure credential, Nil until it is built
    persisted, \* the serialized credential, Empty until it is written
    status     \* "start", "insecure", "pinned", "persisted" or "failed"

vars == <<supplied, explicit, calls, cred, persisted, status>>

Server == Addr \cup {Empty}
CABytes == CA \cup {Empty}

\* A call to the hub and its answer.
Call == [op: {"GetAPIServer", "GetCACert", "Preflight"}, server: Addr,
         secure: BOOLEAN, result: {"ok", "notfound", "error"},
         data: Server \cup CABytes \cup {Nil}]

\* The secure credential: the supplied address, TLS verified, trusting ca.
Secure(ca) == [server |-> supplied, insecure |-> FALSE, ca |-> ca]

\* The serialized credential: an absent CA is written as no CA.
Serialize(c) ==
    [server |-> c.server, insecure |-> c.insecure,
     ca |-> IF c.ca = Nil THEN Empty ELSE c.ca]

\* A call over the insecure channel to the supplied address.
Insecure(c) == c.server = supplied /\ ~c.secure

Init ==
    /\ supplied \in Server
    /\ explicit = Nil
    /\ calls = << >>
    /\ cred = Nil
    /\ persisted = Empty
    /\ status = "start"

\* The required input is there: a hub address, and the CA file's bytes when
\* one was named.
Accept ==
    /\ status = "start"
    /\ supplied \in Addr
    /\ explicit' \in CABytes \cup {Nil}
    /\ status' = "insecure"
    /\ UNCHANGED <<supplied, calls, cred, persisted>>

\* A configuration or local error before the credential is persisted.
Abort ==
    /\ status \in {"start", "insecure", "pinned"}
    /\ status' = "failed"
    /\ UNCHANGED <<supplied, explicit, calls, cred, persisted>>

\* The lookup of the hub's internal address: NotFound is tolerated, any
\* other error aborts.
Lookup ==
    /\ status = "insecure"
    /\ \E c \in Call :
          /\ c.op = "GetAPIServer" /\ Insecure(c)
          /\ calls' = Append(calls, c)
          /\ status' = IF c.result = "error" THEN "failed" ELSE status
    /\ UNCHANGED <<supplied, explicit, cred, persisted>>

\* The secure credential is built on the supplied CA bytes, without a call,
\* or on the bytes the hub returned to an insecure CA fetch.
Pin ==
    /\ status = "insecure"
    /\ \/ /\ explicit # Nil
          /\ cred' = Secure(explicit)
          /\ status' = "pinned"
          /\ UNCHANGED calls
       \/ /\ explicit = Nil
          /\ \E c \in Call :
               /\ c.op = "GetCACert" /\ Insecure(c)
               /\ c.result \in {"ok", "error"}
               /\ calls' = Append(calls, c)
               /\ IF c.result = "error"
                     THEN status' = "failed" /\ UNCHANGED cred
                     ELSE cred' = Secure(c.data) /\ status' = "pinned"
    /\ UNCHANGED <<supplied, explicit, persisted>>

\* The secure check of the credential; once it passed, the server may be
\* switched to an address the lookup returned, and the credential is
\* serialized.
Check ==
    /\ status = "pinned"
    /\ \E r \in {"ok", "error"} :
          /\ calls' = Append(calls, [op |-> "Preflight", server |-> cred.server,
                                    secure |-> TRUE, result |-> r,
                                    data |-> Empty])
          /\ IF r = "error"
                THEN status' = "failed" /\ UNCHANGED <<cred, persisted>>
                ELSE \E s \in {cred.server} \cup
                              {calls[i].data : i \in {j \in DOMAIN calls :
                                                 calls[j].op = "GetAPIServer"}} :
                        /\ cred' = [cred EXCEPT !.server = s]
                        /\ persisted' = Serialize(cred')
                        /\ status' = "persisted"
    /\ UNCHANGED <<supplied, explicit>>

Next == Accept \/ Abort \/ Lookup \/ Pin \/ Check

Spec == Init /\ [][Next]_vars

=============================================================================
