------------------------- MODULE JoinTrustRefinement -------------------------
(***************************************************************************)
(* TLAPS proof that the join's trust escalation (JoinTrust) implements its *)
(* contract TrustEscalation under the mapping TE of JoinTrust: every       *)
(* initial state maps to an initial state, and every step to a step of the *)
(* contract or a stutter.  The steps need IInv (the types, the insecure    *)
(* bootstrap config and the pinned secure HubConfig) and one more fact:    *)
(* the in-cluster endpoint setKubeconfig switches to is an answer of the   *)
(* lookup already in the history.                                          *)
(***************************************************************************)
EXTENDS JoinTrustProofs

\* With --force-internal-endpoint-lookup, o.hubInClusterEndpoint is the data
\* of a GetAPIServer answer, from the lookup on.
Resolved ==
    \E i \in DOMAIN hubCalls :
        hubCalls[i].op = "GetAPIServer" /\ hubCalls[i].data = hubInClusterEndpoint

LookupInv == o.force /\ pc \in {"trust"} \cup Pinned => Resolved


\* The status each step of complete() and validate() maps to.
LEMMA StatusOf ==
    /\ pc = "complete" => TrustStatus = "start"
    /\ pc \in {"bootstrap", "lookup", "trust"} => TrustStatus = "insecure"
    /\ pc \in {"klusterlet", "validate"} => TrustStatus = "pinned"
    /\ pc = "validated" => TrustStatus = "persisted"
    /\ pc = "failed" => TrustStatus = "failed"
BY Zenon DEF TrustStatus

LEMMA StatusOfNext ==
    /\ pc' = "complete" => TrustStatus' = "start"
    /\ pc' \in {"bootstrap", "lookup", "trust"} => TrustStatus' = "insecure"
    /\ pc' \in {"klusterlet", "validate"} => TrustStatus' = "pinned"
    /\ pc' = "validated" => TrustStatus' = "persisted"
    /\ pc' = "failed" => TrustStatus' = "failed"
BY Zenon DEF TrustStatus

LEMMA InitLookupInv == Init => LookupInv
BY DEF Init, LookupInv, Pinned

LEMMA NextLookupInv == IInv /\ LookupInv /\ [Next]_vars => LookupInv'
<1> SUFFICES ASSUME IInv, LookupInv, [Next]_vars PROVE LookupInv'
    OBVIOUS
<1>0. hubCalls \in Seq(HubCall)
    BY DEF IInv, TypeOK
<1>1. CASE CompleteOptions \/ CreateBootstrapClient
    BY <1>1 DEF CompleteOptions, CreateBootstrapClient, Fail, LookupInv, Pinned
<1>2. CASE LookupHubInClusterEndpoint
    <2>1. CASE ~o.force
        BY <1>2, <2>1 DEF LookupHubInClusterEndpoint, LookupInv
    <2>2. CASE o.force
        <3>1. PICK answer \in APIServerAnswers(hubInfo) :
                /\ hubCalls' = Append(hubCalls,
                                 Request("GetAPIServer", bootstrapConfig, answer))
                /\ hubInClusterEndpoint' = answer.data
            BY <1>2, <2>2 DEF LookupHubInClusterEndpoint
        <3>2. /\ Len(hubCalls') \in DOMAIN hubCalls'
              /\ hubCalls'[Len(hubCalls')].op = "GetAPIServer"
              /\ hubCalls'[Len(hubCalls')].data = hubInClusterEndpoint'
            BY <1>0, <3>1 DEF Request
        <3>3. QED
            BY <3>2 DEF LookupInv, Resolved
    <2>3. QED
        BY <2>1, <2>2
<1>3. CASE PinHubCA \/ Validate
    <2>1. /\ UNCHANGED <<o, hubInClusterEndpoint>>
          /\ \E c : hubCalls' \in {hubCalls, Append(hubCalls, c)}
          /\ pc \in {"trust", "validate"}
        BY <1>3 DEF PinHubCA, Validate
    <2>2. Resolved => Resolved'
        BY <1>0, <2>1, AppendKeeps DEF Resolved
    <2>3. QED
        BY <2>2, <1>3 DEF LookupInv, Pinned, PinHubCA, Validate, Fail
<1>4. CASE LookupKlusterletAPIServer \/ Terminated \/ UNCHANGED vars
    BY <1>4 DEF LookupKlusterletAPIServer, Terminated, vars, Fail,
               LookupInv, Resolved, Pinned
<1>5. QED
    BY <1>1, <1>2, <1>3, <1>4 DEF Next


\* The join starts where the contract starts.
THEOREM RefineInit == Init => TE!Init
BY StatusOf, StatusOfNext DEF Init, TE!Init, Options, Server, TE!Server

\* A step that keeps the mapped state is a stutter of the contract.
LEMMA KeepTE ==
    ASSUME UNCHANGED <<o, HubCADate, hubCalls, HubConfig, kubeConfig>>,
           TrustStatus' = TrustStatus
    PROVE  [TE!Next]_TE!vars
BY DEF TE!vars

\* A configuration or local failure before validated is the contract's Abort.
LEMMA AbortTE ==
    ASSUME UNCHANGED <<o, HubCADate, hubCalls, HubConfig, kubeConfig>>,
           pc \in {"complete", "bootstrap", "lookup", "trust", "klusterlet",
                   "validate"},
           pc' = "failed"
    PROVE  [TE!Next]_TE!vars
<1>1. TrustStatus \in {"start", "insecure", "pinned"} /\ TrustStatus' = "failed"
    BY StatusOf, StatusOfNext
<1>2. TE!Abort
    BY <1>1 DEF TE!Abort
<1>3. QED
    BY <1>2 DEF TE!Next

\* Every step of the join is a step of the contract or a stutter.
THEOREM RefineStep == IInv /\ LookupInv /\ [Next]_vars => [TE!Next]_TE!vars
<1> SUFFICES ASSUME IInv, LookupInv, [Next]_vars PROVE [TE!Next]_TE!vars
    OBVIOUS
<1>0. /\ hubCalls \in Seq(HubCall) /\ o \in Options
      /\ HubCADate \in CABytes \cup {Nil} /\ hubInfo \in {Nil} \cup ClusterInfo
    BY DEF IInv, TypeOK
<1>1. CASE CompleteOptions
    <2>1. CASE pc' = "failed"
        BY <1>1, <2>1, AbortTE DEF CompleteOptions, Fail
    <2>2. CASE RequiredOptionsSet /\ pc' = "bootstrap"
        <3>1. /\ o.hubAPIServer \in Addr /\ HubCADate' \in CABytes \cup {Nil}
              /\ TrustStatus = "start" /\ TrustStatus' = "insecure"
            BY <1>0, <1>1, <2>2, StatusOf, StatusOfNext
            DEF CompleteOptions, RequiredOptionsSet, Options, Server
        <3>2. TE!Accept
            BY <1>1, <3>1 DEF CompleteOptions, TE!Accept, TE!CABytes, CABytes
        <3>3. QED
            BY <3>2 DEF TE!Next
    <2>3. QED
        BY <1>1, <2>1, <2>2 DEF CompleteOptions, Fail
<1>2. CASE CreateBootstrapClient
    <2>1. CASE pc' = "lookup"
        BY <1>2, <2>1, KeepTE, StatusOf, StatusOfNext DEF CreateBootstrapClient
    <2>2. CASE pc' # "lookup"
        BY <1>2, <2>2, AbortTE DEF CreateBootstrapClient, Fail
    <2>3. QED
        BY <2>1, <2>2
<1>3. CASE LookupHubInClusterEndpoint
    <2>1. CASE ~o.force
        BY <1>3, <2>1, KeepTE, StatusOf, StatusOfNext DEF LookupHubInClusterEndpoint
    <2>2. CASE o.force
        <3>1. PICK answer \in APIServerAnswers(hubInfo) :
                /\ hubCalls' = Append(hubCalls,
                                 Request("GetAPIServer", bootstrapConfig, answer))
                /\ IF LookupErrorReturned(answer)
                      THEN Fail("network")
                      ELSE pc' = "trust" /\ UNCHANGED err
            BY <1>3, <2>2 DEF LookupHubInClusterEndpoint
        <3> DEFINE c == Request("GetAPIServer", bootstrapConfig, answer)
        <3>2. /\ pc = "lookup" /\ bootstrapConfig = ExternalBootstrapConfig
              /\ o.hubAPIServer \in Addr
            BY <1>3 DEF LookupHubInClusterEndpoint, IInv, Bootstrapped, Checked
        <3>3. c \in TE!Call /\ c.op = "GetAPIServer"
              /\ c.server = o.hubAPIServer /\ ~c.secure
            <4>1. answer.result \in Results /\ answer.data \in Server
                BY <1>0, AnswersTyped
            <4>2. QED
                BY <3>2, <4>1
                DEF Request, Server, ExternalBootstrapConfig, TE!Call, TE!Server,
                TE!CABytes, Results
        <3>4. TrustStatus' = IF c.result = "error" THEN "failed" ELSE TrustStatus
            BY <3>1, <3>2, StatusOf, StatusOfNext
            DEF Request, LookupErrorReturned, APIServerAnswers, Fail
        <3>5. TE!Lookup
            BY <1>3, <3>1, <3>2, <3>3, <3>4, StatusOf, StatusOfNext
            DEF LookupHubInClusterEndpoint, TE!Lookup, TE!Insecure
        <3>6. QED
            BY <3>5 DEF TE!Next
    <2>3. QED
        BY <2>1, <2>2
<1>4. CASE PinHubCA
    <2>0. /\ pc = "trust" /\ bootstrapConfig = ExternalBootstrapConfig
          /\ o.hubAPIServer \in Addr
          /\ TrustStatus = "insecure"
        BY <1>4, StatusOf, StatusOfNext DEF PinHubCA, IInv, Bootstrapped, Checked
    <2>1. CASE UseCAFile
        <3>1. /\ HubConfig' = TE!Secure(HubCADate) /\ HubCADate # Nil
              /\ TrustStatus' = "pinned" /\ UNCHANGED hubCalls
            BY <1>4, <2>1, StatusOf, StatusOfNext DEF PinHubCA, TE!Secure, PinnedServer,
                                        UseCAFile
        <3>2. TE!Pin
            BY <1>4, <2>0, <3>1 DEF PinHubCA, TE!Pin
        <3>3. QED
            BY <3>2 DEF TE!Next
    <2>2. CASE ~UseCAFile
        <3>1. PICK answer \in CACertAnswers(hubInfo) :
                /\ hubCalls' = Append(hubCalls,
                                 Request("GetCACert", bootstrapConfig, answer))
                /\ IF answer.result = "error"
                      THEN Fail("network") /\ UNCHANGED HubConfig
                      ELSE /\ HubConfig' = [server |-> PinnedServer,
                                            insecure |-> FALSE,
                                            ca |-> answer.data]
                           /\ pc' = "klusterlet"
            BY <1>4, <2>2 DEF PinHubCA
        <3> DEFINE c == Request("GetCACert", bootstrapConfig, answer)
        <3>2. /\ c \in TE!Call /\ c.op = "GetCACert"
              /\ c.server = o.hubAPIServer /\ ~c.secure
              /\ c.result \in {"ok", "error"} /\ c.data = answer.data
            <4>1. answer.result \in Results /\ answer.data \in CA \cup {Nil}
                BY <1>0, AnswersTyped
            <4>2. answer.result \in {"ok", "error"}
                BY DEF CACertAnswers
            <4>3. QED
                BY <2>0, <4>1, <4>2
                DEF Request, ExternalBootstrapConfig, TE!Call, TE!Server,
                TE!CABytes, Results
        <3>3. IF c.result = "error"
                 THEN TrustStatus' = "failed" /\ UNCHANGED HubConfig
                 ELSE HubConfig' = TE!Secure(c.data) /\ TrustStatus' = "pinned"
            BY <3>1, <3>2, StatusOf, StatusOfNext DEF Fail, Request, TE!Secure, PinnedServer
        <3>4. TE!Pin
            BY <1>4, <2>0, <2>2, <3>1, <3>2, <3>3
            DEF PinHubCA, TE!Pin, TE!Insecure, UseCAFile
        <3>5. QED
            BY <3>4 DEF TE!Next
    <2>3. QED
        BY <2>1, <2>2
<1>5. CASE LookupKlusterletAPIServer
    <2>1. CASE pc' = "validate"
        BY <1>5, <2>1, KeepTE, StatusOf, StatusOfNext DEF LookupKlusterletAPIServer
    <2>2. CASE pc' # "validate"
        BY <1>5, <2>2, AbortTE DEF LookupKlusterletAPIServer, Fail
    <2>3. QED
        BY <2>1, <2>2
<1>6. CASE Validate
    <2>0. /\ pc = "validate" /\ HubConfig \in Config /\ ~HubConfig.insecure
          /\ TrustStatus = "pinned"
          /\ o.force => Resolved
        BY <1>6, StatusOf, StatusOfNext DEF Validate, IInv, Pinned, LookupInv
    <2>1. PICK r \in {"ok", "error"} :
             /\ hubCalls' = Append(hubCalls,
                              Request("Preflight", HubConfig,
                                      [result |-> r, data |-> Empty]))
             /\ IF r = "error"
                   THEN /\ Fail("network")
                        /\ UNCHANGED <<HubConfig, kubeConfig>>
                   ELSE /\ HubConfig' = SetKubeconfigServer(HubConfig)
                        /\ kubeConfig' = Marshal(SetKubeconfigServer(HubConfig))
                        /\ pc' = "validated"
        BY <1>6 DEF Validate
    <2>2. Request("Preflight", HubConfig, [result |-> r, data |-> Empty])
            = [op |-> "Preflight", server |-> HubConfig.server,
               secure |-> TRUE, result |-> r, data |-> Empty]
        BY <2>0 DEF Request
    <2>3. CASE r = "error"
        <3>1. TrustStatus' = "failed"
            BY <2>1, <2>3, StatusOf, StatusOfNext DEF Fail
        <3>2. TE!Check
            BY <1>6, <2>0, <2>1, <2>2, <2>3, <3>1 DEF Validate, TE!Check
        <3>3. QED
            BY <3>2 DEF TE!Next
    <2>4. CASE r = "ok"
        <3> DEFINE s == SetKubeconfigServer(HubConfig).server
                   Looked == {hubCalls[i].data :
                                i \in {j \in DOMAIN hubCalls :
                                         hubCalls[j].op = "GetAPIServer"}}
        <3>1. s \in {HubConfig.server} \cup Looked
            BY <2>0 DEF SetKubeconfigServer, Resolved
        <3>2. /\ SetKubeconfigServer(HubConfig) = [HubConfig EXCEPT !.server = s]
              /\ Marshal(SetKubeconfigServer(HubConfig))
                   = TE!Serialize(SetKubeconfigServer(HubConfig))
            BY <2>0 DEF SetKubeconfigServer, Config, Marshal, MarshalCA,
                        TE!Serialize
        <3>3. TrustStatus' = "persisted"
            BY <2>1, <2>4, StatusOf, StatusOfNext
        <3>4. TE!Check
            BY <1>6, <2>0, <2>1, <2>2, <2>4, <3>1, <3>2, <3>3
            DEF Validate, TE!Check
        <3>5. QED
            BY <3>4 DEF TE!Next
    <2>5. QED
        BY <2>3, <2>4
<1>7. CASE Terminated \/ UNCHANGED vars
    BY <1>7, KeepTE DEF Terminated, vars, TrustStatus
<1>8. QED
    BY <1>1, <1>2, <1>3, <1>4, <1>5, <1>6, <1>7 DEF Next


\* For every set of addresses and CAs, the join's complete() and validate()
\* implement the trust escalation's contract (spec section 4.2): every
\* behaviour of JoinTrust, under the mapping TE, is a behaviour of
\* TrustEscalation.
THEOREM TrustEscalationRefinedHolds == Spec => TrustEscalationRefined
<1>1. Init => IInv /\ LookupInv
    BY InitIInv, InitLookupInv
<1>2. IInv /\ LookupInv /\ [Next]_vars => IInv' /\ LookupInv'
    BY NextIInv, NextLookupInv
<1>3. IInv /\ LookupInv /\ [Next]_vars => [TE!Next]_TE!vars
    BY RefineStep
<1>4. QED
    BY RefineInit, <1>1, <1>2, <1>3, PTL
    DEF Spec, TrustEscalationRefined, TE!Spec

=============================================================================
