--------------------------- MODULE JoinTrustProofs ---------------------------
(***************************************************************************)
(* Proofs about the trust escalation of `clusteradm join` (JoinTrust), for *)
(* every set of addresses and CA bundles.  IInv is the inductive           *)
(* invariant: TypeOK alone is not inductive, because a request is typed    *)
(* only when the client it is sent with points at a URL, which holds       *)
(* because complete() rejected an empty --hub-apiserver and every later    *)
(* config copies that address.                                             *)
(***************************************************************************)
EXTENDS JoinTrust, SequenceTheorems, TLAPS

USE JoinTrustAssumption

\* Appending a request keeps the earlier requests where they were.
LEMMA AppendKeeps ==
    ASSUME NEW S, NEW s \in Seq(S), NEW e \in S
    PROVE  /\ Append(s, e) \in Seq(S)
           /\ DOMAIN Append(s, e) = DOMAIN s \cup {Len(s) + 1}
           /\ \A i \in DOMAIN s : Append(s, e)[i] = s[i]
           /\ Append(s, e)[Len(s) + 1] = e
BY AppendProperties

\* The answers of the cluster helpers have the type of a request's answer.
LEMMA AnswersTyped ==
    ASSUME NEW info \in {Nil} \cup ClusterInfo
    PROVE  /\ \A a \in APIServerAnswers(info) :
                 a.result \in Results /\ a.data \in Server
           /\ \A a \in CACertAnswers(info) :
                 a.result \in Results /\ a.data \in CA \cup {Nil}
BY DEF APIServerAnswers, CACertAnswers, ClusterInfo, Results, Server

THEOREM InitIInv == Init => IInv
BY DEF Init, IInv, TypeOK, Options, Steps, Errors, CABytes, Server,
       UseCAFile, Checked, Bootstrapped, Pinned

\* A request sent with a config that points at a URL is a typed request.
LEMMA RequestTyped ==
    ASSUME NEW op \in {"GetAPIServer", "GetCACert", "Preflight"},
           NEW cfg \in Config, cfg.server \in Addr,
           NEW a, a.result \in Results, a.data \in Server \cup CABytes \cup {Nil}
    PROVE  Request(op, cfg, a) \in HubCall
BY DEF Request, HubCall, Config

\* setKubeconfig keeps the TLS settings and the CA of the config.
LEMMA SetKubeconfigKeeps ==
    ASSUME NEW cfg \in Config, hubInClusterEndpoint \in Server
    PROVE  /\ SetKubeconfigServer(cfg) \in Config
           /\ SetKubeconfigServer(cfg).insecure = cfg.insecure
           /\ SetKubeconfigServer(cfg).ca = cfg.ca
BY DEF SetKubeconfigServer, Config

\* The marshalled config is a config without a nil CA.
LEMMA MarshalTyped ==
    ASSUME NEW cfg \in Config
    PROVE  /\ Marshal(cfg) \in Config
           /\ Marshal(cfg).insecure = cfg.insecure
           /\ Marshal(cfg).ca = MarshalCA(cfg.ca)
BY DEF Marshal, MarshalCA, Config, CABytes

\* After createExternalBootstrapConfig the insecure config points at a URL.
LEMMA BootstrapTyped ==
    ASSUME IInv, pc \in Bootstrapped
    PROVE  bootstrapConfig \in Config /\ bootstrapConfig.server \in Addr
<1>1. o.hubAPIServer \in Addr /\ bootstrapConfig = ExternalBootstrapConfig
    BY DEF IInv, Bootstrapped, Checked
<1>2. QED
    BY <1>1 DEF ExternalBootstrapConfig, Config, Server, CABytes

\* Appending a request that is not a GetCACert keeps the CA pinned.
LEMMA PinnedCAAppend ==
    ASSUME NEW s \in Seq(HubCall), NEW e \in HubCall, NEW ca,
           \E i \in DOMAIN s : s[i].op = "GetCACert" /\ s[i].result = "ok"
                               /\ ca = s[i].data
    PROVE  \E i \in DOMAIN Append(s, e) :
               /\ Append(s, e)[i].op = "GetCACert"
               /\ Append(s, e)[i].result = "ok"
               /\ ca = Append(s, e)[i].data
BY AppendKeeps

THEOREM NextIInv == IInv /\ [Next]_vars => IInv'
<1> SUFFICES ASSUME IInv, [Next]_vars PROVE IInv'
    OBVIOUS
<1> USE DEF IInv, TypeOK
<1>1. CASE CompleteOptions
    BY <1>1 DEF CompleteOptions, Fail, Steps, Errors, CABytes, UseCAFile,
              RequiredOptionsSet, Options, Server, Checked, Bootstrapped,
              Pinned
<1>2. CASE CreateBootstrapClient
    BY <1>2 DEF CreateBootstrapClient, ExternalBootstrapConfig, Fail, Steps,
              Errors, Config, Server, CABytes, UseCAFile, Checked,
              Bootstrapped, Pinned
<1>3. CASE LookupHubInClusterEndpoint
    <2>1. CASE ~o.force
        BY <1>3, <2>1 DEF LookupHubInClusterEndpoint, Steps, Checked,
                         Bootstrapped, Pinned, UseCAFile, PinnedCA, Answered,
                         ExternalBootstrapConfig
    <2>2. CASE o.force
        <3>1. PICK answer \in APIServerAnswers(hubInfo) :
                /\ hubCalls' = Append(hubCalls,
                                 Request("GetAPIServer", bootstrapConfig, answer))
                /\ hubInClusterEndpoint' = answer.data
                /\ IF LookupErrorReturned(answer)
                      THEN Fail("network")
                      ELSE pc' = "trust" /\ UNCHANGED err
            BY <1>3, <2>2 DEF LookupHubInClusterEndpoint
        <3>2. answer.result \in Results /\ answer.data \in Server
            BY AnswersTyped
        <3>3. bootstrapConfig \in Config /\ bootstrapConfig.server \in Addr
            BY <1>3, BootstrapTyped DEF LookupHubInClusterEndpoint,
                                       Bootstrapped, Checked
        <3>4. Request("GetAPIServer", bootstrapConfig, answer) \in HubCall
            BY <3>2, <3>3, RequestTyped DEF Server
        <3>5. /\ hubCalls' \in Seq(HubCall)
              /\ \A i \in DOMAIN hubCalls' :
                    hubCalls'[i].op = "GetCACert" => hubCalls'[i] = hubCalls[i]
                                                   /\ i \in DOMAIN hubCalls
            <4>1. Request("GetAPIServer", bootstrapConfig, answer).op
                    # "GetCACert"
                BY DEF Request
            <4>2. QED
                BY <3>1, <3>4, <4>1, AppendKeeps
        <3>6. pc' \in {"trust", "failed"} /\ err' \in Errors
            BY <3>1 DEF Fail, Errors
        <3>7. UNCHANGED <<o, hubInfo, managedInfo, HubCADate, bootstrapConfig,
                          HubConfig, klusterletAPIServer, kubeConfig>>
            BY <1>3 DEF LookupHubInClusterEndpoint
        <3>8. QED
            BY <1>3, <3>1, <3>2, <3>5, <3>6, <3>7
            DEF LookupHubInClusterEndpoint, Steps, Checked, Bootstrapped,
                Pinned, UseCAFile, Server, ExternalBootstrapConfig
    <2>3. QED
        BY <2>1, <2>2
<1>4. CASE PinHubCA
    <2> DEFINE secure(ca) == [server |-> PinnedServer, insecure |-> FALSE,
                              ca |-> ca]
    <2>1. /\ pc = "trust"
          /\ bootstrapConfig \in Config /\ bootstrapConfig.server \in Addr
          /\ o.hubAPIServer \in Addr
          /\ UNCHANGED <<o, hubInfo, managedInfo, HubCADate, bootstrapConfig,
                         hubInClusterEndpoint, klusterletAPIServer, kubeConfig>>
          /\ kubeConfig = Empty
        BY <1>4, BootstrapTyped DEF PinHubCA, Checked, Bootstrapped, Pinned
    <2>2. CASE UseCAFile
        <3>1. /\ HubConfig' = secure(HubCADate)
              /\ pc' = "klusterlet"
              /\ UNCHANGED <<err, hubCalls>>
            BY <1>4, <2>2 DEF PinHubCA
        <3>2. /\ HubConfig' \in Config
              /\ HubConfig'.server = o.hubAPIServer
              /\ ~HubConfig'.insecure
              /\ HubConfig'.ca = HubCADate
            BY <2>1, <2>2, <3>1 DEF PinnedServer, Server, Config, UseCAFile
        <3>3. QED
            BY <2>1, <2>2, <3>1, <3>2
            DEF PinnedCA, UseCAFile, Steps, Pinned, Checked, Bootstrapped,
                ExternalBootstrapConfig
    <2>3. CASE ~UseCAFile
        <3>1. PICK answer \in CACertAnswers(hubInfo) :
                /\ hubCalls' = Append(hubCalls,
                                 Request("GetCACert", bootstrapConfig, answer))
                /\ IF answer.result = "error"
                      THEN Fail("network") /\ UNCHANGED HubConfig
                      ELSE /\ HubConfig' = secure(answer.data)
                           /\ pc' = "klusterlet"
                           /\ UNCHANGED err
            BY <1>4, <2>3 DEF PinHubCA
        <3>2. answer.result \in Results /\ answer.data \in CA \cup {Nil}
            BY AnswersTyped
        <3>3. Request("GetCACert", bootstrapConfig, answer) \in HubCall
            BY <2>1, <3>2, RequestTyped DEF CABytes
        <3>4. /\ hubCalls' \in Seq(HubCall)
              /\ Len(hubCalls) + 1 \in DOMAIN hubCalls'
              /\ hubCalls'[Len(hubCalls) + 1] =
                     Request("GetCACert", bootstrapConfig, answer)
            BY <3>1, <3>3, AppendKeeps
        <3>5. CASE answer.result = "error"
            BY <2>1, <2>3, <3>1, <3>4, <3>5 DEF Fail, Steps, Errors, Pinned,
                 Checked, Bootstrapped, UseCAFile, ExternalBootstrapConfig
        <3>6. CASE answer.result # "error"
            <4>1. /\ HubConfig' = secure(answer.data)
                  /\ pc' = "klusterlet" /\ err' = err
                BY <3>1, <3>6
            <4>2. /\ HubConfig' \in Config
                  /\ HubConfig'.server = o.hubAPIServer
                  /\ ~HubConfig'.insecure
                  /\ HubConfig'.ca = answer.data
                BY <2>1, <3>2, <4>1 DEF PinnedServer, Server, CABytes, Config
            <4>3. answer.result = "ok"
                BY <3>2, <3>6 DEF CACertAnswers
            <4>4. PinnedCA(HubConfig.ca)'
                BY <2>1, <2>3, <3>4, <4>2, <4>3
                DEF PinnedCA, Answered, Request, UseCAFile
            <4>5. QED
                BY <2>1, <2>3, <3>4, <4>1, <4>2, <4>4
                DEF Steps, Pinned, Checked, Bootstrapped, UseCAFile,
                    ExternalBootstrapConfig
        <3>7. QED
            BY <3>5, <3>6
    <2>4. QED
        BY <2>2, <2>3
<1>5. CASE LookupKlusterletAPIServer
    <2>1. klusterletAPIServer' \in Server
        <3>1. \/ klusterletAPIServer' = klusterletAPIServer
              \/ \E answer \in APIServerAnswers(managedInfo) :
                    klusterletAPIServer' =
                        IF answer.result = "ok" /\ answer.data \in ValidAddr
                           THEN answer.data ELSE Empty
            BY <1>5 DEF LookupKlusterletAPIServer
        <3>2. \A answer \in APIServerAnswers(managedInfo) : answer.data \in Server
            BY DEF APIServerAnswers, Server
        <3>3. QED
            BY <3>1, <3>2 DEF Server
    <2>2. UNCHANGED <<o, hubInfo, managedInfo, HubCADate, bootstrapConfig,
                      hubInClusterEndpoint, HubConfig, kubeConfig, hubCalls>>
        BY <1>5 DEF LookupKlusterletAPIServer
    <2>3. pc = "klusterlet" /\ pc' \in {"failed", "validate"} /\ err' \in Errors
        BY <1>5 DEF LookupKlusterletAPIServer, Fail, Errors
    <2>4. QED
        BY <2>1, <2>2, <2>3 DEF Steps, PinnedCA, Answered, UseCAFile,
              Checked, Bootstrapped, Pinned, ExternalBootstrapConfig
<1>6. CASE Validate
    <2>1. /\ HubConfig \in Config
          /\ HubConfig.server = o.hubAPIServer
          /\ o.hubAPIServer \in Addr
          /\ ~HubConfig.insecure
          /\ PinnedCA(HubConfig.ca)
          /\ kubeConfig = Empty
        BY <1>6 DEF Validate, Pinned, Checked
    <2>2. PICK result \in {"ok", "error"} :
             /\ hubCalls' = Append(hubCalls,
                              Request("Preflight", HubConfig,
                                      [result |-> result, data |-> Empty]))
             /\ IF result = "error"
                   THEN /\ Fail("network")
                        /\ UNCHANGED <<HubConfig, kubeConfig>>
                   ELSE /\ HubConfig' = SetKubeconfigServer(HubConfig)
                        /\ kubeConfig' = Marshal(SetKubeconfigServer(HubConfig))
                        /\ pc' = "validated"
                        /\ UNCHANGED err
        BY <1>6 DEF Validate
    <2>3. Request("Preflight", HubConfig, [result |-> result, data |-> Empty])
            \in HubCall
        BY <2>1, RequestTyped DEF Results, Server
    <2>4. /\ hubCalls' \in Seq(HubCall)
          /\ DOMAIN hubCalls' = DOMAIN hubCalls \cup {Len(hubCalls) + 1}
          /\ \A i \in DOMAIN hubCalls : hubCalls'[i] = hubCalls[i]
          /\ hubCalls'[Len(hubCalls) + 1].op = "Preflight"
        BY <2>2, <2>3, AppendKeeps DEF Request
    <2>5. UNCHANGED <<o, hubInfo, managedInfo, HubCADate, bootstrapConfig,
                      hubInClusterEndpoint, klusterletAPIServer>>
        BY <1>6 DEF Validate
    <2>6. ASSUME NEW ca, PinnedCA(ca) PROVE PinnedCA(ca)'
        <3>1. CASE UseCAFile
            BY <2>5, <2>6, <3>1 DEF PinnedCA, UseCAFile
        <3>2. CASE ~UseCAFile
            <4>1. PICK i \in DOMAIN hubCalls :
                     Answered(i, "GetCACert") /\ ca = hubCalls[i].data
                BY <2>6, <3>2 DEF PinnedCA
            <4>2. i \in DOMAIN hubCalls' /\ hubCalls'[i] = hubCalls[i]
                BY <2>4
            <4>3. QED
                BY <2>5, <3>2, <4>1, <4>2 DEF PinnedCA, Answered, UseCAFile
        <3>3. QED
            BY <3>1, <3>2
    <2>7. CASE result = "error"
        <3>1. PinnedCA(HubConfig.ca)'
            BY <2>1, <2>2, <2>6, <2>7
        <3>2. QED
            BY <2>1, <2>2, <2>4, <2>5, <2>7, <3>1 DEF Fail, Steps, Errors,
                 Pinned, Checked, Bootstrapped, UseCAFile
    <2>8. CASE result = "ok"
        <3>1. /\ HubConfig' \in Config
              /\ ~HubConfig'.insecure
              /\ HubConfig'.ca = HubConfig.ca
            BY <2>1, <2>2, <2>8, SetKubeconfigKeeps
        <3>2. kubeConfig' = Marshal(HubConfig') /\ kubeConfig' \in Config
            BY <2>2, <2>8, <3>1, MarshalTyped
        <3>3. PinnedCA(HubConfig.ca)'
            BY <2>1, <2>6, <3>1
        <3>4. pc' = "validated" /\ err' = err
            BY <2>2, <2>8
        <3>5. UseCAFile' => \A i \in DOMAIN hubCalls' :
                                hubCalls'[i].op # "GetCACert"
            BY <2>4, <2>5 DEF UseCAFile
        <3>6. TypeOK'
            BY <2>4, <2>5, <3>1, <3>2, <3>4 DEF Steps
        <3>7. (pc \in Checked => o.hubAPIServer \in Addr)'
            BY <2>1, <2>5, <3>4 DEF Checked
        <3>8. (pc \in Bootstrapped
                 => bootstrapConfig = ExternalBootstrapConfig)'
            BY <1>6, <2>5, <3>4 DEF Validate, Bootstrapped, Checked,
                                    ExternalBootstrapConfig
        <3>9. (pc \in Pinned
                 => /\ HubConfig \in Config
                    /\ ~HubConfig.insecure
                    /\ PinnedCA(HubConfig.ca))'
            BY <3>1, <3>3
        <3>10. (pc \in Pinned \ {"validated"}
                   => HubConfig.server = o.hubAPIServer)'
            BY <3>4
        <3>11. QED
            BY <3>2, <3>4, <3>5, <3>6, <3>7, <3>8, <3>9, <3>10
    <2>9. QED
        BY <2>7, <2>8
<1>7. CASE Terminated \/ UNCHANGED vars
    BY <1>7 DEF Terminated, vars, PinnedCA, Answered, UseCAFile,
              ExternalBootstrapConfig, Marshal, MarshalCA
<1>8. QED
    BY <1>1, <1>2, <1>3, <1>4, <1>5, <1>6, <1>7 DEF Next

\* The inductive invariant carries the type invariant.
LEMMA IInvTypeOK == IInv => TypeOK
BY DEF IInv

\* The inductive invariant implies CredentialPinned: a written kubeconfig is
\* Marshal(o.HubConfig), and o.HubConfig is secure and carries the pinned CA.
LEMMA IInvCredentialPinned == IInv => CredentialPinned
<1> SUFFICES ASSUME IInv, kubeConfig # Empty
             PROVE  /\ ~kubeConfig.insecure
                    /\ HubCADate # Nil =>
                          /\ kubeConfig.ca = HubCADate
                          /\ \A i \in DOMAIN hubCalls :
                                 hubCalls[i].op # "GetCACert"
                    /\ HubCADate = Nil =>
                          \E i \in DOMAIN hubCalls :
                              /\ Answered(i, "GetCACert")
                              /\ kubeConfig.ca = MarshalCA(hubCalls[i].data)
    BY DEF CredentialPinned
<1>1. /\ pc = "validated"
      /\ kubeConfig = Marshal(HubConfig)
      /\ HubConfig \in Config
      /\ ~HubConfig.insecure
      /\ PinnedCA(HubConfig.ca)
    BY DEF IInv, Pinned
<1>2. kubeConfig.insecure = HubConfig.insecure
      /\ kubeConfig.ca = MarshalCA(HubConfig.ca)
    BY <1>1 DEF Marshal
<1>3. CASE HubCADate # Nil
    <2>1. HubConfig.ca = HubCADate /\ HubCADate \in CABytes
        BY <1>1, <1>3 DEF PinnedCA, UseCAFile, IInv, TypeOK
    <2>2. MarshalCA(HubConfig.ca) = HubCADate
        BY <1>3, <2>1 DEF MarshalCA
    <2>3. QED
        BY <1>1, <1>2, <1>3, <2>2 DEF IInv, UseCAFile
<1>4. CASE HubCADate = Nil
    BY <1>1, <1>2, <1>4 DEF PinnedCA, UseCAFile
<1>5. QED
    BY <1>1, <1>2, <1>3, <1>4

\* Type correctness of the join: every reachable state of Options.run's
\* trust-escalation steps is well typed.
THEOREM TypeCorrect == Spec => []TypeOK
<1>1. IInv => TypeOK
    BY IInvTypeOK
<1>2. QED
    BY InitIInv, NextIInv, <1>1, PTL DEF Spec

\* For every set of hub addresses and CAs: the kubeconfig the join writes
\* verifies TLS and pins the --ca-file bytes or the CA the hub returned to
\* the insecure GetCACert request (createClientcmdapiv1Config, setKubeconfig).
THEOREM CredentialPinnedHolds == Spec => []CredentialPinned
<1>1. IInv => CredentialPinned
    BY IInvCredentialPinned
<1>2. QED
    BY InitIInv, NextIInv, <1>1, PTL DEF Spec


-----------------------------------------------------------------------------
(* The order of the requests and the error policy *)

\* TrustOrder and ErrorPolicy are not inductive as stated: a Preflight may
\* follow only insecure requests, and o.HubConfig may leave the supplied
\* address only with the step that sent a passing Preflight.  OrderInv says
\* that only the Preflight is secure and it ends the requests, that a fatal
\* answer ends them and fails the join, what validated and a network error
\* leave as the last request, and that o.HubConfig keeps the supplied
\* address until validated.
OrderInv ==
    /\ \A i \in DOMAIN hubCalls :
          /\ hubCalls[i].server = o.hubAPIServer
          /\ hubCalls[i].secure <=> hubCalls[i].op = "Preflight"
          /\ hubCalls[i].op = "Preflight" =>
                i = Len(hubCalls) /\ pc \in {"validated", "failed"}
          /\ Fatal(hubCalls[i]) => i = Len(hubCalls) /\ pc = "failed"
    /\ pc = "validated" =>
          hubCalls # << >> /\ Answered(Len(hubCalls), "Preflight")
    /\ pc = "failed" /\ err = "network" =>
          hubCalls # << >> /\ Fatal(hubCalls[Len(hubCalls)])
    /\ HubConfig # Nil /\ pc # "validated" => HubConfig.server = o.hubAPIServer


\* A request appended to requests that were all insecure and answered
\* without a fatal error: every request keeps the server, only a Preflight
\* is secure, and a Preflight or a fatal answer can only be the new last
\* request.
LEMMA OrderAppend ==
    ASSUME NEW s \in Seq(HubCall), NEW e \in HubCall, NEW srv,
           \A i \in DOMAIN s :
              /\ s[i].server = srv
              /\ s[i].secure <=> s[i].op = "Preflight"
              /\ s[i].op # "Preflight" /\ ~Fatal(s[i]),
           e.server = srv, e.secure <=> e.op = "Preflight"
    PROVE  /\ Append(s, e) # << >>
           /\ Len(Append(s, e)) = Len(s) + 1
           /\ Append(s, e)[Len(s) + 1] = e
           /\ \A i \in DOMAIN Append(s, e) :
                 /\ Append(s, e)[i].server = srv
                 /\ Append(s, e)[i].secure <=> Append(s, e)[i].op = "Preflight"
                 /\ Append(s, e)[i].op = "Preflight" => i = Len(s) + 1
                 /\ Fatal(Append(s, e)[i]) => i = Len(s) + 1
<1>1. /\ Append(s, e) \in Seq(HubCall)
      /\ DOMAIN Append(s, e) = DOMAIN s \cup {Len(s) + 1}
      /\ \A i \in DOMAIN s : Append(s, e)[i] = s[i]
      /\ Append(s, e)[Len(s) + 1] = e
    BY AppendKeeps
<1>2. Len(Append(s, e)) = Len(s) + 1 /\ Append(s, e) # << >>
    BY AppendProperties, EmptySeq
<1>3. QED
    BY <1>1, <1>2

\* Before validated and failed, no request was a Preflight or failed fatally.
LEMMA OrderOpen ==
    ASSUME OrderInv, pc \notin {"validated", "failed"}
    PROVE  \A i \in DOMAIN hubCalls :
              /\ hubCalls[i].server = o.hubAPIServer
              /\ hubCalls[i].secure <=> hubCalls[i].op = "Preflight"
              /\ hubCalls[i].op # "Preflight" /\ ~Fatal(hubCalls[i])
BY DEF OrderInv

THEOREM InitOrderInv == Init => OrderInv
BY DEF Init, OrderInv


\* A step before any request can fail fatally that sends nothing, keeps
\* o.HubConfig at the supplied address, and does not fail with a network
\* error keeps OrderInv.
LEMMA OrderQuiet ==
    ASSUME OrderInv, pc \notin {"validated", "failed"},
           UNCHANGED <<o, hubCalls>>,
           pc' # "validated", pc' = "failed" => err' # "network",
           HubConfig' # Nil => HubConfig'.server = o.hubAPIServer
    PROVE  OrderInv'
BY OrderOpen DEF OrderInv

THEOREM OrderNext == IInv /\ OrderInv /\ [Next]_vars => OrderInv'
<1> SUFFICES ASSUME IInv, OrderInv, [Next]_vars PROVE OrderInv'
    OBVIOUS
<1>0. hubCalls \in Seq(HubCall) /\ o \in Options
    BY DEF IInv, TypeOK
<1>1. CASE CompleteOptions
    BY <1>1, OrderQuiet DEF CompleteOptions, Fail, OrderInv
<1>2. CASE CreateBootstrapClient
    BY <1>2, OrderQuiet DEF CreateBootstrapClient, Fail, OrderInv
<1>3. CASE LookupHubInClusterEndpoint
    <2>1. pc = "lookup" /\ bootstrapConfig = ExternalBootstrapConfig
          /\ UNCHANGED <<o, HubConfig>>
        BY <1>3 DEF LookupHubInClusterEndpoint, IInv, Bootstrapped, Checked
    <2>2. CASE ~o.force
        BY <1>3, <2>1, <2>2, OrderQuiet DEF LookupHubInClusterEndpoint,
                                          OrderInv
    <2>3. CASE o.force
        <3>1. PICK answer \in APIServerAnswers(hubInfo) :
                /\ hubCalls' = Append(hubCalls,
                                 Request("GetAPIServer", bootstrapConfig, answer))
                /\ IF LookupErrorReturned(answer)
                      THEN Fail("network")
                      ELSE pc' = "trust" /\ UNCHANGED err
            BY <1>3, <2>3 DEF LookupHubInClusterEndpoint
        <3> DEFINE e == Request("GetAPIServer", bootstrapConfig, answer)
        <3>2. e \in HubCall
            BY <1>3, <3>1, AnswersTyped, BootstrapTyped, RequestTyped
            DEF LookupHubInClusterEndpoint, Bootstrapped, Checked, IInv,
                TypeOK, Server
        <3>3. e.server = o.hubAPIServer /\ ~e.secure /\ e.op # "Preflight"
            BY <2>1 DEF Request, ExternalBootstrapConfig
        <3>4. Fatal(e) <=> LookupErrorReturned(answer)
            BY DEF Fatal, Request, LookupErrorReturned, APIServerAnswers
        <3>5. QED
            BY <1>0, <2>1, <3>1, <3>2, <3>3, <3>4, OrderAppend, OrderOpen
            DEF OrderInv, Fail
    <2>4. QED
        BY <2>2, <2>3
<1>4. CASE PinHubCA
    <2>1. /\ pc = "trust" /\ bootstrapConfig = ExternalBootstrapConfig
          /\ UNCHANGED o
          /\ HubConfig' # HubConfig => HubConfig'.server = o.hubAPIServer
        BY <1>4 DEF PinHubCA, IInv, Bootstrapped, Checked, PinnedServer
    <2>2. CASE UseCAFile
        BY <1>4, <2>1, <2>2, OrderQuiet DEF PinHubCA, OrderInv
    <2>3. CASE ~UseCAFile
        <3>1. PICK answer \in CACertAnswers(hubInfo) :
                /\ hubCalls' = Append(hubCalls,
                                 Request("GetCACert", bootstrapConfig, answer))
                /\ IF answer.result = "error"
                      THEN Fail("network") /\ UNCHANGED HubConfig
                      ELSE pc' = "klusterlet" /\ UNCHANGED err
            BY <1>4, <2>3 DEF PinHubCA
        <3> DEFINE e == Request("GetCACert", bootstrapConfig, answer)
        <3>2. e \in HubCall
            BY <1>4, <3>1, AnswersTyped, BootstrapTyped, RequestTyped
            DEF PinHubCA, Bootstrapped, Checked, IInv, TypeOK, CABytes
        <3>3. e.server = o.hubAPIServer /\ ~e.secure /\ e.op # "Preflight"
            BY <2>1 DEF Request, ExternalBootstrapConfig
        <3>4. Fatal(e) <=> answer.result = "error"
            BY DEF Fatal, Request, CACertAnswers
        <3>5. QED
            BY <1>0, <2>1, <3>1, <3>2, <3>3, <3>4, OrderAppend, OrderOpen
            DEF OrderInv, Fail
    <2>4. QED
        BY <2>2, <2>3
<1>5. CASE LookupKlusterletAPIServer
    BY <1>5, OrderQuiet DEF LookupKlusterletAPIServer, Fail, OrderInv
<1>6. CASE Validate
    <2>1. /\ pc = "validate" /\ HubConfig \in Config
          /\ HubConfig.server = o.hubAPIServer /\ ~HubConfig.insecure
          /\ UNCHANGED o
        BY <1>6 DEF Validate, IInv, Pinned, OrderInv
    <2>2. PICK result \in {"ok", "error"} :
             /\ hubCalls' = Append(hubCalls,
                              Request("Preflight", HubConfig,
                                      [result |-> result, data |-> Empty]))
             /\ IF result = "error"
                   THEN Fail("network") /\ UNCHANGED HubConfig
                   ELSE pc' = "validated" /\ UNCHANGED err
        BY <1>6 DEF Validate
    <2> DEFINE e == Request("Preflight", HubConfig,
                            [result |-> result, data |-> Empty])
    <2>3. e \in HubCall
        BY <2>1, RequestTyped DEF Results, Server, IInv, Checked, Pinned
    <2>4. /\ e.server = o.hubAPIServer /\ e.secure /\ e.op = "Preflight"
          /\ e.result = result
          /\ Fatal(e) <=> result = "error"
        BY <2>1 DEF Request, Fatal
    <2>5. QED
        BY <1>0, <2>1, <2>2, <2>3, <2>4, OrderAppend, OrderOpen
        DEF OrderInv, Fail, Answered
<1>7. CASE Terminated \/ UNCHANGED vars
    BY <1>7 DEF Terminated, vars, OrderInv, Answered, Fatal
<1>8. QED
    BY <1>1, <1>2, <1>3, <1>4, <1>5, <1>6, <1>7 DEF Next


\* OrderInv, on well-typed requests, gives the order of the requests.
LEMMA OrderTrust == IInv /\ OrderInv => TrustOrder
<1> SUFFICES ASSUME IInv, OrderInv PROVE TrustOrder
    OBVIOUS
<1>0. hubCalls \in Seq(HubCall)
    BY DEF IInv, TypeOK
<1>1. \A i, j \in DOMAIN hubCalls :
          i < j /\ hubCalls[i].secure => hubCalls[j].secure
    BY <1>0 DEF OrderInv
<1>2. HubConfig # Nil /\ HubConfig.server # o.hubAPIServer =>
          \E i \in DOMAIN hubCalls : Answered(i, "Preflight")
    BY <1>0 DEF OrderInv
<1>3. QED
    BY <1>1, <1>2 DEF OrderInv, TrustOrder

\* For every set of hub addresses and CAs: every request of the join goes
\* to the supplied --hub-apiserver, no insecure request follows the secure
\* Preflight, and o.HubConfig leaves the supplied address only after the
\* hub answered the Preflight (Options.complete, Options.validate).
THEOREM TrustOrderHolds == Spec => []TrustOrder
<1>1. IInv /\ OrderInv => TrustOrder
    BY OrderTrust
<1>2. QED
    BY InitIInv, NextIInv, InitOrderInv, OrderNext, <1>1, PTL DEF Spec

\* For every set of hub addresses and CAs: a request of the join that failed
\* fatally is its last and the join failed, and a network error the join
\* returns is the answer to its last request, so a NotFound from the
\* in-cluster endpoint lookup never aborts it.
THEOREM ErrorPolicyHolds == Spec => []ErrorPolicy
<1>1. OrderInv => ErrorPolicy
    BY DEF OrderInv, ErrorPolicy
<1>2. QED
    BY InitIInv, NextIInv, InitOrderInv, OrderNext, <1>1, PTL DEF Spec


-----------------------------------------------------------------------------
(* The steps that change o.HubConfig *)

\* o.HubConfig is built only by createClientcmdapiv1Config, after the
\* lookup: before it, the field is still unset.
Unpinned == pc \in {"complete", "bootstrap", "lookup", "trust"} => HubConfig = Nil

LEMMA InitUnpinned == Init => Unpinned
BY DEF Init, Unpinned

LEMMA NextUnpinned == Unpinned /\ [Next]_vars => Unpinned'
<1> SUFFICES ASSUME Unpinned, [Next]_vars PROVE Unpinned'
    OBVIOUS
<1>1. CASE CompleteOptions \/ CreateBootstrapClient
             \/ LookupHubInClusterEndpoint
    BY <1>1 DEF CompleteOptions, CreateBootstrapClient,
               LookupHubInClusterEndpoint, Fail, Unpinned
<1>2. CASE PinHubCA
    BY <1>2 DEF PinHubCA, Fail, Unpinned
<1>3. CASE LookupKlusterletAPIServer \/ Validate
    BY <1>3 DEF LookupKlusterletAPIServer, Validate, Fail, Unpinned
<1>4. CASE Terminated \/ UNCHANGED vars
    BY <1>4 DEF Terminated, vars, Unpinned
<1>5. QED
    BY <1>1, <1>2, <1>3, <1>4 DEF Next

\* Each step of the join changes o.HubConfig only as HubConfigStep allows.
LEMMA HubConfigStepNext ==
    IInv /\ Unpinned /\ [Next]_vars => [HubConfigStep]_vars
<1> SUFFICES ASSUME IInv, Unpinned, [Next]_vars PROVE [HubConfigStep]_vars
    OBVIOUS
<1>1. CASE CompleteOptions \/ CreateBootstrapClient
             \/ LookupHubInClusterEndpoint \/ LookupKlusterletAPIServer
             \/ Terminated \/ UNCHANGED vars
    <2>1. HubConfig' = HubConfig
        BY <1>1 DEF CompleteOptions, CreateBootstrapClient,
                   LookupHubInClusterEndpoint, LookupKlusterletAPIServer,
                   Terminated, vars
    <2>2. QED
        BY <2>1 DEF HubConfigStep
<1>2. CASE PinHubCA
    <2>1. HubConfig = Nil
        BY <1>2 DEF PinHubCA, Unpinned
    <2>2. QED
        BY <1>2, <2>1 DEF PinHubCA, PinnedServer, Fail, HubConfigStep
<1>3. CASE Validate
    <2>1. /\ pc = "validate" /\ HubConfig \in Config /\ ~HubConfig.insecure
          /\ hubCalls \in Seq(HubCall)
        BY <1>3 DEF Validate, IInv, Pinned, TypeOK
    <2>2. PICK result \in {"ok", "error"} :
             /\ hubCalls' = Append(hubCalls,
                              Request("Preflight", HubConfig,
                                      [result |-> result, data |-> Empty]))
             /\ IF result = "error"
                   THEN Fail("network") /\ UNCHANGED <<HubConfig, kubeConfig>>
                   ELSE /\ HubConfig' = SetKubeconfigServer(HubConfig)
                        /\ pc' = "validated"
        BY <1>3 DEF Validate
    <2>3. CASE result = "error"
        BY <2>2, <2>3 DEF HubConfigStep
    <2>4. CASE result = "ok"
        <3>1. /\ Len(hubCalls') = Len(hubCalls) + 1
              /\ hubCalls'[Len(hubCalls')].op = "Preflight"
              /\ hubCalls'[Len(hubCalls')].result = "ok"
            BY <2>1, <2>2, <2>4 DEF Request
        <3>2. HubConfig'.ca = HubConfig.ca /\ ~HubConfig'.insecure
              /\ pc' = "validated"
            BY <2>1, <2>2, <2>4 DEF SetKubeconfigServer
        <3>3. QED
            BY <3>1, <3>2 DEF HubConfigStep, Answered
    <2>5. QED
        BY <2>3, <2>4
<1>4. QED
    BY <1>1, <1>2, <1>3 DEF Next

\* For every set of addresses and CAs: o.HubConfig is built once, verifying
\* TLS against the supplied address, and setKubeconfig switches its server,
\* keeping its CA, only after the hub answered the Preflight check.
THEOREM HubConfigSwitchedAfterPreflightHolds ==
    Spec => HubConfigSwitchedAfterPreflight
<1>1. Init => IInv /\ Unpinned
    BY InitIInv, InitUnpinned
<1>2. IInv /\ Unpinned /\ [Next]_vars => IInv' /\ Unpinned'
    BY NextIInv, NextUnpinned
<1>3. IInv /\ Unpinned /\ [Next]_vars => [HubConfigStep]_vars
    BY HubConfigStepNext
<1>4. QED
    BY <1>1, <1>2, <1>3, PTL DEF Spec, HubConfigSwitchedAfterPreflight

=============================================================================
