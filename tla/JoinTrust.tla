------------------------------ MODULE JoinTrust ------------------------------
(***************************************************************************)
(* Trust escalation of `clusteradm join` (package join): Options.complete  *)
(* and Options.validate.  The command starts from a hub address and a      *)
(* bootstrap token, talks to the hub with an insecure (unverified TLS)     *)
(* client to learn the hub's CA bundle and, optionally, its in-cluster     *)
(* endpoint, and builds the CA-pinned bootstrap kubeconfig that run()      *)
(* later applies to the managed cluster as a secret.                       *)
(*                                                                         *)
(* The command is one thread; each action is one step of complete() or    *)
(* validate() between two calls to a cluster.  The hub and the managed     *)
(* cluster are the environment: their kube-public/cluster-info content is  *)
(* fixed at Init, and every request may fail with a transport error.       *)
(***************************************************************************)
EXTENDS Naturals, Sequences

CONSTANTS
    Addr,       \* API server URLs (model values)
    ValidAddr,  \* the URLs that start with http:// or https://
    CA,         \* non-empty certificate-authority bundles
    Empty,      \* the empty string, or a zero-length non-nil byte slice
    Nil         \* a nil byte slice or a nil pointer

ASSUME JoinTrustAssumption ==
    /\ ValidAddr \subseteq Addr
    /\ Empty \notin Addr \cup CA
    /\ Nil \notin Addr \cup CA \cup {Empty}

VARIABLES
    o,                    \* the command-line options of the invocation
    hubInfo,              \* hub's cluster-info configmap: Nil or [server, ca]
    managedInfo,          \* managed cluster's cluster-info server, or Nil
    pc,                   \* the step of complete()/validate() to run next
    err,                  \* the error complete()/validate() returned
    HubCADate,            \* o.HubCADate: the bytes read from --ca-file
    bootstrapConfig,      \* the insecure bootstrap kubeconfig
    hubInClusterEndpoint, \* o.hubInClusterEndpoint
    HubConfig,            \* o.HubConfig: the secure bootstrap kubeconfig
    klusterletAPIServer,  \* o.values.Klusterlet.APIServer
    kubeConfig,           \* o.values.Hub.KubeConfig: the marshalled HubConfig
    hubCalls              \* the requests sent to the hub, in order

vars == <<o, hubInfo, managedInfo, pc, err, HubCADate, bootstrapConfig,
          hubInClusterEndpoint, HubConfig, klusterletAPIServer, kubeConfig,
          hubCalls>>

-----------------------------------------------------------------------------
(* Data *)

CABytes == CA \cup {Empty}
Server == Addr \cup {Empty}

\* The options: a string option is TRUE when non-empty; caFile is TRUE when
\* --ca-file is given; bundleKnown when --bundle-version names a bundle.
Options == [token: BOOLEAN, hubAPIServer: Server, clusterName: BOOLEAN,
            registry: BOOLEAN, bundleKnown: BOOLEAN, caFile: BOOLEAN,
            force: BOOLEAN]

\* The one cluster stanza of a clientcmdapiv1.Config that matters here.
Config == [server: Server, insecure: BOOLEAN, ca: CABytes \cup {Nil}]

\* cluster-info's kubeconfig: a CA that is not in it is decoded as nil.
ClusterInfo == [server: Server, ca: CA \cup {Nil}]

Results == {"ok", "notfound", "error"}

\* A request sent to the hub: always to a URL.
HubCall == [op: {"GetAPIServer", "GetCACert", "Preflight"}, server: Addr,
            secure: BOOLEAN, result: Results, data: Server \cup CABytes \cup {Nil}]

Steps == {"complete", "bootstrap", "lookup", "trust", "klusterlet",
          "validate", "validated", "failed"}

Errors == {"none", "config", "local", "network"}

-----------------------------------------------------------------------------
(* The cluster helpers the command calls (pkg/helpers, pkg/cmd/join/preflight) *)

\* What helpers.GetAPIServer answers from a cluster whose cluster-info is
\* info: the configmap's server, NotFound when it is missing, or a failure.
APIServerAnswers(info) ==
    {[result |-> "error", data |-> Empty]} \cup
    IF info = Nil THEN {[result |-> "notfound", data |-> Empty]}
                  ELSE {[result |-> "ok", data |-> info.server]}

\* What helpers.GetCACert answers: the CA data of cluster-info, nil when
\* cluster-info is missing (a publicly trusted hub), or a failure.
CACertAnswers(info) ==
    {[result |-> "error", data |-> Nil],
     [result |-> "ok", data |-> IF info = Nil THEN Nil ELSE info.ca]}

\* A request made with the client built from config cfg.
Request(op, cfg, answer) ==
    [op |-> op, server |-> cfg.server, secure |-> ~cfg.insecure,
     result |-> answer.result, data |-> answer.data]

\* yaml.Marshal of the config: certificate-authority-data is omitempty, so a
\* nil and an empty CA are both written as no CA.
MarshalCA(ca) == IF ca = Nil THEN Empty ELSE ca

Marshal(cfg) ==
    [server |-> cfg.server, insecure |-> cfg.insecure, ca |-> MarshalCA(cfg.ca)]

\* Mutant: the hub-server check of complete() dropped.
RequiredOptionsSetNoHubServer ==
    o.token /\ o.clusterName /\ o.registry

RequiredOptionsSet ==
    o.token /\ o.hubAPIServer # Empty /\ o.clusterName /\ o.registry

Fail(e) == pc' = "failed" /\ err' = e

\* Mutant: every lookup error returned, NotFound included.
LookupErrorReturnedAll(answer) == answer.result # "ok"

\* createClientcmdapiv1Config returns a lookup error unless it is NotFound.
LookupErrorReturned(answer) == answer.result \notin {"ok", "notfound"}

\* Mutant: the --ca-file bytes used only when non-empty (len(...) > 0).
UseCAFileNonEmpty == HubCADate \in CA

\* The --ca-file bytes are used whenever they were read (o.HubCADate != nil).
UseCAFile == HubCADate # Nil

\* Mutant: the in-cluster endpoint substituted while building o.HubConfig.
PinnedServerInCluster ==
    IF o.force THEN hubInClusterEndpoint ELSE o.hubAPIServer

\* The server of the secure config built by createClientcmdapiv1Config.
PinnedServer == o.hubAPIServer

\* createExternalBootstrapConfig: the hub address and the token, without CA,
\* skipping TLS verification.
ExternalBootstrapConfig ==
    [server |-> o.hubAPIServer, insecure |-> TRUE, ca |-> Nil]

\* setKubeconfig: the in-cluster endpoint replaces the server when the lookup
\* was forced.
SetKubeconfigServer(cfg) ==
    IF o.force
       THEN [server |-> hubInClusterEndpoint, insecure |-> cfg.insecure,
             ca |-> cfg.ca]
       ELSE cfg

-----------------------------------------------------------------------------
(* Actions *)

Init ==
    /\ o \in Options
    /\ hubInfo \in {Nil} \cup ClusterInfo
    /\ managedInfo \in {Nil} \cup [server: Server]
    /\ pc = "complete"
    /\ err = "none"
    /\ HubCADate = Nil
    /\ bootstrapConfig = Nil
    /\ hubInClusterEndpoint = Empty
    /\ HubConfig = Nil
    /\ klusterletAPIServer = Empty
    /\ kubeConfig = Empty
    /\ hubCalls = << >>

\* complete(), up to reading --ca-file: the required options, the version
\* bundle, and the CA file, each an early return on error.
CompleteOptions ==
    /\ pc = "complete"
    /\ \/ /\ ~(RequiredOptionsSet /\ o.bundleKnown)
          /\ Fail("config")
          /\ UNCHANGED HubCADate
       \/ /\ RequiredOptionsSet /\ o.bundleKnown /\ ~o.caFile
          /\ pc' = "bootstrap"
          /\ UNCHANGED <<err, HubCADate>>
       \/ /\ RequiredOptionsSet /\ o.bundleKnown /\ o.caFile
          /\ Fail("local")
          /\ UNCHANGED HubCADate
       \/ /\ RequiredOptionsSet /\ o.bundleKnown /\ o.caFile
          /\ \E bytes \in CABytes : HubCADate' = bytes
          /\ pc' = "bootstrap"
          /\ UNCHANGED err
    /\ UNCHANGED <<o, hubInfo, managedInfo, bootstrapConfig,
                   hubInClusterEndpoint, HubConfig, klusterletAPIServer,
                   kubeConfig, hubCalls>>

\* createExternalBootstrapConfig and the insecure client built from it.
CreateBootstrapClient ==
    /\ pc = "bootstrap"
    /\ bootstrapConfig' = ExternalBootstrapConfig
    /\ \/ pc' = "lookup" /\ UNCHANGED err
       \/ Fail("local")
    /\ UNCHANGED <<o, hubInfo, managedInfo, HubCADate, hubInClusterEndpoint,
                   HubConfig, klusterletAPIServer, kubeConfig, hubCalls>>

\* createClientcmdapiv1Config, first part: with
\* --force-internal-endpoint-lookup, ask the hub for its in-cluster endpoint
\* over the insecure client; NotFound is tolerated, any other error returned.
LookupHubInClusterEndpoint ==
    /\ pc = "lookup"
    /\ \/ /\ ~o.force
          /\ pc' = "trust"
          /\ UNCHANGED <<err, hubInClusterEndpoint, hubCalls>>
       \/ /\ o.force
          /\ \E answer \in APIServerAnswers(hubInfo) :
               /\ hubCalls' = Append(hubCalls,
                                Request("GetAPIServer", bootstrapConfig, answer))
               /\ hubInClusterEndpoint' = answer.data
               /\ IF LookupErrorReturned(answer)
                     THEN Fail("network")
                     ELSE pc' = "trust" /\ UNCHANGED err
    /\ UNCHANGED <<o, hubInfo, managedInfo, HubCADate, bootstrapConfig,
                   HubConfig, klusterletAPIServer, kubeConfig>>

\* createClientcmdapiv1Config, second part: a copy of the bootstrap config
\* that verifies TLS against the hub address, pinned to the --ca-file bytes
\* when they were read, else to the CA the hub reports over the insecure
\* client.  Its result is assigned to o.HubConfig.
PinHubCA ==
    /\ pc = "trust"
    /\ LET \* bootstrapConfig.DeepCopy() with all three fields reassigned
           secure(ca) == [server |-> PinnedServer, insecure |-> FALSE, ca |-> ca]
       IN \/ /\ UseCAFile
             /\ HubConfig' = secure(HubCADate)
             /\ pc' = "klusterlet"
             /\ UNCHANGED <<err, hubCalls>>
          \/ /\ ~UseCAFile
             /\ \E answer \in CACertAnswers(hubInfo) :
                  /\ hubCalls' = Append(hubCalls,
                                   Request("GetCACert", bootstrapConfig, answer))
                  /\ IF answer.result = "error"
                        THEN Fail("network") /\ UNCHANGED HubConfig
                        ELSE /\ HubConfig' = secure(answer.data)
                             /\ pc' = "klusterlet"
                             /\ UNCHANGED err
    /\ UNCHANGED <<o, hubInfo, managedInfo, HubCADate, bootstrapConfig,
                   hubInClusterEndpoint, klusterletAPIServer, kubeConfig>>

\* complete(), last part: the managed cluster's own API server, for the
\* klusterlet.  Failing to build the client is returned; a failed lookup or
\* a URL without http(s):// only leaves the value empty.
LookupKlusterletAPIServer ==
    /\ pc = "klusterlet"
    /\ \/ /\ Fail("local")
          /\ UNCHANGED klusterletAPIServer
       \/ /\ \E answer \in APIServerAnswers(managedInfo) :
               klusterletAPIServer' =
                   IF answer.result = "ok" /\ answer.data \in ValidAddr
                      THEN answer.data ELSE Empty
          /\ pc' = "validate"
          /\ UNCHANGED err
    /\ UNCHANGED <<o, hubInfo, managedInfo, HubCADate, bootstrapConfig,
                   hubInClusterEndpoint, HubConfig, kubeConfig, hubCalls>>

\* Mutant: setKubeconfig's switch made whatever the preflight check returned.
ValidateSwitchOnError ==
    /\ pc = "validate"
    /\ \E result \in {"ok", "error"} :
         /\ hubCalls' = Append(hubCalls,
                          Request("Preflight", HubConfig,
                                  [result |-> result, data |-> Empty]))
         /\ HubConfig' = SetKubeconfigServer(HubConfig)
         /\ IF result = "error"
               THEN Fail("network") /\ UNCHANGED kubeConfig
               ELSE /\ kubeConfig' = Marshal(SetKubeconfigServer(HubConfig))
                    /\ pc' = "validated"
                    /\ UNCHANGED err
    /\ UNCHANGED <<o, hubInfo, managedInfo, HubCADate, bootstrapConfig,
                   hubInClusterEndpoint, klusterletAPIServer>>

\* validate(): the preflight check of o.HubConfig against the hub, then
\* setKubeconfig, which switches the server to the in-cluster endpoint when
\* the lookup was forced and stores the marshalled config in the values.
Validate ==
    /\ pc = "validate"
    /\ \E result \in {"ok", "error"} :
         /\ hubCalls' = Append(hubCalls,
                          Request("Preflight", HubConfig,
                                  [result |-> result, data |-> Empty]))
         /\ IF result = "error"
               THEN /\ Fail("network")
                    /\ UNCHANGED <<HubConfig, kubeConfig>>
               ELSE /\ HubConfig' = SetKubeconfigServer(HubConfig)
                    /\ kubeConfig' = Marshal(SetKubeconfigServer(HubConfig))
                    /\ pc' = "validated"
                    /\ UNCHANGED err
    /\ UNCHANGED <<o, hubInfo, managedInfo, HubCADate, bootstrapConfig,
                   hubInClusterEndpoint, klusterletAPIServer>>

\* The command has returned.
Terminated == pc \in {"validated", "failed"} /\ UNCHANGED vars

Next ==
    \/ CompleteOptions
    \/ CreateBootstrapClient
    \/ LookupHubInClusterEndpoint
    \/ PinHubCA
    \/ LookupKlusterletAPIServer
    \/ Validate
    \/ Terminated

Spec == Init /\ [][Next]_vars

-----------------------------------------------------------------------------
(* Properties *)

TypeOK ==
    /\ o \in Options
    /\ hubInfo \in {Nil} \cup ClusterInfo
    /\ managedInfo \in {Nil} \cup [server: Server]
    /\ pc \in Steps
    /\ err \in Errors
    /\ HubCADate \in CABytes \cup {Nil}
    /\ bootstrapConfig \in Config \cup {Nil}
    /\ hubInClusterEndpoint \in Server
    /\ HubConfig \in Config \cup {Nil}
    /\ klusterletAPIServer \in Server
    /\ kubeConfig \in Config \cup {Empty}
    /\ hubCalls \in Seq(HubCall)

\* The i-th request to the hub was op and the hub answered it without error.
Answered(i, op) == hubCalls[i].op = op /\ hubCalls[i].result = "ok"

\* A request whose failure complete()/validate() returns to the caller:
\* every error except NotFound from the in-cluster endpoint lookup.
Fatal(call) ==
    \/ call.result = "error"
    \/ call.result = "notfound" /\ call.op # "GetAPIServer"

\* The bootstrap kubeconfig handed to the manifests verifies the hub's TLS
\* certificate, and it is pinned to the --ca-file bytes, without asking the
\* hub, when they were read; otherwise to exactly the CA that the hub
\* returned to the insecure GetCACert request (createClientcmdapiv1Config,
\* setKubeconfig).
CredentialPinned ==
    kubeConfig # Empty =>
        /\ ~kubeConfig.insecure
        /\ HubCADate # Nil =>
              /\ kubeConfig.ca = HubCADate
              /\ \A i \in DOMAIN hubCalls : hubCalls[i].op # "GetCACert"
        /\ HubCADate = Nil =>
              \E i \in DOMAIN hubCalls :
                  /\ Answered(i, "GetCACert")
                  /\ kubeConfig.ca = MarshalCA(hubCalls[i].data)

\* Every request of the join goes to the operator-supplied hub address; once
\* a request verified TLS no later request is insecure; and o.HubConfig
\* points at another server only after the preflight check against the
\* supplied address passed (the ordering setKubeconfig's comment demands).
TrustOrder ==
    /\ \A i \in DOMAIN hubCalls : hubCalls[i].server = o.hubAPIServer
    /\ \A i, j \in DOMAIN hubCalls :
           i < j /\ hubCalls[i].secure => hubCalls[j].secure
    /\ HubConfig # Nil /\ HubConfig.server # o.hubAPIServer =>
           \E i \in DOMAIN hubCalls : Answered(i, "Preflight")

\* Errors are not retried and abort the join: a request that failed fatally
\* is the last one and the command returned an error; a network error
\* returned by the command is the answer to its last request (so a NotFound
\* from the in-cluster endpoint lookup never aborts the join).
ErrorPolicy ==
    /\ \A i \in DOMAIN hubCalls :
           Fatal(hubCalls[i]) => i = Len(hubCalls) /\ pc = "failed"
    /\ pc = "failed" /\ err = "network" =>
           hubCalls # << >> /\ Fatal(hubCalls[Len(hubCalls)])

\* o.HubConfig changes in two steps only: createClientcmdapiv1Config builds
\* it once, verifying TLS against the supplied address; and setKubeconfig
\* switches its server, keeping its CA and TLS verification, only in the
\* step whose Preflight the hub answered ("the apiserver value should not
\* be set to in-cluster endpoint until preflight check is finished").
HubConfigStep ==
    \/ HubConfig' = HubConfig
    \/ /\ HubConfig = Nil /\ pc' = "klusterlet"
       /\ HubConfig'.server = o.hubAPIServer /\ ~HubConfig'.insecure
    \/ /\ pc' = "validated" /\ (Answered(Len(hubCalls), "Preflight"))'
       /\ HubConfig'.ca = HubConfig.ca /\ ~HubConfig'.insecure

HubConfigSwitchedAfterPreflight == [][HubConfigStep]_vars

\* Design spec section 4.2 step 4: the persisted server is switched to the
\* in-cluster endpoint only when the lookup resolved one; otherwise it stays
\* the supplied hub address.  setKubeconfig switches whenever the flag is set.
ServerSwitchedOnlyWhenResolved ==
    kubeConfig # Empty =>
        kubeConfig.server =
            IF \E i \in DOMAIN hubCalls : Answered(i, "GetAPIServer")
               THEN hubInClusterEndpoint
               ELSE o.hubAPIServer

-----------------------------------------------------------------------------
(* The inductive invariant behind TypeOK and CredentialPinned *)

\* ca is the CA the join pins: the --ca-file bytes when they were read,
\* otherwise what the hub answered to an insecure GetCACert request.
PinnedCA(ca) ==
    IF UseCAFile
       THEN ca = HubCADate
       ELSE \E i \in DOMAIN hubCalls :
                Answered(i, "GetCACert") /\ ca = hubCalls[i].data

\* The steps after complete() checked the options.
Checked == {"bootstrap", "lookup", "trust", "klusterlet", "validate",
            "validated"}

\* The steps after the insecure bootstrap client was built.
Bootstrapped == Checked \ {"bootstrap"}

\* The steps after o.HubConfig was built.
Pinned == {"klusterlet", "validate", "validated"}

IInv ==
    /\ TypeOK
    /\ pc = "complete" => hubCalls = << >> /\ HubCADate = Nil
    /\ UseCAFile => \A i \in DOMAIN hubCalls : hubCalls[i].op # "GetCACert"
    /\ pc \in Checked => o.hubAPIServer \in Addr
    /\ pc \in Bootstrapped => bootstrapConfig = ExternalBootstrapConfig
    /\ pc \in Pinned =>
          /\ HubConfig \in Config
          /\ ~HubConfig.insecure
          /\ PinnedCA(HubConfig.ca)
    /\ pc \in Pinned \ {"validated"} => HubConfig.server = o.hubAPIServer
    /\ \/ kubeConfig = Empty
       \/ pc = "validated" /\ kubeConfig = Marshal(HubConfig)


-----------------------------------------------------------------------------
(* Refinement of the trust escalation's contract *)

\* Where the join is in the escalation: complete() checks the input, the
\* insecure client is used until createClientcmdapiv1Config pins the CA,
\* and validate() checks and persists the credential.
TrustStatus ==
    CASE pc = "complete"                           -> "start"
      [] pc \in {"bootstrap", "lookup", "trust"}   -> "insecure"
      [] pc \in {"klusterlet", "validate"}         -> "pinned"
      [] pc = "validated"                          -> "persisted"
      [] pc = "failed"                             -> "failed"

TE == INSTANCE TrustEscalation
          WITH supplied <- o.hubAPIServer, explicit <- HubCADate,
               calls <- hubCalls, cred <- HubConfig, persisted <- kubeConfig,
               status <- TrustStatus

\* The join keeps the trust escalation's contract (spec section 4.2): every
\* behaviour of complete() and validate() is one of TrustEscalation's.
TrustEscalationRefined == TE!Spec

=============================================================================
